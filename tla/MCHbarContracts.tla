-------------------------- MODULE MCHbarContracts --------------------------
(* Instances of HbarContracts for TLC: each contract by itself, and WHBAR, which
   lets programs call from within, beside a purchase. *)
EXTENDS HbarContracts, TLC

Externals == Permutations(Accounts \ Programs)

Funds(c, x) ==
  IF c \in {"SimpleAuction", "Purchase"} THEN MaxFunds
  ELSE IF c = "BlindAuction" /\ x \in Programs THEN MaxFunds - 2 ELSE MaxFunds - 1
Alone == {[contracts |-> {c}, funds |-> [x \in Accounts |-> Funds(c, x)]] : c \in Contracts}
Pair ==
  {[contracts |-> {"WHBAR", "Purchase"},
    funds |-> [x \in Accounts |-> IF x = poor THEN 0 ELSE MaxFunds - 1]] :
     poor \in Accounts \ Programs}
Networks == Alone \cup Pair

SomeOffers == {[value |-> 1, fake |-> FALSE], [value |-> 2, fake |-> FALSE],
               [value |-> 1, fake |-> TRUE]}
=============================================================================

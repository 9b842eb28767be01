------------------------------- MODULE Erc20 -------------------------------
(***************************************************************************)
(* What a fungible token promises those who hold it, without saying how it *)
(* is called: WHBAR and the fungible face of the HTS mock implement it.    *)
(*                                                                         *)
(* Tokens come into being and go out of being with the supply; only their  *)
(* holder destroys them, only he and those he approved move them, and an   *)
(* approval is used up by as much, unless it is without limit.             *)
(***************************************************************************)
EXTENDS Integers

CONSTANTS Accounts, Unlimited

VARIABLES balance,     \* balance[a]: the tokens of a
          allowance,   \* allowance[a][b]: what b may still move of a's
          totalSupply,
          caller       \* who made the last call; nobody writes it here

tokens == <<balance, allowance, totalSupply>>

EInit ==
    /\ balance = [a \in Accounts |-> 0]
    /\ allowance = [a \in Accounts |-> [b \in Accounts |-> 0]]
    /\ totalSupply = 0

\* Anybody may be given new tokens.
Mint(to) ==
    LET n == totalSupply' - totalSupply
    IN  /\ n >= 0
        /\ balance' = [balance EXCEPT ![to] = @ + n]
        /\ UNCHANGED allowance

Burn ==
    \E n \in 0..balance[caller'] :
        /\ balance' = [balance EXCEPT ![caller'] = @ - n]
        /\ totalSupply' = totalSupply - n
        /\ UNCHANGED allowance

\* The caller moves n of somebody's tokens on an allowance, maybe his own.
Spend(from, n) ==
    LET left == allowance[from][caller']
    IN  \/ left = Unlimited /\ UNCHANGED allowance
        \/ /\ left \in Nat /\ n <= left
           /\ allowance' = [allowance EXCEPT ![from][caller'] = left - n]

Transfer(from, to) ==
    \E n \in 0..balance[from] :
        /\ \/ from = caller' /\ UNCHANGED allowance
           \/ Spend(from, n)
        /\ balance' = [[balance EXCEPT ![from] = @ - n] EXCEPT ![to] = @ + n]
        /\ UNCHANGED totalSupply

Approve(spender) ==
    /\ allowance'[caller'][spender] \in Nat \cup {Unlimited}
    /\ allowance' = [allowance EXCEPT ![caller'][spender] = allowance'[caller'][spender]]
    /\ UNCHANGED <<balance, totalSupply>>

ENext ==
    /\ caller' \in Accounts
    /\ \/ Burn
       \/ \E to \in Accounts : Mint(to) \/ Approve(to)
       \/ \E from, to \in Accounts : Transfer(from, to)

ESpec == EInit /\ [][ENext]_tokens
=============================================================================

---------------------------- MODULE HbarLedger ----------------------------
(***************************************************************************)
(* HBAR balances, block time and the call in progress, as the Solidity     *)
(* examples of src/contracts see them: what the contracts over them share. *)
(*                                                                         *)
(* A transaction is atomic, and one that reverts is no step.  Of the       *)
(* payments the contracts make, transfer and send leave the receiver no    *)
(* gas to call anybody; a call does, so that it opens a frame (depth), in  *)
(* which programs may call any contract again before it returns.           *)
(***************************************************************************)
EXTENDS Integers

CONSTANTS Accounts,   \* that call the contracts
          Programs,   \* those of them that are contracts with code of their own
          NoOne,      \* address(0)
          MaxTime, MaxDepth, MaxDonated

Contracts == {"WHBAR", "SimpleAuction", "BlindAuction", "Purchase", "PaymentChannel",
              "Ballot"}

ASSUME LedgerAssumption ==
  /\ Programs \subseteq Accounts /\ Accounts \cap Contracts = {} /\ NoOne \notin Accounts
  /\ MaxTime \in Nat /\ MaxDepth \in Nat /\ MaxDonated \in Nat

VARIABLES
  hbar,    \* the balance of every account and contract
  stake,   \* history: what an account paid a contract, less what it got
  now,     \* block.timestamp
  depth,   \* frames open
  donated, \* HBAR that contracts got without being called
  sender   \* history: msg.sender of the last call

ledger == <<hbar, stake, now, depth, donated, sender>>
chain == <<now, depth, donated>>

\* Mutant: both balances are read before either is written.
MovedCached(h, from, to, v) == [h EXCEPT ![from] = h[from] - v, ![to] = h[to] + v]

Moved(h, from, to, v) == [h EXCEPT ![from] = @ - v, ![to] = @ + v]

\* A call with value v, and one that is paid v.
TakeIn(c, s, v) ==
  /\ v <= hbar[s]
  /\ hbar' = Moved(hbar, s, c, v)
  /\ stake' = [stake EXCEPT ![c][s] = @ + v]

PayOut(c, s, v) ==
  /\ v <= hbar[c]
  /\ hbar' = Moved(hbar, c, s, v)
  /\ stake' = [stake EXCEPT ![c][s] = @ - v]

NoPayment == UNCHANGED <<hbar, stake>>

\* In a frame it is a program that calls.
CalledBy(s) == /\ depth > 0 => s \in Programs
               /\ sender' = s

\* HBAR reaches a contract without a call, by a transfer of the network.
Donate(a, c) ==
  /\ depth = 0 /\ donated < MaxDonated /\ hbar[a] > 0
  /\ hbar' = Moved(hbar, a, c, 1) /\ donated' = donated + 1
  /\ UNCHANGED <<stake, now, depth, sender>>

\* Time passes between transactions.
Tick ==
  /\ depth = 0 /\ now < MaxTime
  /\ now' = now + 1
  /\ UNCHANGED <<hbar, stake, depth, donated, sender>>

LedgerTypeOK ==
  /\ hbar \in [Accounts \cup Contracts -> Nat]
  /\ stake \in [Contracts -> [Accounts -> Int]]
  /\ now \in 0 .. MaxTime /\ depth \in 0 .. MaxDepth /\ donated \in 0 .. MaxDonated
  /\ sender \in Accounts
=============================================================================

------------------------------- MODULE Ballot -------------------------------
(* src/contracts/solidity/voting/Ballot.sol *)
EXTENDS HbarLedger, FiniteSets

CONSTANT Proposals   \* their indices

ASSUME BallotAssumption == IsFiniteSet(Accounts) /\ Proposals \subseteq Nat

VARIABLE ballot

NoBallot == [exists |-> FALSE]

Voter == [weight : Nat, voted : BOOLEAN, delegate : Accounts \cup {NoOne}, vote : Nat]

BallotType ==
  [exists : {TRUE}, chairperson : Accounts, voters : [Accounts -> Voter],
   voteCount : [Proposals -> Nat]]

Ballot_constructor(s) ==
  /\ ~ballot.exists /\ CalledBy(s)
  /\ ballot' = [exists |-> TRUE, chairperson |-> s, voteCount |-> [p \in Proposals |-> 0],
                voters |-> [a \in Accounts |->
                              [weight |-> IF a = s THEN 1 ELSE 0, voted |-> FALSE,
                               delegate |-> NoOne, vote |-> 0]]]
  /\ NoPayment /\ UNCHANGED chain

Ballot_giveRightToVote(s, voter) ==
  /\ ballot.exists /\ CalledBy(s)
  /\ s = ballot.chairperson
  /\ ~ballot.voters[voter].voted /\ ballot.voters[voter].weight = 0
  /\ ballot' = [ballot EXCEPT !.voters[voter].weight = 1]
  /\ NoPayment /\ UNCHANGED chain

\* Where n turns of delegate's loop lead from "to".
Hop(to) ==
  LET hop[n \in 0 .. Cardinality(Accounts)] ==
        IF n = 0 THEN to
        ELSE LET d == ballot.voters[hop[n - 1]].delegate
             IN IF d = NoOne THEN hop[n - 1] ELSE d
  IN hop

EndOf(to) == Hop(to)[Cardinality(Accounts)]

NoLoop(s, to) == \A n \in DOMAIN Hop(to) : Hop(to)[n] # s

\* Mutant: a vote that is delegated late counts once, whatever its weight.
CountsOne(s) == 1
CountsFor(s) == ballot.voters[s].weight

Ballot_delegate(s, to) ==
  /\ ballot.exists /\ CalledBy(s)
  /\ ballot.voters[s].weight # 0 /\ ~ballot.voters[s].voted
  /\ NoLoop(s, to)
  /\ LET end     == EndOf(to)
         d       == ballot.voters[end]
         decided == [ballot EXCEPT !.voters[s].voted = TRUE, !.voters[s].delegate = end]
     IN /\ d.weight >= 1
        /\ ballot' = IF d.voted
                     THEN [decided EXCEPT !.voteCount[d.vote] = @ + CountsFor(s)]
                     ELSE [decided EXCEPT !.voters[end].weight = @ + CountsFor(s)]
  /\ NoPayment /\ UNCHANGED chain

Ballot_vote(s, proposal) ==
  /\ ballot.exists /\ CalledBy(s)
  /\ ballot.voters[s].weight # 0 /\ ~ballot.voters[s].voted
  /\ ballot' = [ballot EXCEPT !.voters[s].voted = TRUE, !.voters[s].vote = proposal,
                              !.voteCount[proposal] = @ + ballot.voters[s].weight]
  /\ NoPayment /\ UNCHANGED chain
=============================================================================

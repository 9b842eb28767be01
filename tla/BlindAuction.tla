---------------------------- MODULE BlindAuction ----------------------------
(***************************************************************************)
(* src/contracts/solidity/blind-auction/BlindAuction.sol                   *)
(*                                                                         *)
(* A blinded bid is what it hides, since a hash has one preimage: revealed *)
(* with anything else it stays as it is.  A bid that was revealed has the  *)
(* hash 0, which nothing reveals.                                          *)
(***************************************************************************)
EXTENDS HbarLedger, Sequences, FiniteSetsExt

CONSTANTS Revealed,   \* bytes32(0)
          MaxBids     \* of all accounts together

ASSUME BlindAssumption == MaxBids \in Nat

VARIABLE blind

NoBlind == [exists |-> FALSE]

Hidden == [value : Nat, fake : BOOLEAN]
Bids == [blindedBid : Hidden \cup {Revealed}, deposit : Nat]

BlindType ==
  [exists : {TRUE}, beneficiary : Accounts, biddingEnd : Nat, revealEnd : Nat,
   ended : BOOLEAN, bids : [Accounts -> Seq(Bids)],
   highestBidder : Accounts \cup {NoOne}, highestBid : Nat,
   pendingReturns : [Accounts -> Nat]]

BlindAuction_constructor(s, biddingTime, revealTime, beneficiary) ==
  /\ ~blind.exists /\ CalledBy(s)
  /\ blind' = [exists |-> TRUE, beneficiary |-> beneficiary, biddingEnd |-> now + biddingTime,
               revealEnd |-> now + biddingTime + revealTime, ended |-> FALSE,
               bids |-> [a \in Accounts |-> <<>>], highestBidder |-> NoOne,
               highestBid |-> 0, pendingReturns |-> [a \in Accounts |-> 0]]
  /\ NoPayment /\ UNCHANGED chain

BlindAuction_bid(s, hidden, value) ==
  /\ blind.exists /\ CalledBy(s)
  /\ now < blind.biddingEnd
  /\ MapThenSumSet(LAMBDA a : Len(blind.bids[a]), Accounts) < MaxBids
  /\ TakeIn("BlindAuction", s, value)
  /\ blind' = [blind EXCEPT !.bids[s] = Append(@, [blindedBid |-> hidden, deposit |-> value])]
  /\ UNCHANGED chain

\* The returns of b once its highest bid is outbid.
Refunded(b) ==
  IF b.highestBidder = NoOne THEN b.pendingReturns
  ELSE [b.pendingReturns EXCEPT ![b.highestBidder] = @ + b.highestBid]

\* b after placeBid(bidder, value).
placeBid(b, bidder, value) ==
  IF value <= b.highestBid THEN b
  ELSE [b EXCEPT !.pendingReturns = Refunded(b), !.highestBid = value, !.highestBidder = bidder]

\* Mutant: a revealed bid keeps its hash.
AfterRevealKept(b, s, i) ==
  LET bidToCheck == b.bids[s][i]
      hidden     == bidToCheck.blindedBid
  IN IF hidden.fake \/ bidToCheck.deposit < hidden.value THEN b
     ELSE placeBid(b, s, hidden.value)

\* b after bid i of s was revealed: the hash is cleared.
AfterReveal(b, s, i) ==
  LET bidToCheck == b.bids[s][i]
      hidden     == bidToCheck.blindedBid
      cleared    == [b EXCEPT !.bids[s][i].blindedBid = Revealed]
  IN IF hidden.fake \/ bidToCheck.deposit < hidden.value THEN cleared
     ELSE placeBid(cleared, s, hidden.value)

\* Turn i of reveal's loop, after the turns before it led to last: the contract,
\* and refund.  s reveals those of its bids whose places are in right, and gives
\* something else for the rest.
Turn(last, s, i, right) ==
  LET b    == last.b
      next == AfterReveal(b, s, i)
      bidToCheck == b.bids[s][i]
  IN IF i \notin right \/ bidToCheck.blindedBid = Revealed THEN last
     ELSE [b |-> next,
           refund |-> last.refund + bidToCheck.deposit
             - IF next.highestBid # b.highestBid THEN next.highestBid ELSE 0]

RevealLoop(s, right) ==
  LET turn[i \in 0 .. Len(blind.bids[s])] ==
        IF i = 0 THEN [b |-> blind, refund |-> 0] ELSE Turn(turn[i - 1], s, i, right)
  IN turn[Len(blind.bids[s])]

BlindAuction_reveal(s, right) ==
  /\ blind.exists /\ CalledBy(s)
  /\ blind.biddingEnd < now /\ now < blind.revealEnd
  /\ LET end == RevealLoop(s, right)
     IN /\ blind' = [blind EXCEPT !.bids = end.b.bids, !.highestBid = end.b.highestBid,
                                  !.highestBidder = end.b.highestBidder,
                                  !.pendingReturns = end.b.pendingReturns]
        /\ PayOut("BlindAuction", s, end.refund)
  /\ UNCHANGED chain

BlindAuction_withdraw(s) ==
  /\ blind.exists /\ CalledBy(s)
  /\ blind.pendingReturns[s] > 0
  /\ PayOut("BlindAuction", s, blind.pendingReturns[s])
  /\ blind' = [blind EXCEPT !.pendingReturns[s] = 0]
  /\ UNCHANGED chain

BlindAuction_auctionEnd(s) ==
  /\ blind.exists /\ CalledBy(s)
  /\ blind.revealEnd < now /\ ~blind.ended
  /\ PayOut("BlindAuction", blind.beneficiary, blind.highestBid)
  /\ blind' = [blind EXCEPT !.ended = TRUE]
  /\ UNCHANGED chain
=============================================================================

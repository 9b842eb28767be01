--------------------------- MODULE SimpleAuction ---------------------------
(* src/contracts/solidity/simple-auction/SimpleAuction.sol *)
EXTENDS HbarLedger

VARIABLE auction

NoAuction == [exists |-> FALSE]

AuctionType ==
  [exists : {TRUE}, beneficiary : Accounts, auctionEndTime : Nat,
   highestBidder : Accounts \cup {NoOne}, highestBid : Nat,
   pendingReturns : [Accounts -> Nat], ended : BOOLEAN]

SimpleAuction_constructor(s, biddingTime, beneficiary) ==
  /\ ~auction.exists /\ CalledBy(s)
  /\ auction' = [exists |-> TRUE, beneficiary |-> beneficiary,
                 auctionEndTime |-> now + biddingTime, highestBidder |-> NoOne,
                 highestBid |-> 0, pendingReturns |-> [a \in Accounts |-> 0],
                 ended |-> FALSE]
  /\ NoPayment /\ UNCHANGED chain

\* Mutant: a second bid that is outbid replaces what the first one left.
OutbidLast == [auction.pendingReturns EXCEPT ![auction.highestBidder] = auction.highestBid]

\* The pending returns once the highest bidder is outbid.
Outbid ==
  IF auction.highestBid = 0 THEN auction.pendingReturns
  ELSE [auction.pendingReturns EXCEPT ![auction.highestBidder] = @ + auction.highestBid]

\* Accepted up to the very second at which auctionEnd is.
SimpleAuction_bid(s, value) ==
  /\ auction.exists /\ CalledBy(s)
  /\ now <= auction.auctionEndTime
  /\ auction.highestBid < value
  /\ TakeIn("SimpleAuction", s, value)
  /\ auction' = [auction EXCEPT !.pendingReturns = Outbid, !.highestBidder = s,
                                !.highestBid = value]
  /\ UNCHANGED chain

\* If the payment fails, the return stays pending.
SimpleAuction_withdraw(s) ==
  /\ auction.exists /\ CalledBy(s)
  /\ auction.pendingReturns[s] > 0
  /\ PayOut("SimpleAuction", s, auction.pendingReturns[s])
  /\ auction' = [auction EXCEPT !.pendingReturns[s] = 0]
  /\ UNCHANGED chain

SimpleAuction_auctionEnd(s) ==
  /\ auction.exists /\ CalledBy(s)
  /\ auction.auctionEndTime <= now /\ ~auction.ended
  /\ PayOut("SimpleAuction", auction.beneficiary, auction.highestBid)
  /\ auction' = [auction EXCEPT !.ended = TRUE]
  /\ UNCHANGED chain
=============================================================================

------------------------ MODULE HbarContracts_proofs ------------------------
(***************************************************************************)
(* What WHBAR, the auctions, the purchase, the payment channel and the     *)
(* ballot promise, for all accounts, funds, times and depths of            *)
(* re-entrance.                                                            *)
(***************************************************************************)
EXTENDS HbarContracts, DataLemmas

\* WHBAR without a lower bound on its supply: that follows from the sum of the
\* balances.
WhbarShape ==
  [exists : {TRUE}, balanceOf : [Accounts -> Nat], whbarTotalSupply : Int,
   allowance : [Accounts -> [Accounts -> Nat \cup {Unlimited}]]]

Shape ==
  /\ DOMAIN hbar = Accounts \cup Contracts /\ DOMAIN stake = Contracts
  /\ \A c \in Contracts : DOMAIN stake[c] = Accounts
  /\ now \in Nat /\ donated \in Nat /\ deployable \subseteq Contracts

\* The books of the ledger for a contract are numbers.
Numbers(c) == hbar[c] \in Nat /\ \A a \in Accounts : stake[c][a] \in Int

WhbarInv ==
  /\ whbar \in {NoWhbar} \cup WhbarShape
  /\ Numbers("WHBAR") /\ WhbarBacked /\ WhbarSupplyHeld

AuctionInv ==
  /\ auction \in {NoAuction} \cup AuctionType
  /\ Numbers("SimpleAuction") /\ BidsReturnable
  /\ ~auction.exists => \A a \in Accounts : stake["SimpleAuction"][a] = 0
  /\ auction.exists => (auction.highestBid = 0 <=> auction.highestBidder = NoOne)

PurchaseInv ==
  /\ purchase \in {NoPurchase} \cup PurchaseType
  /\ Numbers("Purchase") /\ PurchaseSettles
  /\ ~purchase.exists => /\ \A a \in Accounts : stake["Purchase"][a] = 0
                         /\ hbar["Purchase"] <= donated
  /\ purchase.exists =>
       /\ purchase.state = "Created" =>
            /\ purchase.buyer = NoOne
            /\ stake["Purchase"][purchase.seller] <= hbar["Purchase"]
            /\ hbar["Purchase"] <= stake["Purchase"][purchase.seller] + donated
       /\ purchase.state \in {"Locked", "Release"} => purchase.buyer \in Accounts

ChannelInv ==
  /\ channel \in {NoChannel} \cup ChannelType
  /\ signed \subseteq Amounts /\ IsFiniteSet(signed)
  /\ Numbers("PaymentChannel") /\ ChannelPaysOnce
  /\ ~channel.exists => \A a \in Accounts : stake["PaymentChannel"][a] = 0
  /\ channel.exists /\ donated = 0 /\ channel.sender # channel.recipient =>
       stake["PaymentChannel"][channel.recipient] = 0 \/ hbar["PaymentChannel"] = 0

\* What an account has a claim to in the blind auction, if that is b.
Owed(b, a) ==
  Deposits(b.bids[a]) + b.pendingReturns[a] + (IF a = b.highestBidder THEN b.highestBid ELSE 0)

BlindInv ==
  /\ blind \in {NoBlind} \cup BlindType
  /\ Numbers("BlindAuction") /\ BlindBidsReturnable
  /\ ~blind.exists => \A a \in Accounts : stake["BlindAuction"][a] = 0
  /\ blind.exists /\ blind.ended => blind.revealEnd < now

\* end[a] is where the delegations of the voters lead from a, in dist[a] steps,
\* fewer than there are accounts.
Delegating(voters) == {a \in Accounts : voters[a].delegate # NoOne}

Leads(voters, end, dist) ==
  /\ end \in [Accounts -> Accounts] /\ dist \in [Accounts -> Nat]
  /\ \A a \in Accounts :
       LET d == voters[a].delegate
       IN /\ d = NoOne => end[a] = a /\ dist[a] = 0
          /\ d # NoOne => end[a] = end[d] /\ dist[a] = dist[d] + 1
          /\ voters[end[a]].delegate = NoOne
          /\ dist[a] <= Cardinality(Delegating(voters))

\* Those whose vote b casts, and those whose vote p has.
Voices(voters, end, b) == {a \in Accounts : voters[a].weight > 0 /\ end[a] = b}
Counted(voters, end, p) ==
  {a \in Accounts : voters[a].weight > 0 /\ voters[end[a]].voted /\ voters[end[a]].vote = p}

\* A vote is cast or delegated by those who have one, and is for a proposal.
Sound(voters) ==
  \A a \in Accounts :
    /\ voters[a].voted => voters[a].weight > 0
    /\ voters[a].delegate # NoOne => voters[a].voted
    /\ voters[a].voted /\ voters[a].delegate = NoOne => voters[a].vote \in Proposals

\* Who has not voted has the weight of all he votes for, and the counts are right.
Tallied(voters, counts, end) ==
  /\ \A b \in Accounts :
       ~voters[b].voted => voters[b].weight = Cardinality(Voices(voters, end, b))
  /\ \A p \in Proposals : counts[p] = Cardinality(Counted(voters, end, p))

BallotInv ==
  /\ ballot \in {NoBallot} \cup BallotType
  /\ ballot.exists =>
       /\ Sound(ballot.voters)
       /\ \E end, dist : /\ Leads(ballot.voters, end, dist)
                         /\ Tallied(ballot.voters, ballot.voteCount, end)

IInv ==
  Shape /\ WhbarInv /\ AuctionInv /\ BlindInv /\ PurchaseInv /\ ChannelInv /\ BallotInv

\* What is not deployed has no state.
LEMMA Absent ==
  /\ ~NoWhbar.exists /\ ~NoAuction.exists /\ ~NoBlind.exists /\ ~NoPurchase.exists
  /\ ~NoChannel.exists /\ ~NoBallot.exists
BY DEF NoWhbar, NoAuction, NoBlind, NoPurchase, NoChannel, NoBallot

LEMMA AuctionTyped ==
  ASSUME AuctionInv, auction.exists
  PROVE  /\ auction \in AuctionType
         /\ auction.beneficiary \in Accounts /\ auction.highestBid \in Nat
         /\ auction.highestBidder \in Accounts \cup {NoOne}
         /\ auction.pendingReturns \in [Accounts -> Nat]
<1>1. auction \in AuctionType
  BY Absent DEF AuctionInv
<1> QED BY <1>1 DEF AuctionType

LEMMA BlindTyped ==
  ASSUME BlindInv, blind.exists
  PROVE  /\ blind \in BlindType
         /\ blind.beneficiary \in Accounts /\ blind.highestBid \in Nat
         /\ blind.revealEnd \in Nat /\ blind.ended \in BOOLEAN
         /\ blind.highestBidder \in Accounts \cup {NoOne}
         /\ blind.pendingReturns \in [Accounts -> Nat] /\ blind.bids \in [Accounts -> Seq(Bids)]
<1>1. blind \in BlindType
  BY Absent DEF BlindInv
<1> QED BY <1>1 DEF BlindType

LEMMA PurchaseTyped ==
  ASSUME PurchaseInv, purchase.exists
  PROVE  /\ purchase \in PurchaseType
         /\ purchase.value \in Nat /\ purchase.seller \in Accounts
         /\ purchase.buyer \in Accounts \cup {NoOne}
<1>1. purchase \in PurchaseType
  BY Absent DEF PurchaseInv
<1> QED BY <1>1 DEF PurchaseType

LEMMA ChannelTyped ==
  ASSUME ChannelInv, channel.exists
  PROVE  /\ channel \in ChannelType
         /\ channel.sender \in Accounts /\ channel.recipient \in Accounts
         /\ channel.expiration \in Nat
<1>1. channel \in ChannelType
  BY Absent DEF ChannelInv
<1> QED BY <1>1 DEF ChannelType

----------------------------------------------------------------------------
(* Payments.                                                               *)

\* The books of c are as they were.
Kept(c) == hbar'[c] = hbar[c] /\ stake'[c] = stake[c]

ShapeKept == /\ DOMAIN hbar' = Accounts \cup Contracts /\ DOMAIN stake' = Contracts
             /\ \A d \in Contracts : DOMAIN stake'[d] = Accounts

\* c is paid v by s, v negative if s is paid; the books of the others are kept.
Booked(c, s, v) ==
  /\ ShapeKept
  /\ hbar'[c] = hbar[c] + v /\ stake'[c] = [stake[c] EXCEPT ![s] = @ + v]
  /\ \A d \in Contracts \ {c} : Kept(d)

LEMMA TakeInBooked ==
  ASSUME Shape, NEW c \in Contracts, NEW s \in Accounts, NEW v \in Nat, TakeIn(c, s, v)
  PROVE  Booked(c, s, v)
<1>1. c # s /\ \A d \in Contracts : d # s
  BY LedgerAssumption
<1>2. /\ DOMAIN hbar' = Accounts \cup Contracts /\ hbar'[c] = hbar[c] + v
      /\ \A d \in Contracts \ {c} : hbar'[d] = hbar[d]
  BY <1>1 DEF TakeIn, Moved, Shape
<1>3. /\ DOMAIN stake' = Contracts /\ stake'[c] = [stake[c] EXCEPT ![s] = @ + v]
      /\ \A d \in Contracts \ {c} : stake'[d] = stake[d]
      /\ \A d \in Contracts : DOMAIN stake'[d] = Accounts
  BY DEF TakeIn, Shape
<1> QED BY <1>2, <1>3 DEF Booked, Kept, ShapeKept

LEMMA PayOutBooked ==
  ASSUME Shape, NEW c \in Contracts, NEW s \in Accounts, NEW v, PayOut(c, s, v)
  PROVE  /\ ShapeKept /\ v <= hbar[c]
         /\ hbar'[c] = hbar[c] - v /\ stake'[c] = [stake[c] EXCEPT ![s] = @ - v]
         /\ \A d \in Contracts \ {c} : Kept(d)
<1>1. c # s /\ \A d \in Contracts : d # s
  BY LedgerAssumption
<1>2. /\ DOMAIN hbar' = Accounts \cup Contracts /\ hbar'[c] = hbar[c] - v
      /\ \A d \in Contracts \ {c} : hbar'[d] = hbar[d]
  BY <1>1 DEF PayOut, Moved, Shape
<1>3. /\ DOMAIN stake' = Contracts /\ stake'[c] = [stake[c] EXCEPT ![s] = @ - v]
      /\ \A d \in Contracts \ {c} : stake'[d] = stake[d]
      /\ \A d \in Contracts : DOMAIN stake'[d] = Accounts
  BY DEF PayOut, Shape
<1> QED BY <1>2, <1>3 DEF PayOut, Kept, ShapeKept

\* What a step leaves to contract c: its books, but for HBAR that is given, and
\* the time, which only passes.
Spared(c) ==
  /\ stake'[c] = stake[c] /\ now <= now'
  /\ \E n \in Nat : hbar'[c] = hbar[c] + n /\ donated + n <= donated'

\* A step about contract c: it spares all the others.
StepOf(c) ==
  /\ Shape' /\ now' = now /\ donated' = donated
  /\ \A d \in Contracts \ {c} : Kept(d)

LEMMA NoPaymentKept ==
  ASSUME Shape, NoPayment, NEW c
  PROVE  ShapeKept /\ Kept(c)
BY DEF Shape, NoPayment, ShapeKept, Kept

LEMMA StepSpares ==
  ASSUME Shape, NEW c, StepOf(c), NEW d \in Contracts \ {c}, hbar[d] \in Nat
  PROVE  Spared(d)
BY DEF Shape, StepOf, Spared, Kept

LEMMA WhbarStepBooks == Shape /\ WhbarStep => StepOf("WHBAR")
<1> SUFFICES ASSUME Shape, WhbarStep PROVE StepOf("WHBAR")
  OBVIOUS
<1>1. now' = now /\ donated' = donated /\ deployable' = deployable
  BY ZenonT(60) DEF WhbarStep, WHBAR_constructor, WHBAR_deposit, WHBAR_withdraw, WHBAR_withdrawReturns,
         WHBAR_approve, WHBAR_transferFrom, OpensFrame, chain
<1>2. "WHBAR" \in Contracts
  BY DEF Contracts
<1>3. \/ NoPayment
      \/ \E s \in Accounts, v \in Values : TakeIn("WHBAR", s, v)
      \/ \E s \in Accounts, v \in Values : PayOut("WHBAR", s, v)
  BY DEF WhbarStep, WHBAR_constructor, WHBAR_deposit, WHBAR_withdraw, WHBAR_withdrawReturns,
         WHBAR_approve, WHBAR_transferFrom
<1>4. Values \subseteq Nat
  BY ContractsAssumption DEF Values
<1>5. ShapeKept /\ \A d \in Contracts \ {"WHBAR"} : Kept(d)
  BY <1>2, <1>3, <1>4, NoPaymentKept, TakeInBooked, PayOutBooked DEF Booked
<1> QED BY <1>1, <1>5 DEF StepOf, Shape, ShapeKept

LEMMA AuctionStepBooks == Shape /\ AuctionInv /\ SimpleAuctionStep => StepOf("SimpleAuction")
<1> SUFFICES ASSUME Shape, AuctionInv, SimpleAuctionStep PROVE StepOf("SimpleAuction")
  OBVIOUS
<1>1. now' = now /\ donated' = donated /\ deployable' = deployable
  BY DEF SimpleAuctionStep, SimpleAuction_constructor, SimpleAuction_bid,
         SimpleAuction_withdraw, SimpleAuction_auctionEnd, chain
<1>2. "SimpleAuction" \in Contracts
  BY DEF Contracts
<1>3. auction.exists => auction.beneficiary \in Accounts
  BY AuctionTyped
<1>4. \/ NoPayment
      \/ \E s \in Accounts, v \in Values : TakeIn("SimpleAuction", s, v)
      \/ \E s \in Accounts : \E v : PayOut("SimpleAuction", s, v)
  <2>1. PICK s \in Accounts :
          \/ \E b \in Accounts : SimpleAuction_constructor(s, BiddingTime, b)
          \/ \E v \in Values : SimpleAuction_bid(s, v)
          \/ SimpleAuction_withdraw(s)
          \/ SimpleAuction_auctionEnd(s)
    BY DEF SimpleAuctionStep
  <2> QED
    BY <1>3, <2>1 DEF SimpleAuction_constructor, SimpleAuction_bid,
         SimpleAuction_withdraw, SimpleAuction_auctionEnd
<1>5. Values \subseteq Nat
  BY ContractsAssumption DEF Values
<1>6. ShapeKept /\ \A d \in Contracts \ {"SimpleAuction"} : Kept(d)
  BY <1>2, <1>4, <1>5, NoPaymentKept, TakeInBooked, PayOutBooked DEF Booked
<1> QED BY <1>1, <1>6 DEF StepOf, Shape, ShapeKept

LEMMA BlindStepBooks == Shape /\ BlindInv /\ BlindAuctionStep => StepOf("BlindAuction")
<1> SUFFICES ASSUME Shape, BlindInv, BlindAuctionStep
             PROVE  StepOf("BlindAuction")
  OBVIOUS
<1>1. now' = now /\ donated' = donated /\ deployable' = deployable
  BY DEF BlindAuctionStep, BlindAuction_constructor, BlindAuction_bid, BlindAuction_reveal,
         BlindAuction_withdraw, BlindAuction_auctionEnd, chain
<1>2. "BlindAuction" \in Contracts
  BY DEF Contracts
<1>3. PICK s \in Accounts :
        \/ \E b \in Accounts : BlindAuction_constructor(s, BiddingTime, RevealTime, b)
        \/ \E hidden \in Offers, v \in Deposited : BlindAuction_bid(s, hidden, v)
        \/ \E right \in SUBSET (1 .. MaxBids) : BlindAuction_reveal(s, right)
        \/ BlindAuction_withdraw(s)
        \/ BlindAuction_auctionEnd(s)
  BY DEF BlindAuctionStep
<1>4. \/ NoPayment
      \/ \E v \in Deposited : TakeIn("BlindAuction", s, v)
      \/ \E a \in Accounts : \E v : PayOut("BlindAuction", a, v)
  BY <1>3, BlindTyped DEF BlindAuction_constructor, BlindAuction_bid, BlindAuction_reveal,
              BlindAuction_withdraw, BlindAuction_auctionEnd
<1>5. Deposited \subseteq Nat
  BY ContractsAssumption DEF Values, Deposited
<1>6. ShapeKept /\ \A d \in Contracts \ {"BlindAuction"} : Kept(d)
  BY <1>2, <1>4, <1>5, NoPaymentKept, TakeInBooked, PayOutBooked DEF Booked
<1> QED BY <1>1, <1>6 DEF StepOf, Shape, ShapeKept

LEMMA PurchaseStepBooks == Shape /\ PurchaseInv /\ PurchaseStep => StepOf("Purchase")
<1> SUFFICES ASSUME Shape, PurchaseInv, PurchaseStep PROVE StepOf("Purchase")
  OBVIOUS
<1>1. now' = now /\ donated' = donated /\ deployable' = deployable
  BY DEF PurchaseStep, Purchase_constructor, Purchase_abort, Purchase_confirmPurchase,
         Purchase_confirmReceived, Purchase_refundSeller, chain
<1>2. "Purchase" \in Contracts
  BY DEF Contracts
<1>3. purchase.exists => 2 * purchase.value \in Nat
  <2>1. purchase.exists => purchase.value \in Nat
    BY PurchaseTyped
  <2> QED BY <2>1
<1>4. PICK s \in Accounts :
        \/ \E v \in Values : Purchase_constructor(s, v)
        \/ Purchase_abort(s)
        \/ Purchase_confirmPurchase(s)
        \/ Purchase_confirmReceived(s)
        \/ Purchase_refundSeller(s)
  BY DEF PurchaseStep
<1>5. \/ \E v \in Nat : TakeIn("Purchase", s, v)
      \/ \E v : PayOut("Purchase", s, v)
  <2>1. Values \subseteq Nat
    BY ContractsAssumption DEF Values
  <2> QED BY <1>3, <1>4, <2>1
        DEF Purchase_constructor, Purchase_abort, Purchase_confirmPurchase,
            Purchase_confirmReceived, Purchase_refundSeller
<1>6. ShapeKept /\ \A d \in Contracts \ {"Purchase"} : Kept(d)
  BY <1>2, <1>5, TakeInBooked, PayOutBooked DEF Booked
<1> QED BY <1>1, <1>6 DEF StepOf, Shape, ShapeKept

\* What close does to the books.
LEMMA CloseBooked ==
  ASSUME Shape, ChannelInv, NEW s, NEW amount \in Amounts, PaymentChannel_close(s, amount)
  PROVE  /\ ShapeKept /\ hbar'["PaymentChannel"] = 0
         /\ \A a \in Accounts : stake'["PaymentChannel"][a] \in Int
         /\ channel.sender # channel.recipient =>
              stake'["PaymentChannel"][channel.recipient]
                = stake["PaymentChannel"][channel.recipient] - amount
         /\ \A d \in Contracts \ {"PaymentChannel"} : Kept(d)
<1> DEFINE c == "PaymentChannel"
           r == channel.recipient
           t == channel.sender
           rest == hbar[c] - amount
<1>1. r \in Accounts /\ t \in Accounts
  BY ChannelTyped DEF PaymentChannel_close
<1>2. c \in Contracts /\ r # c /\ t # c /\ \A d \in Contracts : r # d /\ t # d
  BY <1>1, LedgerAssumption DEF Contracts
<1>3. amount \in Int /\ hbar[c] \in Int /\ rest \in Int /\ hbar[c] - amount - rest = 0
  <2>1. amount \in Int
    BY ChannelAssumption
  <2>2. hbar[c] \in Int
    BY DEF ChannelInv, Numbers
  <2> QED BY <2>1, <2>2
<1>4. /\ hbar' = Moved(Moved(hbar, c, r, amount), c, t, rest)
      /\ stake' = [stake EXCEPT ![c][r] = @ - amount, ![c][t] = @ - rest]
  BY DEF PaymentChannel_close
<1>5. /\ DOMAIN hbar' = Accounts \cup Contracts /\ hbar'[c] = hbar[c] - amount - rest
      /\ \A d \in Contracts \ {c} : hbar'[d] = hbar[d]
  <2> DEFINE h == Moved(hbar, c, r, amount)
  <2>1. /\ DOMAIN h = Accounts \cup Contracts /\ h[c] = hbar[c] - amount
        /\ \A d \in Contracts \ {c} : h[d] = hbar[d]
    BY <1>2 DEF Moved, Shape
  <2>2. hbar' = Moved(h, c, t, rest)
    BY <1>4
  <2> HIDE DEF h, rest
  <2> QED BY <1>2, <2>1, <2>2 DEF Moved
<1>6. /\ DOMAIN stake' = Contracts
      /\ \A d \in Contracts : DOMAIN stake'[d] = Accounts
      /\ \A d \in Contracts \ {c} : stake'[d] = stake[d]
  BY <1>4 DEF Shape
<1>7. /\ \A a \in Accounts : stake'[c][a] \in Int
      /\ t # r => stake'[c][r] = stake[c][r] - amount
  <2>1. stake'[c] = [stake[c] EXCEPT ![r] = @ - amount, ![t] = @ - rest]
    BY <1>2, <1>4 DEF Shape
  <2>2. \A a \in Accounts : stake[c][a] \in Int
    BY DEF ChannelInv, Numbers
  <2>3. DOMAIN stake[c] = Accounts
    BY <1>2 DEF Shape
  <2> HIDE DEF rest
  <2> QED BY <1>1, <1>3, <2>1, <2>2, <2>3
<1> QED BY <1>3, <1>5, <1>6, <1>7 DEF ShapeKept, Kept

LEMMA ChannelStepBooks == Shape /\ ChannelInv /\ PaymentChannelStep => StepOf("PaymentChannel")
<1> SUFFICES ASSUME Shape, ChannelInv, PaymentChannelStep PROVE StepOf("PaymentChannel")
  OBVIOUS
<1>1. now' = now /\ donated' = donated /\ deployable' = deployable
  BY DEF PaymentChannelStep, PaymentChannel_constructor, PaymentChannel_close,
         PaymentChannel_extend, PaymentChannel_claimTimeout, Sign, chain, ledger
<1>2. "PaymentChannel" \in Contracts
  BY DEF Contracts
<1>3. Values \subseteq Nat
  BY ContractsAssumption DEF Values
<1>4. channel.exists => channel.sender \in Accounts
  BY ChannelTyped
<1>5. \/ NoPayment
      \/ \E s \in Accounts, v \in Values : TakeIn("PaymentChannel", s, v)
      \/ \E s \in Accounts : \E v : PayOut("PaymentChannel", s, v)
      \/ \E s \in Accounts, v \in Amounts : PaymentChannel_close(s, v)
  BY <1>4 DEF PaymentChannelStep, PaymentChannel_constructor, PaymentChannel_extend,
              PaymentChannel_claimTimeout, Sign, ledger, NoPayment
<1>6. ShapeKept /\ \A d \in Contracts \ {"PaymentChannel"} : Kept(d)
  BY <1>2, <1>3, <1>5, NoPaymentKept, TakeInBooked, PayOutBooked, CloseBooked DEF Booked
<1> QED BY <1>1, <1>6 DEF StepOf, Shape, ShapeKept

LEMMA BallotStepBooks == Shape /\ BallotStep => StepOf("Ballot")
<1> SUFFICES ASSUME Shape, BallotStep PROVE StepOf("Ballot")
  OBVIOUS
<1>1. now' = now /\ donated' = donated /\ deployable' = deployable /\ NoPayment
  BY ZenonT(60) DEF BallotStep, Ballot_constructor, Ballot_giveRightToVote, Ballot_delegate,
         Ballot_vote, chain
<1> QED BY <1>1, NoPaymentKept DEF StepOf, Shape, ShapeKept

\* What the network does spares every contract.
LEMMA NetworkStepBooks ==
  ASSUME Shape, NetworkStep
  PROVE  Shape' /\ \A c \in Contracts : hbar[c] \in Nat => Spared(c)
<1>1. CASE Tick
  BY <1>1 DEF NetworkStep, Tick, Shape, Spared
<1>2. CASE \E a \in Accounts, c \in deployable : Donate(a, c)
  <2>1. PICK a \in Accounts, c \in deployable : Donate(a, c)
    BY <1>2
  <2>2. c \in Contracts /\ \A d \in Contracts : d # a
    BY LedgerAssumption DEF Shape
  <2>3. \A d \in Contracts : hbar'[d] = IF d = c THEN hbar[d] + 1 ELSE hbar[d]
    BY <2>1, <2>2 DEF Donate, Moved, Shape
  <2>4. donated' = donated + 1 /\ stake' = stake /\ now' = now /\ deployable' = deployable
        /\ DOMAIN hbar' = Accounts \cup Contracts
    BY <2>1 DEF Donate, Moved, Shape, NetworkStep
  <2>5. Shape'
    BY <2>4 DEF Shape
  <2>6. ASSUME NEW d \in Contracts, hbar[d] \in Nat PROVE Spared(d)
    <3>1. hbar'[d] = hbar[d] + 1 \/ hbar'[d] = hbar[d] + 0
      BY <2>3, <2>6
    <3>2. donated + 1 <= donated' /\ donated + 0 <= donated'
      BY <2>4 DEF Shape
    <3>3. now <= now'
      BY <2>4 DEF Shape
    <3> QED BY <2>4, <3>1, <3>2, <3>3 DEF Spared
  <2> QED BY <2>5, <2>6
<1> QED BY <1>1, <1>2 DEF NetworkStep

----------------------------------------------------------------------------
(* A step that spares a contract and leaves its state alone keeps its      *)
(* invariant.                                                              *)

LEMMA NumbersSpared ==
  ASSUME NEW c, Numbers(c), Spared(c)
  PROVE  Numbers(c)' /\ hbar[c] <= hbar'[c]
BY DEF Numbers, Spared

LEMMA WhbarSpared ==
  ASSUME WhbarInv, Spared("WHBAR"), whbar' = whbar
  PROVE  WhbarInv'
<1>1. Numbers("WHBAR")' /\ hbar["WHBAR"] <= hbar'["WHBAR"] /\ hbar["WHBAR"] \in Nat
  BY NumbersSpared DEF WhbarInv, Numbers
<1>2. whbar.exists => whbar.whbarTotalSupply \in Int
  <2>1. whbar.exists => whbar \in WhbarShape
    BY Absent DEF WhbarInv
  <2> QED BY <2>1 DEF WhbarShape
<1>3. hbar'["WHBAR"] \in Nat
  BY <1>1 DEF Numbers
<1> QED BY <1>1, <1>2, <1>3 DEF WhbarInv, WhbarBacked, WhbarSupplyHeld

LEMMA AuctionSpared ==
  ASSUME AuctionInv, Spared("SimpleAuction"), auction' = auction
  PROVE  AuctionInv'
<1>1. Numbers("SimpleAuction")'
  BY NumbersSpared DEF AuctionInv
<1>2. stake'["SimpleAuction"] = stake["SimpleAuction"]
  BY DEF Spared
<1> QED BY <1>1, <1>2 DEF AuctionInv, BidsReturnable

LEMMA PurchaseSpared ==
  ASSUME Shape, Shape', PurchaseInv, Spared("Purchase"), purchase' = purchase
  PROVE  PurchaseInv'
<1>1. Numbers("Purchase")' /\ stake'["Purchase"] = stake["Purchase"]
  BY NumbersSpared DEF PurchaseInv, Spared
<1>2. donated \in Nat /\ donated' \in Nat /\ hbar["Purchase"] \in Nat
  BY DEF Shape, PurchaseInv, Numbers
<1>3. PICK n \in Nat : hbar'["Purchase"] = hbar["Purchase"] + n /\ donated + n <= donated'
  BY DEF Spared
<1>4. donated <= donated'
  BY <1>2, <1>3
<1>5. 0 .. donated \subseteq 0 .. donated'
  BY <1>2, <1>4
<1>6. PurchaseSettles'
  <2>1. \A sellers, buyers : HavePaid(sellers, buyers) => HavePaid(sellers, buyers)'
    BY <1>1 DEF HavePaid
  <2>2. PurchaseSettles
    BY DEF PurchaseInv
  <2> QED BY <1>5, <2>1, <2>2 DEF PurchaseSettles
<1>7. ~purchase.exists => hbar'["Purchase"] <= donated'
  BY <1>2, <1>3 DEF PurchaseInv
<1>8. ASSUME purchase.exists, purchase.state = "Created"
      PROVE  /\ stake["Purchase"][purchase.seller] <= hbar'["Purchase"]
             /\ hbar'["Purchase"] <= stake["Purchase"][purchase.seller] + donated'
  <2>1. stake["Purchase"][purchase.seller] \in Int
    BY <1>8, PurchaseTyped DEF PurchaseInv, Numbers
  <2> QED BY <1>2, <1>3, <1>8, <2>1 DEF PurchaseInv
<1> QED BY <1>1, <1>6, <1>7, <1>8 DEF PurchaseInv

LEMMA ChannelSpared ==
  ASSUME Shape, Shape', ChannelInv, Spared("PaymentChannel"), channel' = channel, signed' = signed
  PROVE  ChannelInv'
<1>1. Numbers("PaymentChannel")' /\ stake'["PaymentChannel"] = stake["PaymentChannel"]
  BY NumbersSpared DEF ChannelInv, Spared
<1>2. donated' = 0 => donated = 0 /\ hbar'["PaymentChannel"] = hbar["PaymentChannel"]
  <2>1. donated \in Nat /\ donated' \in Nat /\ hbar["PaymentChannel"] \in Nat
    BY DEF Shape, ChannelInv, Numbers
  <2> QED BY <2>1 DEF Spared
<1> QED BY <1>1, <1>2 DEF ChannelInv, ChannelPaysOnce

----------------------------------------------------------------------------
(* WHBAR.                                                                  *)

LEMMA WhbarTyped ==
  ASSUME WhbarInv, whbar.exists
  PROVE  /\ whbar \in WhbarShape /\ whbar.whbarTotalSupply \in Int
         /\ whbar.balanceOf \in [Accounts -> Nat]
         /\ \A a \in Accounts : whbar.balanceOf[a] \in Nat
         /\ whbar.whbarTotalSupply <= hbar["WHBAR"] /\ hbar["WHBAR"] \in Nat
<1>1. whbar \in WhbarShape
  BY Absent DEF WhbarInv
<1> QED BY <1>1 DEF WhbarShape, WhbarInv, WhbarBacked, Numbers

LEMMA TakeInNumbers ==
  ASSUME Shape, NEW c \in Contracts, Numbers(c), NEW s \in Accounts, NEW v \in Nat,
         TakeIn(c, s, v)
  PROVE  Numbers(c)' /\ hbar'[c] = hbar[c] + v
<1>1. hbar'[c] = hbar[c] + v /\ stake'[c] = [stake[c] EXCEPT ![s] = @ + v]
  BY TakeInBooked DEF Booked
<1>2. DOMAIN stake[c] = Accounts
  BY DEF Shape
<1> QED BY <1>1, <1>2 DEF Numbers

LEMMA PayOutNumbers ==
  ASSUME Shape, NEW c \in Contracts, Numbers(c), NEW s \in Accounts, NEW v \in Int,
         PayOut(c, s, v)
  PROVE  Numbers(c)' /\ hbar'[c] = hbar[c] - v /\ v <= hbar[c]
<1>1. hbar'[c] = hbar[c] - v /\ v <= hbar[c] /\ stake'[c] = [stake[c] EXCEPT ![s] = @ - v]
  BY PayOutBooked
<1>2. DOMAIN stake[c] = Accounts
  BY DEF Shape
<1> QED BY <1>1, <1>2 DEF Numbers

\* The supply changes by as much as one balance.
LEMMA SupplyChanged ==
  ASSUME WhbarInv, whbar.exists, NEW s \in Accounts, NEW v \in Nat,
         whbar' \in WhbarShape,
         \/ /\ whbar'.balanceOf = [whbar.balanceOf EXCEPT ![s] = @ + v]
            /\ whbar'.whbarTotalSupply = whbar.whbarTotalSupply + v
         \/ /\ whbar'.balanceOf = [whbar.balanceOf EXCEPT ![s] = @ - v]
            /\ whbar'.whbarTotalSupply = whbar.whbarTotalSupply - v
  PROVE  WhbarSupplyHeld'
<1> DEFINE f == whbar.balanceOf
           h == whbar'.balanceOf
<1>1. f \in [Accounts -> Int] /\ h \in [Accounts -> Int] /\ IsFiniteSet(Accounts)
  BY WhbarTyped, BallotAssumption DEF WhbarShape
<1>2. \A x \in Accounts \ {s} : h[x] = f[x]
  BY <1>1
<1>3. \/ h[s] = f[s] + v /\ whbar'.whbarTotalSupply = whbar.whbarTotalSupply + v
      \/ h[s] = f[s] - v /\ whbar'.whbarTotalSupply = whbar.whbarTotalSupply - v
  BY <1>1
<1>4. f[s] \in Int /\ whbar.whbarTotalSupply = SumFunction(f)
  BY <1>1 DEF WhbarInv, WhbarSupplyHeld
<1> HIDE DEF f, h
<1>5. SumFunction(f) \in Int /\ SumFunction(h) = SumFunction(f) + h[s] - f[s]
  BY <1>1, <1>2, SumSplit
<1>6. whbar'.whbarTotalSupply = SumFunction(h)
  BY <1>3, <1>4, <1>5
<1> QED BY <1>6 DEF WhbarSupplyHeld, h

LEMMA WhbarStepKeeps == Shape /\ WhbarInv /\ WhbarStep => WhbarInv'
<1> SUFFICES ASSUME Shape, WhbarInv, WhbarStep PROVE WhbarInv'
  OBVIOUS
<1>1. "WHBAR" \in Contracts /\ Values \subseteq Nat /\ Numbers("WHBAR")
  BY ContractsAssumption DEF Contracts, Values, WhbarInv
<1>2. ASSUME NEW s \in Accounts, WHBAR_constructor(s)
      PROVE  WhbarInv'
  <2>1. whbar' \in WhbarShape /\ whbar'.whbarTotalSupply = 0
    BY <1>2 DEF WHBAR_constructor, WhbarShape
  <2>2. hbar' = hbar /\ stake' = stake
    BY <1>2 DEF WHBAR_constructor, NoPayment
  <2>3. SumFunction(whbar'.balanceOf) = 0
    BY <1>2, SumOfZeros, BallotAssumption DEF WHBAR_constructor
  <2> QED BY <1>1, <2>1, <2>2, <2>3 DEF WhbarInv, WhbarBacked, WhbarSupplyHeld, Numbers
<1>3. ASSUME NEW s \in Accounts, NEW v \in Values, WHBAR_deposit(s, v)
      PROVE  WhbarInv'
  <2>1. whbar.exists /\ TakeIn("WHBAR", s, v)
    BY <1>3 DEF WHBAR_deposit
  <2>2. Numbers("WHBAR")' /\ hbar'["WHBAR"] = hbar["WHBAR"] + v
    BY <1>1, <2>1, TakeInNumbers
  <2>3. whbar' = [whbar EXCEPT !.balanceOf[s] = @ + v, !.whbarTotalSupply = @ + v]
    BY <1>3 DEF WHBAR_deposit
  <2>4. /\ whbar' \in WhbarShape /\ whbar'.whbarTotalSupply = whbar.whbarTotalSupply + v
        /\ whbar'.balanceOf = [whbar.balanceOf EXCEPT ![s] = @ + v]
    <3> DEFINE balance == [whbar.balanceOf EXCEPT ![s] = @ + v]
               supply  == whbar.whbarTotalSupply + v
    <3>1. balance \in [Accounts -> Nat] /\ supply \in Int
      BY <1>1, <2>1, WhbarTyped
    <3>2. whbar' = [whbar EXCEPT !.balanceOf = balance, !.whbarTotalSupply = supply]
      BY <2>3
    <3> HIDE DEF balance, supply
    <3>3. whbar' \in WhbarShape
      BY <2>1, <3>1, <3>2, WhbarTyped DEF WhbarShape
    <3>4. whbar'.balanceOf = balance /\ whbar'.whbarTotalSupply = supply
      BY <2>1, <3>1, <3>2, WhbarTyped DEF WhbarShape
    <3> QED BY <3>3, <3>4 DEF balance, supply
  <2>5. WhbarSupplyHeld'
    BY <1>1, <2>1, <2>4, SupplyChanged
  <2> QED BY <1>1, <2>1, <2>2, <2>4, <2>5, WhbarTyped DEF WhbarInv, WhbarBacked
<1>4. ASSUME NEW s \in Accounts, NEW v \in Values, WHBAR_withdraw(s, v)
      PROVE  WhbarInv'
  <2>1. whbar.exists /\ PayOut("WHBAR", s, v) /\ v <= whbar.balanceOf[s]
    BY <1>4 DEF WHBAR_withdraw
  <2>2. Numbers("WHBAR")' /\ hbar'["WHBAR"] = hbar["WHBAR"] - v
    BY <1>1, <2>1, PayOutNumbers
  <2>3. whbar' = [whbar EXCEPT !.balanceOf[s] = @ - v, !.whbarTotalSupply = @ - v]
    BY <1>4 DEF WHBAR_withdraw
  <2>4. /\ whbar' \in WhbarShape /\ whbar'.whbarTotalSupply = whbar.whbarTotalSupply - v
        /\ whbar'.balanceOf = [whbar.balanceOf EXCEPT ![s] = @ - v]
    <3> DEFINE balance == [whbar.balanceOf EXCEPT ![s] = @ - v]
               supply  == whbar.whbarTotalSupply - v
    <3>1. balance \in [Accounts -> Nat] /\ supply \in Int
      BY <1>1, <2>1, WhbarTyped
    <3>2. whbar' = [whbar EXCEPT !.balanceOf = balance, !.whbarTotalSupply = supply]
      BY <2>3
    <3> HIDE DEF balance, supply
    <3>3. whbar' \in WhbarShape
      BY <2>1, <3>1, <3>2, WhbarTyped DEF WhbarShape
    <3>4. whbar'.balanceOf = balance /\ whbar'.whbarTotalSupply = supply
      BY <2>1, <3>1, <3>2, WhbarTyped DEF WhbarShape
    <3> QED BY <3>3, <3>4 DEF balance, supply
  <2>5. WhbarSupplyHeld'
    BY <1>1, <2>1, <2>4, SupplyChanged
  <2> QED BY <1>1, <2>1, <2>2, <2>4, <2>5, WhbarTyped DEF WhbarInv, WhbarBacked
<1>5. CASE WHBAR_withdrawReturns
  BY <1>5 DEF WHBAR_withdrawReturns, NoPayment, WhbarInv, WhbarBacked, WhbarSupplyHeld, Numbers
<1>6. ASSUME NEW s \in Accounts, NEW guy \in Programs, NEW v \in Approvals,
             WHBAR_approve(s, guy, v)
      PROVE  WhbarInv'
  <2>1. whbar.exists /\ whbar' = [whbar EXCEPT !.allowance[s][guy] = v]
        /\ hbar' = hbar /\ stake' = stake
    BY <1>6 DEF WHBAR_approve, NoPayment
  <2>2. guy \in Accounts /\ v \in Nat \cup {Unlimited}
    BY LedgerAssumption, WhbarAssumption
  <2>3. /\ whbar' \in WhbarShape /\ whbar'.whbarTotalSupply = whbar.whbarTotalSupply
        /\ whbar'.balanceOf = whbar.balanceOf
    BY <2>1, <2>2, WhbarTyped DEF WhbarShape
  <2> QED BY <1>1, <2>1, <2>3, WhbarTyped DEF WhbarInv, WhbarBacked, WhbarSupplyHeld, Numbers
<1>7. ASSUME NEW s \in Accounts, NEW src \in Accounts, NEW dst \in Accounts, NEW v \in Values,
             WHBAR_transferFrom(s, src, dst, v)
      PROVE  WhbarInv'
  <2>1. whbar.exists /\ v <= whbar.balanceOf[src] /\ hbar' = hbar /\ stake' = stake
        /\ MayTransfer(src, s, v)
    BY <1>7 DEF WHBAR_transferFrom, NoPayment
  <2> DEFINE after == Moved(whbar.balanceOf, src, dst, v)
             left  == AllowanceAfter(src, s, v)
  <2>2. whbar' = [whbar EXCEPT !.balanceOf = after, !.allowance[src][s] = left]
    BY <1>7 DEF WHBAR_transferFrom
  <2>3. after \in [Accounts -> Nat]
    BY <1>1, <2>1, WhbarTyped DEF Moved, WhbarShape
  <2>4. left \in Nat \cup {Unlimited}
    <3>1. whbar.allowance[src][s] \in Nat \cup {Unlimited}
      BY <2>1, WhbarTyped DEF WhbarShape
    <3> QED BY <1>1, <2>1, <3>1 DEF AllowanceAfter, MayTransfer
  <2>5. /\ whbar' \in WhbarShape /\ whbar'.whbarTotalSupply = whbar.whbarTotalSupply
        /\ whbar'.balanceOf = after
    <3> HIDE DEF after, left
    <3> QED BY <2>1, <2>2, <2>3, <2>4, WhbarTyped DEF WhbarShape
  <2>6. SumFunction(after) = SumFunction(whbar.balanceOf)
    <3>1. /\ src = dst => after[src] = whbar.balanceOf[src]
          /\ src # dst => after[src] + after[dst] = whbar.balanceOf[src] + whbar.balanceOf[dst]
          /\ \A a \in Accounts \ {src, dst} : after[a] = whbar.balanceOf[a]
      <4> DEFINE less == [whbar.balanceOf EXCEPT ![src] = @ - v]
      <4>1. /\ less \in [Accounts -> Int] /\ less[src] = whbar.balanceOf[src] - v /\ v \in Int
            /\ \A a \in Accounts \ {src} : less[a] = whbar.balanceOf[a]
        BY <1>1, <2>1, WhbarTyped
      <4>2. after = [less EXCEPT ![dst] = @ + v]
        BY DEF Moved
      <4>3. whbar.balanceOf[src] \in Int /\ whbar.balanceOf[dst] \in Int
        BY <2>1, WhbarTyped
      <4> HIDE DEF less, after
      <4>4. after[dst] = less[dst] + v /\ \A a \in Accounts \ {dst} : after[a] = less[a]
        BY <4>1, <4>2
      <4> QED BY <4>1, <4>3, <4>4
    <3>2. after \in [Accounts -> Int] /\ whbar.balanceOf \in [Accounts -> Int]
          /\ IsFiniteSet(Accounts)
      BY <2>1, <2>3, WhbarTyped, BallotAssumption
    <3> HIDE DEF after
    <3> QED BY <3>1, <3>2, SumMoves
  <2> HIDE DEF after, left
  <2>7. WhbarSupplyHeld'
    BY <2>1, <2>5, <2>6 DEF WhbarInv, WhbarSupplyHeld
  <2> QED BY <1>1, <2>1, <2>5, <2>7, WhbarTyped DEF WhbarInv, WhbarBacked, Numbers
<1> QED BY <1>2, <1>3, <1>4, <1>5, <1>6, <1>7 DEF WhbarStep

\* A record of the type of WHBAR's, some of whose fields change.
LEMMA WhbarFields ==
  ASSUME WhbarInv, whbar.exists, NEW balance, NEW allowance, NEW supply,
         whbar' = [whbar EXCEPT !.balanceOf = balance, !.allowance = allowance,
                                !.whbarTotalSupply = supply]
  PROVE  /\ whbar'.exists /\ whbar'.balanceOf = balance
         /\ whbar'.allowance = allowance /\ whbar'.whbarTotalSupply = supply
BY WhbarTyped DEF WhbarShape

\* Each method of WHBAR is an action of the abstract token, by its caller.
LEMMA DepositMints ==
  ASSUME WhbarInv, NEW s \in Accounts, NEW v \in Values, WHBAR_deposit(s, v)
  PROVE  WhbarToken!ENext
<1>1. whbar.exists /\ sender' = s /\ v \in Nat
  BY ContractsAssumption DEF WHBAR_deposit, CalledBy, Values
<1> DEFINE balance == [whbar.balanceOf EXCEPT ![s] = @ + v]
           supply  == whbar.whbarTotalSupply + v
<1>2. whbar' = [whbar EXCEPT !.balanceOf = balance, !.allowance = whbar.allowance,
                             !.whbarTotalSupply = supply]
  BY <1>1, WhbarTyped DEF WHBAR_deposit, WhbarShape
<1> HIDE DEF balance, supply
<1>3. /\ whbar'.exists /\ whbar'.balanceOf = balance
      /\ whbar'.allowance = whbar.allowance /\ whbar'.whbarTotalSupply = supply
  BY <1>1, <1>2, WhbarFields
<1>4. supply - whbar.whbarTotalSupply = v
  BY <1>1, WhbarTyped DEF supply
<1>5. WhbarToken!Mint(s)
  BY <1>1, <1>3, <1>4 DEF WhbarToken!Mint, balance
<1> QED BY <1>1, <1>5 DEF WhbarToken!ENext

LEMMA WithdrawalBurns ==
  ASSUME WhbarInv, NEW s \in Accounts, NEW v \in Values, WHBAR_withdraw(s, v)
  PROVE  WhbarToken!ENext
<1>1. whbar.exists /\ sender' = s /\ v \in Nat /\ v <= whbar.balanceOf[s]
  BY ContractsAssumption DEF WHBAR_withdraw, CalledBy, Values
<1> DEFINE balance == [whbar.balanceOf EXCEPT ![s] = @ - v]
           supply  == whbar.whbarTotalSupply - v
<1>2. whbar' = [whbar EXCEPT !.balanceOf = balance, !.allowance = whbar.allowance,
                             !.whbarTotalSupply = supply]
  BY <1>1, WhbarTyped DEF WHBAR_withdraw, WhbarShape
<1> HIDE DEF balance, supply
<1>3. /\ whbar'.exists /\ whbar'.balanceOf = balance
      /\ whbar'.allowance = whbar.allowance /\ whbar'.whbarTotalSupply = supply
  BY <1>1, <1>2, WhbarFields
<1>4. v \in 0 .. whbar.balanceOf[s]
  BY <1>1, WhbarTyped
<1>5. WhbarToken!Burn
  BY <1>1, <1>3, <1>4 DEF WhbarToken!Burn, balance, supply
<1> QED BY <1>1, <1>5 DEF WhbarToken!ENext

LEMMA ApprovalApproves ==
  ASSUME WhbarInv, NEW s \in Accounts, NEW guy \in Programs, NEW v \in Approvals,
         WHBAR_approve(s, guy, v)
  PROVE  WhbarToken!ENext
<1>1. whbar.exists /\ sender' = s /\ guy \in Accounts /\ v \in Nat \cup {Unlimited}
  BY LedgerAssumption, WhbarAssumption DEF WHBAR_approve, CalledBy
<1> DEFINE allowance == [whbar.allowance EXCEPT ![s][guy] = v]
<1>2. whbar' = [whbar EXCEPT !.balanceOf = whbar.balanceOf, !.allowance = allowance,
                             !.whbarTotalSupply = whbar.whbarTotalSupply]
  BY <1>1, WhbarTyped DEF WHBAR_approve, WhbarShape
<1>3. allowance[s][guy] = v
  BY <1>1, WhbarTyped DEF WhbarShape
<1> HIDE DEF allowance
<1>4. /\ whbar'.exists /\ whbar'.balanceOf = whbar.balanceOf
      /\ whbar'.allowance = allowance /\ whbar'.whbarTotalSupply = whbar.whbarTotalSupply
  BY <1>1, <1>2, WhbarFields
<1>5. WhbarToken!Approve(guy)
  BY <1>1, <1>3, <1>4 DEF WhbarToken!Approve, allowance
<1> QED BY <1>1, <1>5 DEF WhbarToken!ENext

LEMMA TransferTransfers ==
  ASSUME WhbarInv, NEW s \in Accounts, NEW src \in Accounts, NEW dst \in Accounts,
         NEW v \in Values, WHBAR_transferFrom(s, src, dst, v)
  PROVE  WhbarToken!ENext
<1>1. /\ whbar.exists /\ sender' = s /\ v \in Nat /\ v <= whbar.balanceOf[src]
      /\ MayTransfer(src, s, v)
  BY ContractsAssumption DEF WHBAR_transferFrom, CalledBy, Values
<1> DEFINE balance   == Moved(whbar.balanceOf, src, dst, v)
           left      == AllowanceAfter(src, s, v)
           allowance == [whbar.allowance EXCEPT ![src][s] = left]
<1>2. whbar' = [whbar EXCEPT !.balanceOf = balance, !.allowance = allowance,
                             !.whbarTotalSupply = whbar.whbarTotalSupply]
  <2> HIDE DEF balance, left
  <2> QED BY <1>1, WhbarTyped DEF WHBAR_transferFrom, WhbarShape, balance, left
<1> HIDE DEF balance, left, allowance
<1>3. /\ whbar'.exists /\ whbar'.balanceOf = balance
      /\ whbar'.allowance = allowance /\ whbar'.whbarTotalSupply = whbar.whbarTotalSupply
  BY <1>1, <1>2, WhbarFields
<1>4. v \in 0 .. whbar.balanceOf[src]
  BY <1>1, WhbarTyped
<1>5. balance = [[whbar.balanceOf EXCEPT ![src] = @ - v] EXCEPT ![dst] = @ + v]
  BY DEF balance, Moved
<1>6. CASE src = s \/ whbar.allowance[src][s] = Unlimited
  <2>1. allowance = whbar.allowance
    BY <1>1, <1>6, WhbarTyped DEF allowance, left, AllowanceAfter, WhbarShape
  <2>2. WhbarToken!Transfer(src, dst)
    BY <1>1, <1>3, <1>4, <1>5, <1>6, <2>1 DEF WhbarToken!Transfer, WhbarToken!Spend
  <2> QED BY <1>1, <2>2 DEF WhbarToken!ENext
<1>7. CASE src # s /\ whbar.allowance[src][s] # Unlimited
  <2>1. left = whbar.allowance[src][s] - v /\ whbar.allowance[src][s] \in Nat
        /\ v <= whbar.allowance[src][s]
    BY <1>1, <1>7, WhbarTyped DEF left, AllowanceAfter, MayTransfer, WhbarShape
  <2>2. WhbarToken!Spend(src, v)
    BY <1>1, <1>3, <2>1 DEF WhbarToken!Spend, allowance
  <2>3. WhbarToken!Transfer(src, dst)
    BY <1>1, <1>3, <1>4, <1>5, <2>2 DEF WhbarToken!Transfer
  <2> QED BY <1>1, <2>3 DEF WhbarToken!ENext
<1> QED BY <1>6, <1>7

LEMMA WhbarRefines ==
  ASSUME WhbarInv, [Next]_vars
  PROVE  [WhbarToken!ENext]_(WhbarToken!tokens)
<1>1. CASE whbar' = whbar
  BY <1>1 DEF WhbarToken!tokens
<1>2. ASSUME NEW s \in Accounts, WHBAR_constructor(s)
      PROVE  UNCHANGED WhbarToken!tokens
  BY <1>2 DEF WHBAR_constructor, WhbarToken!tokens, NoBalances
<1>3. WhbarStep \/ whbar' = whbar
  BY DEF Next, vars, SimpleAuctionStep, BlindAuctionStep, PurchaseStep, PaymentChannelStep,
         BallotStep, NetworkStep
<1>4. CASE WhbarStep
  <2>1. WHBAR_withdrawReturns => whbar' = whbar
    BY DEF WHBAR_withdrawReturns
  <2> QED
    BY <1>1, <1>2, <1>4, <2>1, DepositMints, WithdrawalBurns, ApprovalApproves,
       TransferTransfers DEF WhbarStep
<1> QED BY <1>1, <1>3, <1>4

----------------------------------------------------------------------------
(* The auction.                                                            *)

\* What an account has a claim to, and what it has in the auction.
Own(a) == auction.pendingReturns[a]
            + IF a = auction.highestBidder THEN auction.highestBid ELSE 0
Has(a) == stake["SimpleAuction"][a]

Returnable(a) ==
  /\ a # auction.beneficiary \/ ~auction.ended => Has(a) = Own(a)
  /\ Own(a) - auction.highestBid <= Has(a) /\ Has(a) <= Own(a)

LEMMA AllReturnable ==
  /\ BidsReturnable <=> (auction.exists => \A a \in Accounts : Returnable(a))
  /\ BidsReturnable' <=> (auction'.exists => \A a \in Accounts : Returnable(a)')
BY DEF BidsReturnable, Returnable, Own, Has

\* It is enough to look at a step's new state account by account.
LEMMA AuctionKept ==
  ASSUME Numbers("SimpleAuction")', auction' \in AuctionType,
         auction'.highestBid = 0 <=> auction'.highestBidder = NoOne,
         \A a \in Accounts : Returnable(a)'
  PROVE  AuctionInv'
<1>1. auction'.exists
  BY DEF AuctionType
<1> QED BY <1>1, AllReturnable DEF AuctionInv

LEMMA AuctionNumbers ==
  ASSUME AuctionInv, auction.exists, NEW a \in Accounts
  PROVE  /\ Has(a) \in Int /\ Own(a) \in Int /\ auction.highestBid \in Nat
         /\ auction.pendingReturns[a] \in Nat /\ Returnable(a)
BY AuctionTyped, AllReturnable DEF AuctionInv, Numbers, Has, Own

LEMMA BidKeeps ==
  ASSUME Shape, AuctionInv, NEW s \in Accounts, NEW v \in Nat, SimpleAuction_bid(s, v)
  PROVE  AuctionInv'
<1>1. auction.exists /\ auction.highestBid < v /\ TakeIn("SimpleAuction", s, v)
      /\ auction' = [auction EXCEPT !.pendingReturns = Outbid, !.highestBidder = s,
                                    !.highestBid = v]
  BY DEF SimpleAuction_bid
<1>2. "SimpleAuction" \in Contracts /\ Numbers("SimpleAuction")
  BY DEF Contracts, AuctionInv
<1>3. /\ Numbers("SimpleAuction")'
      /\ stake'["SimpleAuction"] = [stake["SimpleAuction"] EXCEPT ![s] = @ + v]
      /\ DOMAIN stake["SimpleAuction"] = Accounts
  BY <1>1, <1>2, TakeInNumbers, TakeInBooked DEF Booked, Shape
<1>4. auction.highestBid # 0 => auction.highestBidder \in Accounts
  BY <1>1, AuctionTyped DEF AuctionInv
<1>5. Outbid \in [Accounts -> Nat]
      /\ \A a \in Accounts : Outbid[a] = Own(a)
  BY <1>1, <1>4, AuctionTyped, LedgerAssumption DEF Outbid, AuctionInv, Own
<1>6. auction' \in AuctionType /\ auction'.pendingReturns = Outbid
      /\ auction'.highestBidder = s /\ auction'.highestBid = v
      /\ auction'.beneficiary = auction.beneficiary /\ auction'.ended = auction.ended
  <2> HIDE DEF Outbid
  <2>1. s \in Accounts \cup {NoOne}
    OBVIOUS
  <2> QED BY <1>1, <1>5, <2>1, AuctionTyped DEF AuctionType
<1>7. ASSUME NEW a \in Accounts PROVE Returnable(a)'
  <2>1. Own(a)' = Own(a) + (IF a = s THEN v ELSE 0)
    BY <1>5, <1>6 DEF Own
  <2>2. Has(a)' = Has(a) + (IF a = s THEN v ELSE 0)
    BY <1>1, <1>3, AuctionNumbers DEF Has
  <2>3. auction'.highestBid = v /\ auction.highestBid < v /\ auction.highestBid \in Nat
    BY <1>1, <1>6, AuctionTyped
  <2>4. Returnable(a) /\ Own(a) \in Int /\ Has(a) \in Int
    BY <1>1, AuctionNumbers
  <2>5. Own(a)' - v <= Has(a)' /\ Has(a)' <= Own(a)'
    BY <2>1, <2>2, <2>3, <2>4 DEF Returnable
  <2>6. a # auction'.beneficiary \/ ~auction'.ended => Has(a)' = Own(a)'
    BY <1>6, <2>1, <2>2, <2>4 DEF Returnable
  <2> QED BY <2>3, <2>5, <2>6 DEF Returnable
<1>8. v # 0 /\ s # NoOne
  BY <1>1, AuctionTyped, LedgerAssumption
<1> QED BY <1>3, <1>6, <1>7, <1>8, AuctionKept

LEMMA AuctionWithdrawKeeps ==
  ASSUME Shape, AuctionInv, NEW s \in Accounts, SimpleAuction_withdraw(s)
  PROVE  AuctionInv'
<1> DEFINE v == auction.pendingReturns[s]
<1>1. auction.exists /\ PayOut("SimpleAuction", s, v)
      /\ auction' = [auction EXCEPT !.pendingReturns[s] = 0]
  BY DEF SimpleAuction_withdraw
<1>2. "SimpleAuction" \in Contracts /\ Numbers("SimpleAuction") /\ v \in Nat
  BY <1>1, AuctionTyped DEF Contracts, AuctionInv
<1>3. /\ Numbers("SimpleAuction")'
      /\ stake'["SimpleAuction"] = [stake["SimpleAuction"] EXCEPT ![s] = @ - v]
      /\ DOMAIN stake["SimpleAuction"] = Accounts
  <2> HIDE DEF v
  <2> QED BY <1>1, <1>2, PayOutNumbers, PayOutBooked DEF Shape
<1>4. auction' \in AuctionType
      /\ auction'.pendingReturns = [auction.pendingReturns EXCEPT ![s] = 0]
      /\ auction'.highestBidder = auction.highestBidder
      /\ auction'.highestBid = auction.highestBid
      /\ auction'.beneficiary = auction.beneficiary /\ auction'.ended = auction.ended
  BY <1>1, AuctionTyped DEF AuctionType
<1>5. ASSUME NEW a \in Accounts PROVE Returnable(a)'
  <2>1. Own(a)' = Own(a) - (IF a = s THEN v ELSE 0)
    BY <1>1, <1>4, AuctionTyped DEF Own
  <2>2. Has(a)' = Has(a) - (IF a = s THEN v ELSE 0)
    BY <1>1, <1>3, AuctionNumbers DEF Has
  <2>3. Returnable(a) /\ Own(a) \in Int /\ Has(a) \in Int /\ auction.highestBid \in Nat
    BY <1>1, AuctionNumbers
  <2> HIDE DEF v
  <2> QED BY <1>2, <1>4, <2>1, <2>2, <2>3 DEF Returnable
<1> QED BY <1>1, <1>3, <1>4, <1>5, AuctionKept DEF AuctionInv

LEMMA AuctionEndKeeps ==
  ASSUME Shape, AuctionInv, NEW s \in Accounts, SimpleAuction_auctionEnd(s)
  PROVE  AuctionInv'
<1> DEFINE v == auction.highestBid
           b == auction.beneficiary
<1>1. auction.exists /\ ~auction.ended /\ PayOut("SimpleAuction", b, v)
      /\ auction' = [auction EXCEPT !.ended = TRUE]
  BY DEF SimpleAuction_auctionEnd
<1>2. "SimpleAuction" \in Contracts /\ Numbers("SimpleAuction") /\ v \in Nat /\ b \in Accounts
  BY <1>1, AuctionTyped DEF Contracts, AuctionInv
<1>3. /\ Numbers("SimpleAuction")'
      /\ stake'["SimpleAuction"] = [stake["SimpleAuction"] EXCEPT ![b] = @ - v]
      /\ DOMAIN stake["SimpleAuction"] = Accounts
  <2> HIDE DEF v, b
  <2> QED BY <1>1, <1>2, PayOutNumbers, PayOutBooked DEF Shape
<1>4. auction' \in AuctionType
      /\ auction'.pendingReturns = auction.pendingReturns
      /\ auction'.highestBidder = auction.highestBidder
      /\ auction'.highestBid = v /\ auction'.beneficiary = b /\ auction'.ended
  BY <1>1, AuctionTyped DEF AuctionType
<1>5. ASSUME NEW a \in Accounts PROVE Returnable(a)'
  <2>1. Own(a)' = Own(a)
    BY <1>4 DEF Own
  <2>2. Has(a)' = Has(a) - (IF a = b THEN v ELSE 0)
    BY <1>1, <1>3, AuctionNumbers DEF Has
  <2>3. Returnable(a) /\ Own(a) \in Int /\ Has(a) \in Int
    BY <1>1, AuctionNumbers
  <2>4. Has(a) = Own(a)
    BY <1>1, <2>3 DEF Returnable
  <2> QED BY <1>2, <1>4, <2>1, <2>2, <2>3, <2>4 DEF Returnable
<1> QED BY <1>1, <1>3, <1>4, <1>5, AuctionKept DEF AuctionInv

LEMMA AuctionOpensKeeps ==
  ASSUME AuctionInv, NEW s \in Accounts, NEW b \in Accounts,
         Shape, SimpleAuction_constructor(s, BiddingTime, b)
  PROVE  AuctionInv'
<1>1. ~auction.exists /\ hbar' = hbar /\ stake' = stake
  BY DEF SimpleAuction_constructor, NoPayment
<1>2. auction' \in AuctionType /\ auction'.highestBid = 0 /\ auction'.highestBidder = NoOne
      /\ \A a \in Accounts : auction'.pendingReturns[a] = 0
  BY ContractsAssumption DEF SimpleAuction_constructor, AuctionType, Shape
<1>3. \A a \in Accounts : stake["SimpleAuction"][a] = 0
  BY <1>1 DEF AuctionInv
<1>4. ASSUME NEW a \in Accounts PROVE Returnable(a)'
  BY <1>1, <1>2, <1>3 DEF Returnable, Own, Has
<1>5. Numbers("SimpleAuction")'
  BY <1>1 DEF AuctionInv, Numbers
<1> QED BY <1>2, <1>4, <1>5, AuctionKept

LEMMA AuctionStepKeeps == Shape /\ AuctionInv /\ SimpleAuctionStep => AuctionInv'
<1>1. Values \subseteq Nat
  BY ContractsAssumption DEF Values
<1> QED
  BY <1>1, AuctionOpensKeeps, BidKeeps, AuctionWithdrawKeeps, AuctionEndKeeps
  DEF SimpleAuctionStep

----------------------------------------------------------------------------
(* The purchase.                                                           *)

\* HavePaid after the step, of amounts before it.
PaidAfter(sellers, buyers) ==
  \A a \in Accounts :
    stake'["Purchase"][a] = (IF a = purchase'.seller THEN sellers ELSE 0)
                              + (IF a = purchase'.buyer THEN buyers ELSE 0)

LEMMA SettledAfter ==
  ASSUME NEW odd \in {0, 1},
         LET value == purchase'.value
             state == purchase'.state
         IN \/ state = "Created" /\ PaidAfter(2 * value + odd, 0)
            \/ state = "Locked"  /\ PaidAfter(2 * value + odd, 2 * value)
            \/ state = "Release" /\ PaidAfter(2 * value + odd, value)
            \/ state = "Inactive" /\ purchase'.buyer # NoOne /\ PaidAfter(odd - value, value)
            \/ /\ state = "Inactive" /\ purchase'.buyer = NoOne
               /\ \E more \in 0 .. donated' : PaidAfter(-more, 0)
  PROVE  PurchaseSettles'
<1>1. \A sellers, buyers :
        PaidAfter(sellers, buyers) <=>
          \A a \in Accounts :
            stake'["Purchase"][a] = (IF a = purchase'.seller THEN sellers ELSE 0)
                                      + (IF a = purchase'.buyer THEN buyers ELSE 0)
  BY DEF PaidAfter
<1> QED BY <1>1 DEF PurchaseSettles, HavePaid

LEMMA PurchaseOpensKeeps ==
  ASSUME Shape, PurchaseInv, NEW s \in Accounts, NEW v \in Nat, Purchase_constructor(s, v)
  PROVE  PurchaseInv'
<1> DEFINE odd == v % 2
<1>1. ~purchase.exists /\ TakeIn("Purchase", s, v) /\ donated' = donated
  BY DEF Purchase_constructor, chain
<1>2. "Purchase" \in Contracts /\ Numbers("Purchase") /\ DOMAIN stake["Purchase"] = Accounts
  BY DEF Contracts, PurchaseInv, Shape
<1>3. /\ Numbers("Purchase")' /\ hbar'["Purchase"] = hbar["Purchase"] + v
      /\ stake'["Purchase"] = [stake["Purchase"] EXCEPT ![s] = @ + v]
  BY <1>1, <1>2, TakeInNumbers, TakeInBooked DEF Booked
<1>4. /\ purchase' \in PurchaseType /\ purchase'.exists /\ purchase'.value = v \div 2
      /\ purchase'.seller = s /\ purchase'.buyer = NoOne /\ purchase'.state = "Created"
  BY DEF Purchase_constructor, PurchaseType
<1>5. odd \in {0, 1} /\ 2 * (v \div 2) + odd = v
  OBVIOUS
<1>6. \A a \in Accounts : stake'["Purchase"][a] = IF a = s THEN v ELSE 0
  BY <1>1, <1>2, <1>3 DEF PurchaseInv
<1>7. PaidAfter(v, 0)
  BY <1>4, <1>6, LedgerAssumption DEF PaidAfter
<1>8. PurchaseSettles'
  BY <1>4, <1>5, <1>7, SettledAfter
<1>9. stake'["Purchase"][s] = v /\ hbar["Purchase"] \in Nat /\ hbar["Purchase"] <= donated
      /\ donated \in Nat
  BY <1>1, <1>6 DEF PurchaseInv, Numbers, Shape
<1> QED BY <1>1, <1>3, <1>4, <1>8, <1>9 DEF PurchaseInv

\* What the seller and the buyer have paid at most in each state.
LEMMA SettledAt ==
  ASSUME PurchaseInv, purchase.exists
  PROVE  \E odd \in {0, 1} :
           /\ purchase.state = "Created" => HavePaid(2 * purchase.value + odd, 0)
           /\ purchase.state = "Locked" => HavePaid(2 * purchase.value + odd, 2 * purchase.value)
           /\ purchase.state = "Release" => HavePaid(2 * purchase.value + odd, purchase.value)
BY DEF PurchaseInv, PurchaseSettles

LEMMA AbortKeeps ==
  ASSUME Shape, PurchaseInv, NEW s \in Accounts, Purchase_abort(s)
  PROVE  PurchaseInv'
<1> DEFINE h == hbar["Purchase"]
<1>1. purchase.exists /\ s = purchase.seller /\ purchase.state = "Created"
      /\ PayOut("Purchase", s, h) /\ purchase' = [purchase EXCEPT !.state = "Inactive"]
      /\ donated' = donated
  BY DEF Purchase_abort, chain
<1>2. "Purchase" \in Contracts /\ Numbers("Purchase") /\ DOMAIN stake["Purchase"] = Accounts
      /\ h \in Nat /\ donated \in Nat
  BY DEF Contracts, PurchaseInv, Shape, Numbers
<1>3. /\ Numbers("Purchase")'
      /\ stake'["Purchase"] = [stake["Purchase"] EXCEPT ![s] = @ - h]
  <2> HIDE DEF h
  <2> QED BY <1>1, <1>2, PayOutNumbers, PayOutBooked
<1>4. /\ purchase' \in PurchaseType /\ purchase'.exists /\ purchase'.value = purchase.value
      /\ purchase'.seller = s /\ purchase'.buyer = NoOne /\ purchase'.state = "Inactive"
  BY <1>1, PurchaseTyped DEF PurchaseType, PurchaseInv
<1> DEFINE more == h - stake["Purchase"][s]
<1>5. more \in 0 .. donated' /\ more \in Int
  BY <1>1, <1>2 DEF PurchaseInv, Numbers
<1>6. PICK odd \in {0, 1} : HavePaid(2 * purchase.value + odd, 0)
  BY <1>1, SettledAt
<1>7. \A a \in Accounts : stake'["Purchase"][a] = IF a = s THEN -more ELSE 0
  <2>1. \A a \in Accounts : a # s => stake["Purchase"][a] = 0
    BY <1>1, <1>6, LedgerAssumption DEF HavePaid, PurchaseInv
  <2> QED BY <1>2, <1>3, <2>1 DEF Numbers
<1>8. PaidAfter(-more, 0)
  <2> HIDE DEF more
  <2> QED BY <1>4, <1>5, <1>7, LedgerAssumption DEF PaidAfter
<1>9. PurchaseSettles'
  BY <1>4, <1>5, <1>6, <1>8, SettledAfter
<1> QED BY <1>3, <1>4, <1>9 DEF PurchaseInv

LEMMA ConfirmPurchaseKeeps ==
  ASSUME Shape, PurchaseInv, NEW s \in Accounts, Purchase_confirmPurchase(s)
  PROVE  PurchaseInv'
<1> DEFINE v == purchase.value
<1>1. purchase.exists /\ purchase.state = "Created" /\ TakeIn("Purchase", s, 2 * v)
      /\ purchase' = [purchase EXCEPT !.buyer = s, !.state = "Locked"]
  BY DEF Purchase_confirmPurchase
<1>2. "Purchase" \in Contracts /\ Numbers("Purchase") /\ DOMAIN stake["Purchase"] = Accounts
      /\ v \in Nat /\ 2 * v \in Nat
      /\ purchase.buyer = NoOne /\ purchase.seller \in Accounts
  BY <1>1, PurchaseTyped DEF Contracts, PurchaseInv, Shape
<1>3. /\ Numbers("Purchase")'
      /\ stake'["Purchase"] = [stake["Purchase"] EXCEPT ![s] = @ + 2 * v]
  <2> HIDE DEF v
  <2> QED BY <1>1, <1>2, TakeInNumbers, TakeInBooked DEF Booked
<1>4. /\ purchase' \in PurchaseType /\ purchase'.exists /\ purchase'.value = v
      /\ purchase'.seller = purchase.seller /\ purchase'.buyer = s
      /\ purchase'.state = "Locked"
  BY <1>1, PurchaseTyped DEF PurchaseType
<1>5. PICK odd \in {0, 1} : HavePaid(2 * v + odd, 0)
  BY <1>1, SettledAt
<1>6. PaidAfter(2 * v + odd, 2 * v)
  <2> DEFINE deposit == 2 * v + odd
  <2>1. deposit \in Int
    BY <1>2
  <2>2. \A a \in Accounts : /\ stake["Purchase"][a] \in Int
          /\ stake'["Purchase"][a] = stake["Purchase"][a] + (IF a = s THEN 2 * v ELSE 0)
    BY <1>2, <1>3 DEF Numbers
  <2> HIDE DEF deposit
  <2>3. HavePaid(deposit, 0)
    BY <1>5 DEF deposit
  <2>4. \A a \in Accounts : stake["Purchase"][a] = IF a = purchase.seller THEN deposit ELSE 0
    <3> TAKE a \in Accounts
    <3>1. stake["Purchase"][a] = (IF a = purchase.seller THEN deposit ELSE 0)
                                   + (IF a = purchase.buyer THEN 0 ELSE 0)
      BY <2>3 DEF HavePaid
    <3>2. (IF a = purchase.buyer THEN 0 ELSE 0) = 0
      OBVIOUS
    <3>3. (IF a = purchase.seller THEN deposit ELSE 0) \in Int
      BY <2>1
    <3> QED BY <3>1, <3>2, <3>3
  <2>5. PaidAfter(deposit, 2 * v)
    BY <1>2, <1>4, <2>1, <2>2, <2>4 DEF HavePaid, PaidAfter
  <2> QED BY <2>5 DEF deposit
<1>7. PurchaseSettles'
  BY <1>4, <1>5, <1>6, SettledAfter
<1> QED BY <1>3, <1>4, <1>7 DEF PurchaseInv

LEMMA ConfirmReceivedKeeps ==
  ASSUME Shape, PurchaseInv, NEW s \in Accounts, Purchase_confirmReceived(s)
  PROVE  PurchaseInv'
<1> DEFINE v == purchase.value
<1>1. purchase.exists /\ purchase.state = "Locked" /\ s = purchase.buyer
      /\ PayOut("Purchase", s, v) /\ purchase' = [purchase EXCEPT !.state = "Release"]
  BY DEF Purchase_confirmReceived
<1>2. "Purchase" \in Contracts /\ Numbers("Purchase") /\ DOMAIN stake["Purchase"] = Accounts
      /\ v \in Nat
      /\ purchase.seller \in Accounts
  BY <1>1, PurchaseTyped DEF Contracts, PurchaseInv, Shape
<1>3. /\ Numbers("Purchase")'
      /\ stake'["Purchase"] = [stake["Purchase"] EXCEPT ![s] = @ - v]
  <2> HIDE DEF v
  <2> QED BY <1>1, <1>2, PayOutNumbers, PayOutBooked
<1>4. /\ purchase' \in PurchaseType /\ purchase'.exists /\ purchase'.value = v
      /\ purchase'.seller = purchase.seller /\ purchase'.buyer = s
      /\ purchase'.state = "Release"
  BY <1>1, PurchaseTyped DEF PurchaseType
<1>5. PICK odd \in {0, 1} : HavePaid(2 * v + odd, 2 * v)
  BY <1>1, SettledAt
<1>6. PaidAfter(2 * v + odd, v)
  <2> DEFINE deposit == 2 * v + odd
  <2>1. deposit \in Int
    BY <1>2
  <2> HIDE DEF deposit
  <2>3. HavePaid(deposit, 2 * v)
    BY <1>5 DEF deposit
  <2>4. \A a \in Accounts :
          stake'["Purchase"][a] = stake["Purchase"][a] - (IF a = s THEN v ELSE 0)
    BY <1>2, <1>3 DEF Numbers
  <2>5. PaidAfter(deposit, v)
    BY <1>1, <1>2, <1>4, <2>1, <2>3, <2>4 DEF HavePaid, PaidAfter
  <2> QED BY <2>5 DEF deposit
<1>7. PurchaseSettles'
  BY <1>4, <1>5, <1>6, SettledAfter
<1> QED BY <1>3, <1>4, <1>7 DEF PurchaseInv

LEMMA RefundKeeps ==
  ASSUME Shape, PurchaseInv, NEW s \in Accounts, Purchase_refundSeller(s)
  PROVE  PurchaseInv'
<1> DEFINE v == purchase.value
<1>1. purchase.exists /\ purchase.state = "Release" /\ s = purchase.seller
      /\ PayOut("Purchase", s, 3 * v) /\ purchase' = [purchase EXCEPT !.state = "Inactive"]
  BY DEF Purchase_refundSeller
<1>2. "Purchase" \in Contracts /\ Numbers("Purchase") /\ DOMAIN stake["Purchase"] = Accounts
      /\ v \in Nat /\ 3 * v \in Int
      /\ purchase.buyer \in Accounts /\ purchase.buyer # NoOne
  BY <1>1, PurchaseTyped, LedgerAssumption DEF Contracts, PurchaseInv, Shape
<1>3. /\ Numbers("Purchase")'
      /\ stake'["Purchase"] = [stake["Purchase"] EXCEPT ![s] = @ - 3 * v]
  <2> HIDE DEF v
  <2> QED BY <1>1, <1>2, PayOutNumbers, PayOutBooked
<1>4. /\ purchase' \in PurchaseType /\ purchase'.exists /\ purchase'.value = v
      /\ purchase'.seller = s /\ purchase'.buyer = purchase.buyer
      /\ purchase'.state = "Inactive"
  BY <1>1, PurchaseTyped DEF PurchaseType
<1>5. PICK odd \in {0, 1} : HavePaid(2 * v + odd, v)
  BY <1>1, SettledAt
<1>6. PaidAfter(odd - v, v)
  <2>1. \A a \in Accounts :
          stake'["Purchase"][a] = stake["Purchase"][a] - (IF a = s THEN 3 * v ELSE 0)
    BY <1>2, <1>3 DEF Numbers
  <2> QED BY <1>1, <1>2, <1>4, <1>5, <2>1 DEF HavePaid, PaidAfter
<1>7. PurchaseSettles'
  BY <1>2, <1>4, <1>5, <1>6, SettledAfter
<1> QED BY <1>3, <1>4, <1>7 DEF PurchaseInv

LEMMA PurchaseStepKeeps == Shape /\ PurchaseInv /\ PurchaseStep => PurchaseInv'
<1>1. Values \subseteq Nat
  BY ContractsAssumption DEF Values
<1> QED
  BY <1>1, PurchaseOpensKeeps, AbortKeeps, ConfirmPurchaseKeeps, ConfirmReceivedKeeps,
     RefundKeeps DEF PurchaseStep

----------------------------------------------------------------------------
(* The payment channel.                                                    *)

\* The largest amount signed for.
LEMMA LargestSigned ==
  ASSUME NEW S, IsFiniteSet(S), S \subseteq Nat
  PROVE  Max(S \cup {0}) \in Nat /\ Max(S \cup {0}) \in S \cup {0} /\ \A n \in S \cup {0} : n <= Max(S \cup {0})
<1> DEFINE T == S \cup {0}
<1>1. IsFiniteSet(T) /\ T \subseteq Int /\ T \subseteq Nat /\ T # {} /\ T \in SUBSET T
  BY FS_AddElement
<1> HIDE DEF T
<1>2. \E m \in T : \A j \in T : j <= m
  BY <1>1, LargestExists
<1>3. PICK m \in T : \A j \in T : m >= j
  BY <1>1, <1>2
<1>4. Max(T) \in T /\ \A j \in T : Max(T) >= j
  BY <1>3 DEF Max
<1>5. \A j \in T : j <= Max(T)
  BY <1>1, <1>4
<1> QED BY <1>1, <1>4, <1>5 DEF T

LEMMA ChannelStepKeeps == Shape /\ ChannelInv /\ PaymentChannelStep => ChannelInv'
<1> SUFFICES ASSUME Shape, ChannelInv, PaymentChannelStep PROVE ChannelInv'
  OBVIOUS
<1> DEFINE c == "PaymentChannel"
           r == channel.recipient
<1>1. c \in Contracts /\ Numbers(c) /\ Values \subseteq Nat /\ hbar[c] \in Nat
      /\ \A a \in Accounts : stake[c][a] \in Int
  BY ContractsAssumption DEF Contracts, ChannelInv, Values, Numbers
<1>2. signed \subseteq Nat /\ IsFiniteSet(signed) /\ signed \subseteq Amounts
      /\ Max(signed \cup {0}) \in Nat /\ \A n \in signed \cup {0} : n <= Max(signed \cup {0})
  BY ChannelAssumption, LargestSigned DEF ChannelInv
<1>3. ASSUME NEW s \in Accounts, NEW to \in Accounts, NEW v \in Values,
             PaymentChannel_constructor(s, to, Duration, v)
      PROVE  ChannelInv'
  <2>1. channel' \in ChannelType /\ channel'.exists /\ signed' = signed
        /\ channel'.sender = s /\ channel'.recipient = to
    BY <1>3, ContractsAssumption DEF PaymentChannel_constructor, ChannelType, Shape
  <2>2. TakeIn(c, s, v)
    BY <1>3 DEF PaymentChannel_constructor
  <2>3. Numbers(c)'
    BY <1>1, <2>2, TakeInNumbers
  <2>4. s # to => stake'[c][to] = 0
    <3>0. Booked(c, s, v)
      BY <1>1, <2>2, TakeInBooked
    <3>1. stake'[c] = [stake[c] EXCEPT ![s] = @ + v] /\ DOMAIN stake[c] = Accounts
      BY <1>1, <3>0 DEF Booked, Shape
    <3>2. stake[c][to] = 0
      BY <1>3 DEF PaymentChannel_constructor, ChannelInv
    <3> QED BY <3>1, <3>2
  <2> QED BY <1>2, <2>1, <2>3, <2>4 DEF ChannelInv, ChannelPaysOnce
<1>4. ASSUME NEW s \in Accounts, NEW v \in Amounts, PaymentChannel_close(s, v)
      PROVE  ChannelInv'
  <2>1. channel.exists /\ channel' = channel /\ signed' = signed /\ donated' = donated
        /\ v \in signed /\ v <= hbar[c]
    BY <1>4 DEF PaymentChannel_close, chain
  <2>2. Numbers(c)' /\ hbar'[c] = 0
    BY <1>4, CloseBooked DEF Numbers
  <2>3. ASSUME donated = 0, channel.sender # r PROVE -stake'[c][r] <= Max(signed \cup {0})
    <3>1. stake'[c][r] = stake[c][r] - v
      BY <1>4, <2>3, CloseBooked
    <3>2. stake[c][r] \in Int /\ v \in Nat /\ v <= Max(signed \cup {0})
      BY <1>1, <1>2, <2>1, ChannelTyped
    <3>3. stake[c][r] = 0 \/ v = 0
      BY <1>1, <2>1, <2>3, <3>2 DEF ChannelInv
    <3>4. -stake[c][r] <= Max(signed \cup {0})
      BY <2>1, <2>3 DEF ChannelInv, ChannelPaysOnce
    <3> QED BY <1>2, <3>1, <3>2, <3>3, <3>4
  <2> QED BY <2>1, <2>2, <2>3 DEF ChannelInv, ChannelPaysOnce
<1>5. ASSUME NEW s \in Accounts, NEW t \in 0 .. MaxTime, PaymentChannel_extend(s, t)
      PROVE  ChannelInv'
  <2>1. channel.exists /\ channel' = [channel EXCEPT !.expiration = t]
        /\ hbar' = hbar /\ stake' = stake /\ signed' = signed /\ donated' = donated
    BY <1>5 DEF PaymentChannel_extend, NoPayment, chain
  <2>2. t \in Nat
    BY LedgerAssumption
  <2>3. channel' \in ChannelType /\ channel'.exists
        /\ channel'.sender = channel.sender /\ channel'.recipient = channel.recipient
    BY <2>1, <2>2, ChannelTyped DEF ChannelType
  <2> QED BY <1>1, <2>1, <2>3 DEF ChannelInv, ChannelPaysOnce, Numbers
<1>6. ASSUME NEW s \in Accounts, PaymentChannel_claimTimeout(s)
      PROVE  ChannelInv'
  <2>1. channel.exists /\ channel' = channel /\ PayOut(c, channel.sender, hbar[c])
        /\ signed' = signed /\ donated' = donated
    BY <1>6 DEF PaymentChannel_claimTimeout, chain
  <2>2. channel.sender \in Accounts /\ r \in Accounts
    BY <2>1, ChannelTyped
  <2>3. Numbers(c)' /\ hbar'[c] = hbar[c] - hbar[c]
    BY <1>1, <2>1, <2>2, PayOutNumbers
  <2>4. channel.sender # r => stake'[c][r] = stake[c][r]
    <3>1. stake'[c] = [stake[c] EXCEPT ![channel.sender] = @ - hbar[c]]
          /\ DOMAIN stake[c] = Accounts
      BY <1>1, <2>1, <2>2, PayOutBooked DEF Shape
    <3> QED BY <2>2, <3>1
  <2> QED BY <1>1, <2>1, <2>3, <2>4 DEF ChannelInv, ChannelPaysOnce
<1>7. ASSUME NEW v \in Amounts, Sign(v)
      PROVE  ChannelInv'
  <2>1. channel.exists /\ channel' = channel /\ hbar' = hbar /\ stake' = stake
        /\ donated' = donated /\ signed' = signed \cup {v}
    BY <1>7 DEF Sign, ledger
  <2>2. IsFiniteSet(signed') /\ signed' \subseteq Amounts
    BY <1>2, <2>1, FS_AddElement
  <2>3. signed' \subseteq Nat
    BY <2>2, ChannelAssumption
  <2>4. Max(signed' \cup {0}) \in Nat /\ \A n \in signed' \cup {0} : n <= Max(signed' \cup {0})
    BY <2>2, <2>3, LargestSigned
  <2>5. Max(signed \cup {0}) <= Max(signed' \cup {0})
    <3>1. Max(signed \cup {0}) \in signed \cup {0}
      BY <1>2, LargestSigned
    <3> QED BY <2>1, <2>4, <3>1
  <2>6. donated = 0 /\ channel.sender # r => -stake[c][r] <= Max(signed' \cup {0})
    <3>1. stake[c][r] \in Int
      BY <1>1, <2>1, ChannelTyped
    <3> QED BY <1>2, <2>1, <2>4, <2>5, <3>1 DEF ChannelInv, ChannelPaysOnce
  <2> QED BY <1>1, <2>1, <2>2, <2>6 DEF ChannelInv, ChannelPaysOnce, Numbers
<1> QED BY <1>3, <1>4, <1>5, <1>6, <1>7 DEF PaymentChannelStep

\* What a step of the channel itself may do to it.
LEMMA ChannelStepHolds ==
  ASSUME Shape, ChannelInv, PaymentChannelStep, channel.exists
  PROVE  /\ channel.expiration <= channel'.expiration
         /\ hbar'["PaymentChannel"] < hbar["PaymentChannel"] =>
              sender' = channel.recipient \/ channel.expiration <= now
<1>1. channel \in ChannelType /\ channel.expiration \in Nat /\ hbar["PaymentChannel"] \in Nat
  BY ChannelTyped DEF ChannelInv, Numbers
<1>2. ASSUME NEW s \in Accounts, NEW v \in Amounts, PaymentChannel_close(s, v)
      PROVE  channel' = channel /\ sender' = channel.recipient
  BY <1>2 DEF PaymentChannel_close, CalledBy
<1>3. ASSUME NEW s \in Accounts, NEW t \in 0 .. MaxTime, PaymentChannel_extend(s, t)
      PROVE  channel.expiration < channel'.expiration /\ hbar' = hbar
  <2>1. channel' = [channel EXCEPT !.expiration = t] /\ channel.expiration < t
        /\ hbar' = hbar
    BY <1>3 DEF PaymentChannel_extend, NoPayment
  <2>2. channel'.expiration = t
    BY <1>1, <2>1 DEF ChannelType
  <2> QED BY <2>1, <2>2
<1>4. ASSUME NEW s \in Accounts, PaymentChannel_claimTimeout(s)
      PROVE  channel' = channel /\ channel.expiration <= now
  BY <1>4 DEF PaymentChannel_claimTimeout
<1>5. ASSUME NEW v \in Amounts, Sign(v)
      PROVE  channel' = channel /\ hbar' = hbar
  BY <1>5 DEF Sign, ledger
<1>6. ASSUME NEW s \in Accounts, NEW r, NEW v PROVE ~PaymentChannel_constructor(s, r, Duration, v)
  BY DEF PaymentChannel_constructor
<1>7. \/ \E s \in Accounts, v \in Amounts : PaymentChannel_close(s, v)
      \/ \E s \in Accounts, t \in 0 .. MaxTime : PaymentChannel_extend(s, t)
      \/ \E s \in Accounts : PaymentChannel_claimTimeout(s)
      \/ \E v \in Amounts : Sign(v)
  BY <1>6 DEF PaymentChannelStep
<1>8. CASE \E s \in Accounts, t \in 0 .. MaxTime : PaymentChannel_extend(s, t)
  <2>1. PICK t \in 0 .. MaxTime : \E s \in Accounts : PaymentChannel_extend(s, t)
    BY <1>8
  <2>2. channel'.expiration = t /\ t \in Int
    BY <1>1, <2>1 DEF PaymentChannel_extend, ChannelType
  <2> QED BY <1>1, <1>3, <2>1, <2>2
<1> QED BY <1>1, <1>2, <1>4, <1>5, <1>7, <1>8

----------------------------------------------------------------------------
(* The blind auction.                                                      *)

\* What is summed to the deposits of some bids.
Unrevealed(bids) ==
  [i \in DOMAIN bids |-> IF bids[i].blindedBid = Revealed THEN 0 ELSE bids[i].deposit]

LEMMA UnrevealedType ==
  ASSUME NEW bids \in Seq(Bids)
  PROVE  /\ IsFiniteSet(1 .. Len(bids)) /\ DOMAIN bids = 1 .. Len(bids) /\ Len(bids) \in Nat
         /\ Unrevealed(bids) \in [1 .. Len(bids) -> Nat]
         /\ Deposits(bids) = SumFunction(Unrevealed(bids)) /\ Deposits(bids) \in Nat
<1>1. DOMAIN bids = 1 .. Len(bids) /\ Len(bids) \in Nat
      /\ \A i \in 1 .. Len(bids) : bids[i] \in Bids
  OBVIOUS
<1>2. IsFiniteSet(1 .. Len(bids))
  BY <1>1, FS_Interval
<1>3. Unrevealed(bids) \in [1 .. Len(bids) -> Nat]
  BY <1>1 DEF Unrevealed, Bids
<1>4. Deposits(bids) = SumFunction(Unrevealed(bids))
  BY DEF Deposits, Unrevealed
<1> QED BY <1>1, <1>2, <1>3, <1>4, SumType

\* A bid that is placed adds its deposit.
LEMMA DepositsPlaced ==
  ASSUME NEW bids \in Seq(Bids), NEW bid \in Bids, bid.blindedBid # Revealed
  PROVE  /\ Append(bids, bid) \in Seq(Bids)
         /\ Deposits(Append(bids, bid)) = Deposits(bids) + bid.deposit
<1> DEFINE more == Append(bids, bid)
           n    == Len(bids) + 1
<1>1. more \in Seq(Bids) /\ Len(more) = n /\ n \in Nat /\ more[n] = bid
      /\ \A i \in 1 .. Len(bids) : more[i] = bids[i]
  OBVIOUS
<1>2. n \in 1 .. n /\ \A i \in 1 .. Len(bids) : i \in 1 .. n
  OBVIOUS
<1> HIDE DEF more, n
<1>3. Unrevealed(more) \in [1 .. n -> Int] /\ Unrevealed(bids) \in [1 .. Len(bids) -> Int]
  <2>1. Unrevealed(more) \in [1 .. n -> Nat] /\ Unrevealed(bids) \in [1 .. Len(bids) -> Nat]
    BY <1>1, UnrevealedType
  <2>2. \A S, f : f \in [S -> Nat] => f \in [S -> Int]
    OBVIOUS
  <2> QED BY <2>1, <2>2, Zenon
<1>4. Unrevealed(more)[n] = bid.deposit
      /\ \A i \in 1 .. Len(bids) : Unrevealed(more)[i] = Unrevealed(bids)[i]
  <2>1. DOMAIN more = 1 .. n /\ DOMAIN bids = 1 .. Len(bids)
    BY <1>1, UnrevealedType
  <2> QED BY <1>1, <1>2, <2>1 DEF Unrevealed
<1>5. SumFunction(Unrevealed(more)) = SumFunction(Unrevealed(bids)) + bid.deposit
  <2> DEFINE f == Unrevealed(bids)
             h == Unrevealed(more)
             S == 1 .. Len(bids)
  <2>1. IsFiniteSet(S) /\ n \notin S
    BY UnrevealedType DEF n
  <2>2. DOMAIN f = S /\ DOMAIN h = S \cup {n} /\ h[n] \in Int
    <3>1. 1 .. n = S \cup {n}
      BY UnrevealedType DEF n
    <3> QED BY <1>2, <1>3, <3>1
  <2>3. \A i \in S : f[i] \in Int /\ h[i] = f[i]
    BY <1>3, <1>4
  <2>4. h[n] = bid.deposit
    BY <1>4
  <2> HIDE DEF f, h, S
  <2>5. Grown(S, n, f, h)
    BY <2>1, <2>2, <2>3 DEF Grown
  <2>6. SumFunction(h) = SumFunction(f) + h[n]
    BY <2>5, SumExtends
  <2> QED BY <2>4, <2>6 DEF f, h
<1> QED BY <1>1, <1>5, UnrevealedType DEF more

\* A bid that is revealed takes its deposit away.
LEMMA DepositsCleared ==
  ASSUME NEW bids \in Seq(Bids), NEW i \in 1 .. Len(bids), bids[i].blindedBid # Revealed
  PROVE  LET cleared == [bids EXCEPT ![i].blindedBid = Revealed]
         IN /\ cleared \in Seq(Bids) /\ Len(cleared) = Len(bids)
            /\ Deposits(cleared) = Deposits(bids) - bids[i].deposit
<1> DEFINE cleared == [bids EXCEPT ![i].blindedBid = Revealed]
<1>1. bids[i] \in Bids /\ bids[i].deposit \in Nat
  <2>1. bids[i] \in Bids
    OBVIOUS
  <2> QED BY <2>1 DEF Bids
<1>2. [bids[i] EXCEPT !.blindedBid = Revealed] \in Bids
  BY <1>1 DEF Bids
<1>3. cleared = [bids EXCEPT ![i] = [bids[i] EXCEPT !.blindedBid = Revealed]]
  OBVIOUS
<1>4. cleared \in Seq(Bids) /\ Len(cleared) = Len(bids)
      /\ cleared[i].blindedBid = Revealed
      /\ \A j \in 1 .. Len(bids) : j # i => cleared[j] = bids[j]
  BY <1>1, <1>2, <1>3 DEF Bids
<1> HIDE DEF cleared
<1>5. Unrevealed(cleared) \in [1 .. Len(bids) -> Int] /\ Unrevealed(bids) \in [1 .. Len(bids) -> Int]
      /\ IsFiniteSet(1 .. Len(bids))
  BY <1>4, UnrevealedType
<1>6. Unrevealed(cleared)[i] = 0 /\ Unrevealed(bids)[i] = bids[i].deposit
      /\ \A j \in (1 .. Len(bids)) \ {i} : Unrevealed(cleared)[j] = Unrevealed(bids)[j]
  <2>1. DOMAIN cleared = 1 .. Len(bids) /\ DOMAIN bids = 1 .. Len(bids)
    BY <1>4, UnrevealedType
  <2> QED BY <1>4, <2>1 DEF Unrevealed
<1> DEFINE f == Unrevealed(bids)
           h == Unrevealed(cleared)
<1> HIDE DEF f, h
<1>7. SumFunction(f) \in Int /\ SumFunction(h) = SumFunction(f) + h[i] - f[i]
  BY <1>5, <1>6, SumSplit DEF f, h
<1>8. SumFunction(h) = SumFunction(f) - bids[i].deposit
  BY <1>1, <1>6, <1>7 DEF f, h
<1> QED BY <1>4, <1>8, UnrevealedType DEF cleared, f, h

LEMMA OwedType ==
  ASSUME NEW b \in BlindType, NEW a \in Accounts
  PROVE  /\ b.bids[a] \in Seq(Bids) /\ Deposits(b.bids[a]) \in Nat /\ b.pendingReturns[a] \in Nat
         /\ b.highestBid \in Nat /\ Owed(b, a) \in Nat
<1>1. b.bids[a] \in Seq(Bids) /\ b.pendingReturns[a] \in Nat /\ b.highestBid \in Nat
  BY DEF BlindType
<1>2. Deposits(b.bids[a]) \in Nat
  BY <1>1, UnrevealedType
<1> QED BY <1>1, <1>2 DEF Owed

\* A bid that becomes the highest adds its value to what its bidder is owed;
\* the one it outbids is owed as much as before.
LEMMA PlaceBidOwes ==
  ASSUME NEW b \in BlindType, NEW s \in Accounts, NEW v \in Nat
  PROVE  LET p == placeBid(b, s, v)
         IN /\ p \in BlindType /\ p.bids = b.bids
            /\ v <= b.highestBid => p = b
            /\ v > b.highestBid => p.highestBid = v
            /\ v > b.highestBid =>
                 \A a \in Accounts : Owed(p, a) = Owed(b, a) + IF a = s THEN v ELSE 0
<1> DEFINE p == placeBid(b, s, v)
<1>1. b.highestBid \in Nat /\ b.highestBidder \in Accounts \cup {NoOne}
      /\ b.pendingReturns \in [Accounts -> Nat] /\ NoOne \notin Accounts
  BY LedgerAssumption DEF BlindType
<1>2. CASE v <= b.highestBid
  <2>1. p = b
    BY <1>2, Zenon DEF placeBid
  <2> QED BY <1>1, <1>2, <2>1
<1>3. CASE v > b.highestBid
  <2> DEFINE returns == Refunded(b)
  <2>1. /\ returns \in [Accounts -> Nat]
        /\ \A a \in Accounts : returns[a] = b.pendingReturns[a]
                                   + IF a = b.highestBidder THEN b.highestBid ELSE 0
    BY <1>1 DEF Refunded
  <2>2. p = [b EXCEPT !.pendingReturns = returns, !.highestBid = v, !.highestBidder = s]
    <3>1. ~(v <= b.highestBid)
      BY <1>1, <1>3
    <3> QED BY <3>1, Zenon DEF placeBid
  <2> HIDE DEF returns, p
  <2>3. p.bids = b.bids /\ p.highestBid = v /\ p.highestBidder = s /\ p.pendingReturns = returns
    BY <2>2 DEF BlindType
  <2>4. p \in BlindType
    BY <2>1, <2>2 DEF BlindType
  <2>5. ASSUME NEW a \in Accounts PROVE Owed(p, a) = Owed(b, a) + IF a = s THEN v ELSE 0
    <3>1. Deposits(b.bids[a]) \in Nat /\ b.pendingReturns[a] \in Nat
      BY OwedType
    <3>2. returns[a] = b.pendingReturns[a] + IF a = b.highestBidder THEN b.highestBid ELSE 0
      BY <2>1
    <3> QED BY <1>1, <2>3, <3>1, <3>2 DEF Owed
  <2> QED BY <1>1, <1>3, <2>3, <2>4, <2>5 DEF p
<1> QED BY <1>1, <1>2, <1>3

Cleared(b, s, i) == [b EXCEPT !.bids[s][i].blindedBid = Revealed]

\* Clearing a bid takes its deposit off what its bidder is owed.
LEMMA ClearedOwes ==
  ASSUME NEW b \in BlindType, NEW s \in Accounts, NEW i \in 1 .. Len(b.bids[s]),
         b.bids[s][i].blindedBid # Revealed
  PROVE  /\ Cleared(b, s, i) \in BlindType
         /\ Len(Cleared(b, s, i).bids[s]) = Len(b.bids[s])
         /\ Cleared(b, s, i).highestBid = b.highestBid
         /\ b.bids[s][i].deposit \in Nat /\ b.bids[s][i].blindedBid \in Hidden
         /\ \A a \in Accounts :
              Owed(b, a) = Owed(Cleared(b, s, i), a)
                             + IF a = s THEN b.bids[s][i].deposit ELSE 0
<1> DEFINE bids    == b.bids[s]
           less    == [bids EXCEPT ![i].blindedBid = Revealed]
           cleared == Cleared(b, s, i)
<1>1. bids \in Seq(Bids) /\ b.bids \in [Accounts -> Seq(Bids)]
  BY DEF BlindType
<1>2. bids[i] \in Bids /\ bids[i].blindedBid # Revealed
  BY <1>1
<1>3. less \in Seq(Bids) /\ Len(less) = Len(bids) /\ Deposits(less) = Deposits(bids) - bids[i].deposit
  BY <1>1, <1>2, DepositsCleared
<1>4. cleared = [b EXCEPT !.bids = [b.bids EXCEPT ![s] = less]]
  BY DEF Cleared
<1> HIDE DEF less, cleared
<1>5. /\ cleared \in BlindType /\ cleared.bids = [b.bids EXCEPT ![s] = less]
      /\ cleared.highestBid = b.highestBid /\ cleared.highestBidder = b.highestBidder
      /\ cleared.pendingReturns = b.pendingReturns
  BY <1>1, <1>3, <1>4 DEF BlindType
<1>6. bids[i].deposit \in Nat /\ bids[i].blindedBid \in Hidden
  BY <1>2 DEF Bids
<1>7. ASSUME NEW a \in Accounts
      PROVE  Owed(b, a) = Owed(cleared, a) + IF a = s THEN bids[i].deposit ELSE 0
  <2>1. cleared.bids[a] = IF a = s THEN less ELSE b.bids[a]
    BY <1>1, <1>5
  <2>2. Deposits(b.bids[a]) \in Nat /\ b.pendingReturns[a] \in Nat /\ b.highestBid \in Nat
    BY OwedType
  <2>3. Owed(cleared, a) = Deposits(cleared.bids[a]) + b.pendingReturns[a]
                             + (IF a = b.highestBidder THEN b.highestBid ELSE 0)
    BY <1>5 DEF Owed
  <2>4. Deposits(b.bids[a])
          = Deposits(cleared.bids[a]) + IF a = s THEN bids[i].deposit ELSE 0
    <3>1. CASE a = s
      <4>1. Deposits(b.bids[a]) \in Nat /\ Deposits(cleared.bids[a]) = Deposits(less)
            /\ b.bids[a] = bids
        BY <2>1, <2>2, <3>1
      <4> QED BY <1>3, <1>6, <3>1, <4>1
    <3>2. CASE a # s
      BY <2>1, <2>2, <3>2
    <3> QED BY <3>1, <3>2
  <2>5. Deposits(cleared.bids[a]) \in Nat
    BY <1>5, OwedType
  <2> HIDE DEF bids
  <2> QED BY <1>6, <2>2, <2>3, <2>4, <2>5, SMTT(30) DEF Owed
<1>8. Len(cleared.bids[s]) = Len(bids)
  BY <1>1, <1>3, <1>5
<1> QED BY <1>5, <1>6, <1>7, <1>8 DEF cleared

\* What reveal's loop leaves unchanged, if it started with b and has come to x:
\* the refund and what is owed to all together.
Settled(x, b, s) ==
  /\ x.b \in BlindType /\ x.refund \in Nat /\ Len(x.b.bids[s]) = Len(b.bids[s])
  /\ \A a \in Accounts : Owed(x.b, a) + (IF a = s THEN x.refund ELSE 0) = Owed(b, a)

LEMMA TurnSettles ==
  ASSUME NEW b \in BlindType, NEW s \in Accounts, NEW x, Settled(x, b, s),
         NEW i \in 1 .. Len(b.bids[s]), NEW right
  PROVE  Settled(Turn(x, s, i, right), b, s)
<1> DEFINE c       == x.b
           bid     == c.bids[s][i]
           cleared == Cleared(c, s, i)
           next    == AfterReveal(c, s, i)
           value   == bid.blindedBid.value
<1>1. c \in BlindType /\ i \in 1 .. Len(c.bids[s]) /\ x.refund \in Nat
  BY DEF Settled
<1>2. CASE i \notin right \/ bid.blindedBid = Revealed
  <2>1. Turn(x, s, i, right) = x
    BY <1>2 DEF Turn
  <2> QED BY <2>1
<1>3. CASE i \in right /\ bid.blindedBid # Revealed
  <2>1. /\ cleared \in BlindType /\ Len(cleared.bids[s]) = Len(c.bids[s])
        /\ cleared.highestBid = c.highestBid
        /\ bid.deposit \in Nat /\ bid.blindedBid \in Hidden
        /\ \A a \in Accounts : Owed(c, a) = Owed(cleared, a) + IF a = s THEN bid.deposit ELSE 0
    BY <1>1, <1>3, ClearedOwes, ZenonT(60)
  <2>2. value \in Nat /\ c.highestBid \in Nat
    BY <1>1, <2>1, OwedType DEF Hidden
  <2>3. Turn(x, s, i, right) =
          [b |-> next,
           refund |-> x.refund + bid.deposit
             - IF next.highestBid # c.highestBid THEN next.highestBid ELSE 0]
    BY <1>3 DEF Turn
  <2>4. next = IF bid.blindedBid.fake \/ bid.deposit < value THEN cleared
               ELSE placeBid(cleared, s, value)
    BY DEF AfterReveal, Cleared
  <2> DEFINE y == Turn(x, s, i, right)
  <2> HIDE DEF cleared, next, value, y
  <2>5. CASE next = cleared
    <3>1. y.b = cleared /\ y.refund = x.refund + bid.deposit
      BY <1>1, <2>1, <2>3, <2>5 DEF y
    <3>2. \A a \in Accounts : Owed(cleared, a) \in Nat
      BY <2>1, OwedType
    <3>3. \A a \in Accounts : Owed(c, a) + (IF a = s THEN x.refund ELSE 0) = Owed(b, a)
      BY DEF Settled
    <3>4. Len(cleared.bids[s]) = Len(b.bids[s])
      BY <2>1 DEF Settled
    <3>5. ASSUME NEW a \in Accounts
          PROVE  Owed(cleared, a) + (IF a = s THEN y.refund ELSE 0) = Owed(b, a)
      <4> DEFINE owed == Owed(cleared, a)
                 owes == Owed(c, a)
                 all  == Owed(b, a)
      <4>1. owed \in Nat /\ owes = owed + (IF a = s THEN bid.deposit ELSE 0)
            /\ owes + (IF a = s THEN x.refund ELSE 0) = all
        BY <2>1, <3>2, <3>3
      <4> DEFINE before == x.refund
                 put    == bid.deposit
                 after  == y.refund
      <4>2. before \in Nat /\ put \in Nat /\ after = before + put
        <5>1. before \in Nat
          BY <1>1
        <5>2. put \in Nat
          BY <2>1
        <5>3. after = before + put
          BY <3>1
        <5> QED BY <5>1, <5>2, <5>3
      <4>3. owed \in Nat /\ owes = owed + (IF a = s THEN put ELSE 0)
            /\ owes + (IF a = s THEN before ELSE 0) = all
        BY <4>1
      <4> HIDE DEF owed, owes, all, before, put, after
      <4>4. owed + (IF a = s THEN after ELSE 0) = all
        BY <4>2, <4>3
      <4> QED BY <4>4 DEF owed, all, after
    <3>6. y.refund \in Nat
      BY <1>1, <2>1, <3>1
    <3> QED BY <2>1, <3>1, <3>4, <3>5, <3>6 DEF Settled, y
  <2>6. CASE next # cleared
    <3>1. ~(bid.deposit < value) /\ next = placeBid(cleared, s, value)
      BY <2>4, <2>6
    <3>2. /\ next \in BlindType /\ next.bids = cleared.bids
          /\ next.highestBid = value /\ value > c.highestBid
          /\ \A a \in Accounts : Owed(next, a) = Owed(cleared, a) + IF a = s THEN value ELSE 0
      <4>1. next \in BlindType /\ next.bids = cleared.bids /\ ~(value <= cleared.highestBid)
        BY <2>1, <2>2, <2>6, <3>1, PlaceBidOwes, Zenon
      <4>2. value > cleared.highestBid
        BY <2>1, <2>2, <4>1
      <4>3. /\ next.highestBid = value
            /\ \A a \in Accounts : Owed(next, a) = Owed(cleared, a) + IF a = s THEN value ELSE 0
        BY <2>1, <2>2, <3>1, <4>2, PlaceBidOwes, ZenonT(40)
      <4> QED BY <2>1, <4>1, <4>2, <4>3
    <3>3. y.b = next /\ y.refund = x.refund + bid.deposit - value
      BY <1>1, <2>1, <2>2, <2>3, <3>2 DEF y
    <3> DEFINE d == bid.deposit
               r == x.refund
               n == y.refund
    <3>0. d \in Nat /\ r \in Nat /\ value \in Nat /\ ~(d < value) /\ n = r + d - value
      BY <1>1, <2>1, <2>2, <3>1, <3>3
    <3>4. n \in Nat
      <4> HIDE DEF d, r, n
      <4> QED BY <3>0
    <3>5. ASSUME NEW a \in Accounts
          PROVE  Owed(next, a) + (IF a = s THEN y.refund ELSE 0) = Owed(b, a)
      <4> DEFINE owed  == Owed(cleared, a)
                 owes  == Owed(c, a)
                 all   == Owed(b, a)
                 after == Owed(next, a)
      <4>1. owed \in Nat /\ owes = owed + (IF a = s THEN d ELSE 0)
            /\ owes + (IF a = s THEN r ELSE 0) = all
            /\ after = owed + IF a = s THEN value ELSE 0
        BY <2>1, <3>2, OwedType DEF Settled
      <4> HIDE DEF owed, owes, all, after, d, r, n
      <4>2. after + (IF a = s THEN n ELSE 0) = all
        BY <3>0, <4>1
      <4> QED BY <4>2 DEF after, all, n
    <3>6. Len(next.bids[s]) = Len(b.bids[s])
      BY <2>1, <3>2 DEF Settled
    <3> QED BY <3>2, <3>3, <3>4, <3>5, <3>6 DEF Settled, y
  <2> QED BY <2>5, <2>6
<1> QED BY <1>2, <1>3

\* reveal pays its caller what it takes off what the caller is owed.
LEMMA RevealSettles ==
  ASSUME NEW s \in Accounts, NEW right, blind \in BlindType
  PROVE  Settled(RevealLoop(s, right), blind, s)
<1> DEFINE N     == Len(blind.bids[s])
           start == [b |-> blind, refund |-> 0]
           X     == {x \in [b : BlindType, refund : Nat] : Settled(x, blind, s)}
           Counts(t) == t = [i \in 0 .. N |-> IF i = 0 THEN start
                                               ELSE Turn(t[i - 1], s, i, right)]
           turn  == CHOOSE t : Counts(t)
<1>1. N \in Nat
  BY OwedType
<1>2. start \in X
  <2>1. start.b = blind /\ start.refund = 0 /\ start \in [b : BlindType, refund : Nat]
    OBVIOUS
  <2>2. \A a \in Accounts : Owed(blind, a) \in Nat
    BY OwedType
  <2> HIDE DEF start
  <2>3. Settled(start, blind, s)
    BY <2>1, <2>2 DEF Settled
  <2> QED BY <2>1, <2>3
<1>3. ASSUME NEW x \in X, NEW i \in 1 .. N PROVE Turn(x, s, i, right) \in X
  <2>1. Settled(Turn(x, s, i, right), blind, s)
    BY TurnSettles
  <2>2. Turn(x, s, i, right) = x \/
          \E c, n : Turn(x, s, i, right) = [b |-> c, refund |-> n]
    BY DEF Turn
  <2>3. CASE Turn(x, s, i, right) = x
    BY <2>3
  <2>4. CASE \E c, n : Turn(x, s, i, right) = [b |-> c, refund |-> n]
    <3>1. PICK c, n : Turn(x, s, i, right) = [b |-> c, refund |-> n]
      BY <2>4
    <3>2. c \in BlindType /\ n \in Nat
      BY <2>1, <3>1 DEF Settled
    <3> QED BY <2>1, <3>1, <3>2
  <2> QED BY <2>2, <2>3, <2>4
<1> HIDE DEF X, start, N
<1>4. \E t : Counts(t)
  <2> DEFINE R == [p \in X \X (1 .. N) |-> Turn(p[1], s, p[2], right)]
  <2>1. R \in [X \X (1 .. N) -> X]
        /\ \A x \in X, i \in 1 .. N : R[<<x, i>>] = Turn(x, s, i, right)
    BY <1>3
  <2> HIDE DEF R
  <2>2. PICK g \in [0 .. N -> X] : Iterates(g, start, N, R)
    BY <1>1, <1>2, <2>1, IteratesExist
  <2>3. ASSUME NEW i \in 0 .. N
        PROVE  g[i] = IF i = 0 THEN start ELSE Turn(g[i - 1], s, i, right)
    <3>1. CASE i = 0
      BY <2>2, <3>1 DEF Iterates
    <3>2. CASE i # 0
      <4>1. i \in 1 .. N /\ i - 1 \in 0 .. N
        BY <1>1, <3>2
      <4>2. g[i] = R[<<g[i - 1], i>>] /\ g[i - 1] \in X
        BY <2>2, <4>1 DEF Iterates
      <4> QED BY <2>1, <3>2, <4>1, <4>2
    <3> QED BY <3>1, <3>2
  <2>4. g = [i \in 0 .. N |-> IF i = 0 THEN start ELSE Turn(g[i - 1], s, i, right)]
    BY <2>3
  <2> QED BY <2>4
<1>5. Counts(turn)
  BY <1>4
<1>6. RevealLoop(s, right) = turn[N]
  BY DEF RevealLoop, N, start
<1> HIDE DEF turn
<1>7. turn[0] = start /\ \A i \in 1 .. N : turn[i] = Turn(turn[i - 1], s, i, right)
  <2>1. 0 \in 0 .. N /\ \A i \in 1 .. N : i \in 0 .. N /\ i # 0
    BY <1>1
  <2> QED BY <1>5, <2>1
<1> DEFINE Good == {n \in Nat : n <= N => turn[n] \in X}
<1>8. 0 \in Good
  BY <1>2, <1>7
<1>9. ASSUME NEW n \in Nat, n \in Good PROVE n + 1 \in Good
  <2> SUFFICES ASSUME n + 1 <= N PROVE turn[n + 1] \in X
    OBVIOUS
  <2>1. turn[n] \in X /\ n + 1 \in 1 .. N /\ n + 1 - 1 = n
    BY <1>1, <1>9
  <2> QED BY <1>3, <1>7, <2>1
<1> HIDE DEF Good
<1>10. Nat \subseteq Good
  BY <1>8, <1>9, NumbersInduct
<1>11. turn[N] \in X
  BY <1>1, <1>10 DEF Good
<1> QED BY <1>6, <1>11 DEF X

\* BlindBidsReturnable with what is owed: has are the stakes in auction b.
Balanced(b, has) ==
  \A a \in Accounts :
    has[a] = Owed(b, a) - (IF a = b.beneficiary /\ b.ended THEN b.highestBid ELSE 0)

LEMMA BlindBalanced ==
  ASSUME BlindInv, blind.exists
  PROVE  /\ Balanced(blind, stake["BlindAuction"])
         /\ blind.ended => blind.revealEnd < now
         /\ \A a \in Accounts : stake["BlindAuction"][a] \in Int
<1>1. BlindBidsReturnable /\ Numbers("BlindAuction") /\ (blind.ended => blind.revealEnd < now)
  BY DEF BlindInv
<1>2. ASSUME NEW a \in Accounts
      PROVE  stake["BlindAuction"][a] =
               Owed(blind, a) - (IF a = blind.beneficiary /\ blind.ended THEN blind.highestBid ELSE 0)
  <2> DEFINE own  == Deposits(blind.bids[a])
             rest == blind.pendingReturns[a]
             high == IF a = blind.highestBidder THEN blind.highestBid ELSE 0
             paid == IF a = blind.beneficiary /\ blind.ended THEN blind.highestBid ELSE 0
             has  == stake["BlindAuction"][a]
  <2>1. has = own + rest + high - paid
    BY <1>1 DEF BlindBidsReturnable
  <2>2. Owed(blind, a) = own + rest + high
    BY DEF Owed
  <2>3. own \in Nat /\ rest \in Nat /\ high \in Nat /\ paid \in Nat
    BY BlindTyped, OwedType
  <2> HIDE DEF own, rest, high, paid, has
  <2>4. has = Owed(blind, a) - paid
    BY <2>1, <2>2, <2>3
  <2> QED BY <2>4 DEF has, paid
<1> QED BY <1>1, <1>2 DEF Numbers, Balanced

LEMMA BlindKept ==
  ASSUME blind' \in BlindType, Numbers("BlindAuction")', Balanced(blind', stake'["BlindAuction"]),
         blind'.ended => blind'.revealEnd < now'
  PROVE  BlindInv'
<1>1. blind'.exists
  BY DEF BlindType
<1>2. BlindBidsReturnable'
  <2> SUFFICES ASSUME NEW a \in Accounts
               PROVE  stake'["BlindAuction"][a] =
                        Deposits(blind'.bids[a]) + blind'.pendingReturns[a]
                          + (IF a = blind'.highestBidder THEN blind'.highestBid ELSE 0)
                          - (IF a = blind'.beneficiary /\ blind'.ended THEN blind'.highestBid
                             ELSE 0)
    BY Zenon DEF BlindBidsReturnable, Deposits
  <2> DEFINE own  == Deposits(blind'.bids[a])
             rest == blind'.pendingReturns[a]
             high == IF a = blind'.highestBidder THEN blind'.highestBid ELSE 0
             paid == IF a = blind'.beneficiary /\ blind'.ended THEN blind'.highestBid ELSE 0
             has  == stake'["BlindAuction"][a]
  <2>1. has = Owed(blind', a) - paid
    BY DEF Balanced
  <2>2. Owed(blind', a) = own + rest + high
    BY DEF Owed
  <2>3. own \in Nat /\ rest \in Nat /\ high \in Nat /\ paid \in Nat
    BY OwedType
  <2> HIDE DEF own, rest, high, paid, has
  <2>4. has = own + rest + high - paid
    BY <2>1, <2>2, <2>3
  <2> QED BY <2>4 DEF own, rest, high, paid, has
<1> QED BY <1>1, <1>2 DEF BlindInv, BlindType

LEMMA BlindOpensKeeps ==
  ASSUME Shape, BlindInv, NEW s, NEW t \in Nat, NEW r \in Nat, NEW to \in Accounts,
         BlindAuction_constructor(s, t, r, to)
  PROVE  BlindInv'
<1>1. blind' = [exists |-> TRUE, beneficiary |-> to, biddingEnd |-> now + t,
                revealEnd |-> now + t + r, ended |-> FALSE,
                bids |-> [a \in Accounts |-> <<>>], highestBidder |-> NoOne,
                highestBid |-> 0, pendingReturns |-> [a \in Accounts |-> 0]]
      /\ hbar' = hbar /\ stake' = stake /\ ~blind.exists
  BY DEF BlindAuction_constructor, NoPayment
<1>2. blind' \in BlindType /\ ~blind'.ended
  <2>1. now \in Nat /\ <<>> \in Seq(Bids)
    BY DEF Shape
  <2> QED BY <1>1, <2>1 DEF BlindType
<1>3. ASSUME NEW a \in Accounts PROVE Owed(blind', a) = 0
  <2>1. blind'.bids[a] = <<>> /\ blind'.pendingReturns[a] = 0 /\ blind'.highestBid = 0
    BY <1>1
  <2>2. Deposits(<<>>) = 0
    <3> DEFINE e == [i \in DOMAIN <<>> |-> IF <<>>[i].blindedBid = Revealed THEN 0
                                           ELSE <<>>[i].deposit]
    <3>1. e = [i \in {} |-> 0]
      OBVIOUS
    <3>2. SumFunction([i \in {} |-> 0]) = 0
      BY FS_EmptySet, SumOfZeros
    <3>3. Deposits(<<>>) = SumFunction(e)
      BY DEF Deposits
    <3> QED BY <3>1, <3>2, <3>3
  <2> QED BY <2>1, <2>2 DEF Owed
<1>4. Balanced(blind', stake'["BlindAuction"])
  <2>1. \A a \in Accounts : stake["BlindAuction"][a] = 0
    BY <1>1 DEF BlindInv
  <2>2. \A a \in Accounts : stake'["BlindAuction"][a] = 0 /\ Owed(blind', a) = 0
    BY <1>1, <1>3, <2>1
  <2> QED BY <1>2, <2>2 DEF Balanced
<1>5. Numbers("BlindAuction")'
  BY <1>1 DEF BlindInv, Numbers
<1> QED BY <1>2, <1>4, <1>5, BlindKept

LEMMA BlindBidKeeps ==
  ASSUME Shape, BlindInv, NEW s \in Accounts, NEW hidden \in Hidden \ {Revealed},
         NEW v \in Nat, BlindAuction_bid(s, hidden, v)
  PROVE  BlindInv'
<1> DEFINE c    == "BlindAuction"
           bid  == [blindedBid |-> hidden, deposit |-> v]
           more == Append(blind.bids[s], bid)
<1>1. c \in Contracts /\ Numbers(c)
  BY DEF Contracts, BlindInv
<1>2. blind.exists /\ TakeIn(c, s, v) /\ now' = now
      /\ blind' = [blind EXCEPT !.bids = [blind.bids EXCEPT ![s] = more]]
  BY DEF BlindAuction_bid, chain
<1>3. blind \in BlindType /\ blind.bids \in [Accounts -> Seq(Bids)]
  BY <1>2, BlindTyped
<1>4. more \in Seq(Bids) /\ Deposits(more) = Deposits(blind.bids[s]) + v
  <2>1. bid \in Bids /\ bid.blindedBid # Revealed /\ bid.deposit = v
    BY DEF Bids
  <2>2. blind.bids[s] \in Seq(Bids)
    BY <1>3
  <2> HIDE DEF bid
  <2> QED BY <2>1, <2>2, DepositsPlaced
<1> HIDE DEF more
<1>5. /\ blind' \in BlindType /\ blind'.bids = [blind.bids EXCEPT ![s] = more]
      /\ blind'.highestBid = blind.highestBid /\ blind'.highestBidder = blind.highestBidder
      /\ blind'.pendingReturns = blind.pendingReturns /\ blind'.ended = blind.ended
      /\ blind'.beneficiary = blind.beneficiary /\ blind'.revealEnd = blind.revealEnd
  BY <1>2, <1>3, <1>4 DEF BlindType
<1>6. \A a \in Accounts : stake'[c][a] = stake[c][a] + IF a = s THEN v ELSE 0
  <2>1. stake'[c] = [stake[c] EXCEPT ![s] = @ + v] /\ DOMAIN stake[c] = Accounts
    BY <1>1, <1>2, TakeInBooked DEF Booked, Shape
  <2> QED BY <1>1, <2>1 DEF Numbers
<1>7. ASSUME NEW a \in Accounts
      PROVE  Owed(blind', a) = Owed(blind, a) + IF a = s THEN v ELSE 0
  <2> DEFINE own  == Deposits(blind.bids[a])
             owns == Deposits(blind'.bids[a])
             rest == blind.pendingReturns[a]
             high == IF a = blind.highestBidder THEN blind.highestBid ELSE 0
  <2>1. a = s => blind'.bids[a] = more
    BY <1>3, <1>5
  <2>2. a # s => blind'.bids[a] = blind.bids[a]
    BY <1>3, <1>5
  <2>3. (a = s => owns = own + v) /\ (a # s => owns = own)
    BY <1>4, <2>1, <2>2
  <2>4. own \in Nat /\ rest \in Nat /\ high \in Nat
    BY <1>3, OwedType
  <2>5. Owed(blind, a) = own + rest + high /\ Owed(blind', a) = owns + rest + high
    BY <1>5 DEF Owed
  <2> HIDE DEF own, owns, rest, high
  <2> QED BY <2>3, <2>4, <2>5
<1>8. Balanced(blind', stake'[c])
  <2> SUFFICES ASSUME NEW a \in Accounts
               PROVE  stake'[c][a] = Owed(blind', a)
                        - (IF a = blind'.beneficiary /\ blind'.ended THEN blind'.highestBid ELSE 0)
    BY DEF Balanced
  <2>1. stake[c][a] = Owed(blind, a)
                        - (IF a = blind.beneficiary /\ blind.ended THEN blind.highestBid ELSE 0)
    BY <1>2, BlindBalanced DEF Balanced
  <2>2. Owed(blind, a) \in Nat /\ blind.highestBid \in Nat
    BY <1>3, OwedType
  <2> QED BY <1>5, <1>6, <1>7, <2>1, <2>2
<1>9. Numbers(c)'
  BY <1>1, <1>2, TakeInNumbers
<1>10. blind'.ended => blind'.revealEnd < now'
  BY <1>2, <1>5, BlindBalanced
<1> QED BY <1>5, <1>8, <1>9, <1>10, BlindKept

\* An auction in which bids are still revealed has not ended.
LEMMA RevealKeeps ==
  ASSUME Shape, BlindInv, NEW s \in Accounts, NEW right, BlindAuction_reveal(s, right)
  PROVE  BlindInv'
<1> DEFINE c   == "BlindAuction"
           end == RevealLoop(s, right)
           e   == end.b
           n   == end.refund
<1>1. c \in Contracts /\ Numbers(c)
  BY DEF Contracts, BlindInv
<1>2. blind.exists /\ now < blind.revealEnd /\ PayOut(c, s, n) /\ now' = now
      /\ blind' = [blind EXCEPT !.bids = e.bids, !.highestBid = e.highestBid,
                                !.highestBidder = e.highestBidder,
                                !.pendingReturns = e.pendingReturns]
  BY DEF BlindAuction_reveal, chain
<1>3. blind \in BlindType /\ blind.revealEnd \in Nat /\ now \in Nat
  BY <1>2, BlindTyped DEF Shape
<1>4. ~blind.ended
  BY <1>2, <1>3, BlindBalanced
<1>5. Settled(end, blind, s)
  BY <1>3, RevealSettles
<1>6. /\ e \in BlindType /\ n \in Nat
      /\ \A a \in Accounts : Owed(e, a) + (IF a = s THEN n ELSE 0) = Owed(blind, a)
  BY <1>5 DEF Settled
<1> HIDE DEF e, n
<1>7. /\ blind' \in BlindType /\ ~blind'.ended
      /\ \A a \in Accounts : Owed(blind', a) = Owed(e, a)
  <2>1. /\ blind' \in BlindType /\ ~blind'.ended
    BY <1>2, <1>3, <1>4, <1>6 DEF BlindType
  <2>2. /\ blind'.bids = e.bids /\ blind'.highestBid = e.highestBid
        /\ blind'.highestBidder = e.highestBidder /\ blind'.pendingReturns = e.pendingReturns
    BY <1>2, <1>3 DEF BlindType
  <2>3. \A a \in Accounts : Owed(blind', a) = Owed(e, a)
    BY <2>2 DEF Owed
  <2> QED BY <2>1, <2>3
<1>8. \A a \in Accounts : stake'[c][a] = stake[c][a] - IF a = s THEN n ELSE 0
  <2>1. stake'[c] = [stake[c] EXCEPT ![s] = @ - n] /\ DOMAIN stake[c] = Accounts
    BY <1>1, <1>2, PayOutBooked DEF Shape
  <2> QED BY <1>1, <2>1 DEF Numbers
<1>9. Balanced(blind', stake'[c])
  <2> SUFFICES ASSUME NEW a \in Accounts PROVE stake'[c][a] = Owed(blind', a)
    <3>1. \A a \in Accounts : Owed(blind', a) \in Nat
      BY <1>7, OwedType
    <3> QED BY <1>7, <3>1 DEF Balanced
  <2>1. stake[c][a] = Owed(blind, a) /\ Owed(blind, a) \in Nat
    <3>1. Owed(blind, a) \in Nat
      BY <1>3, OwedType
    <3> QED BY <1>2, <1>4, <3>1, BlindBalanced DEF Balanced
  <2>2. Owed(e, a) \in Nat
    BY <1>6, OwedType
  <2> QED BY <1>6, <1>7, <1>8, <2>1, <2>2
<1>10. Numbers(c)'
  BY <1>1, <1>2, <1>6, PayOutNumbers
<1> QED BY <1>7, <1>9, <1>10, BlindKept

LEMMA BlindWithdrawKeeps ==
  ASSUME Shape, BlindInv, NEW s \in Accounts, BlindAuction_withdraw(s)
  PROVE  BlindInv'
<1> DEFINE c == "BlindAuction"
           n == blind.pendingReturns[s]
<1>1. c \in Contracts /\ Numbers(c)
  BY DEF Contracts, BlindInv
<1>2. blind.exists /\ PayOut(c, s, n) /\ now' = now
      /\ blind' = [blind EXCEPT !.pendingReturns = [blind.pendingReturns EXCEPT ![s] = 0]]
  BY DEF BlindAuction_withdraw, chain
<1>3. blind \in BlindType /\ blind.pendingReturns \in [Accounts -> Nat] /\ n \in Nat
  BY <1>2, BlindTyped
<1>4. /\ blind' \in BlindType /\ blind'.bids = blind.bids
      /\ blind'.highestBid = blind.highestBid /\ blind'.highestBidder = blind.highestBidder
      /\ blind'.pendingReturns = [blind.pendingReturns EXCEPT ![s] = 0]
      /\ blind'.ended = blind.ended
      /\ blind'.beneficiary = blind.beneficiary /\ blind'.revealEnd = blind.revealEnd
  BY <1>2, <1>3 DEF BlindType
<1>5. \A a \in Accounts : stake'[c][a] = stake[c][a] - IF a = s THEN n ELSE 0
  <2>1. stake'[c] = [stake[c] EXCEPT ![s] = @ - n] /\ DOMAIN stake[c] = Accounts
    BY <1>1, <1>2, PayOutBooked DEF Shape
  <2> QED BY <1>1, <2>1 DEF Numbers
<1>6. ASSUME NEW a \in Accounts
      PROVE  Owed(blind', a) = Owed(blind, a) - IF a = s THEN n ELSE 0
  <2>1. blind'.pendingReturns[a] = blind.pendingReturns[a] - IF a = s THEN n ELSE 0
    BY <1>3, <1>4
  <2>2. Deposits(blind.bids[a]) \in Nat /\ blind.pendingReturns[a] \in Nat
        /\ blind.highestBid \in Nat
    BY <1>3, OwedType
  <2> QED BY <1>3, <1>4, <2>1, <2>2 DEF Owed
<1>7. Balanced(blind', stake'[c])
  <2> SUFFICES ASSUME NEW a \in Accounts
               PROVE  stake'[c][a] = Owed(blind', a)
                        - (IF a = blind'.beneficiary /\ blind'.ended THEN blind'.highestBid ELSE 0)
    BY DEF Balanced
  <2>1. stake[c][a] = Owed(blind, a)
                        - (IF a = blind.beneficiary /\ blind.ended THEN blind.highestBid ELSE 0)
    BY <1>2, BlindBalanced DEF Balanced
  <2>2. Owed(blind, a) \in Nat /\ blind.highestBid \in Nat
    BY <1>3, OwedType
  <2> HIDE DEF n
  <2> QED BY <1>3, <1>4, <1>5, <1>6, <2>1, <2>2
<1>8. Numbers(c)'
  BY <1>1, <1>2, <1>3, PayOutNumbers
<1>9. blind'.ended => blind'.revealEnd < now'
  BY <1>2, <1>4, BlindBalanced
<1> QED BY <1>4, <1>7, <1>8, <1>9, BlindKept

LEMMA BlindEndKeeps ==
  ASSUME Shape, BlindInv, NEW s \in Accounts, BlindAuction_auctionEnd(s)
  PROVE  BlindInv'
<1> DEFINE c  == "BlindAuction"
           to == blind.beneficiary
           n  == blind.highestBid
<1>1. c \in Contracts /\ Numbers(c)
  BY DEF Contracts, BlindInv
<1>2. blind.exists /\ PayOut(c, to, n) /\ now' = now /\ ~blind.ended /\ blind.revealEnd < now
      /\ blind' = [blind EXCEPT !.ended = TRUE]
  BY DEF BlindAuction_auctionEnd, chain
<1>3. blind \in BlindType /\ n \in Nat /\ to \in Accounts
  BY <1>2, BlindTyped
<1>4. /\ blind' \in BlindType /\ blind'.bids = blind.bids
      /\ blind'.highestBid = n /\ blind'.highestBidder = blind.highestBidder
      /\ blind'.pendingReturns = blind.pendingReturns /\ blind'.ended
      /\ blind'.beneficiary = to /\ blind'.revealEnd = blind.revealEnd
  BY <1>2, <1>3 DEF BlindType
<1>5. \A a \in Accounts : stake'[c][a] = stake[c][a] - IF a = to THEN n ELSE 0
  <2>1. stake'[c] = [stake[c] EXCEPT ![to] = @ - n] /\ DOMAIN stake[c] = Accounts
    BY <1>1, <1>2, <1>3, PayOutBooked DEF Shape
  <2> QED BY <1>1, <2>1 DEF Numbers
<1>6. \A a \in Accounts : Owed(blind', a) = Owed(blind, a)
  BY <1>4 DEF Owed
<1>7. Balanced(blind', stake'[c])
  <2> SUFFICES ASSUME NEW a \in Accounts
               PROVE  stake'[c][a] = Owed(blind', a) - (IF a = to THEN n ELSE 0)
    BY <1>4 DEF Balanced
  <2>1. stake[c][a] = Owed(blind, a) /\ Owed(blind, a) \in Nat
    <3>1. Owed(blind, a) \in Nat
      BY <1>3, OwedType
    <3> QED BY <1>2, <3>1, BlindBalanced DEF Balanced
  <2> HIDE DEF n, to
  <2> QED BY <1>3, <1>5, <1>6, <2>1
<1>8. Numbers(c)'
  BY <1>1, <1>2, <1>3, PayOutNumbers
<1> QED BY <1>2, <1>4, <1>7, <1>8, BlindKept

LEMMA BlindStepKeeps == Shape /\ BlindInv /\ BlindAuctionStep => BlindInv'
<1>1. Deposited \subseteq Nat
  BY ContractsAssumption DEF Values, Deposited
<1>2. Offers \subseteq Hidden \ {Revealed} /\ BiddingTime \in Nat /\ RevealTime \in Nat
  BY ContractsAssumption
<1> QED
  BY <1>1, <1>2, BlindOpensKeeps, BlindBidKeeps, RevealKeeps, BlindWithdrawKeeps, BlindEndKeeps
  DEF BlindAuctionStep

LEMMA BlindSpared ==
  ASSUME Shape, Shape', BlindInv, Spared("BlindAuction"), blind' = blind
  PROVE  BlindInv'
<1>1. Numbers("BlindAuction")' /\ stake'["BlindAuction"] = stake["BlindAuction"]
  BY NumbersSpared DEF BlindInv, Spared
<1>2. now \in Nat /\ now' \in Nat /\ now <= now'
  BY DEF Shape, Spared
<1>3. blind.exists /\ blind.ended => blind.revealEnd < now'
  BY <1>2, BlindTyped DEF BlindInv
<1> QED BY <1>1, <1>3 DEF BlindInv, BlindBidsReturnable, Deposits

----------------------------------------------------------------------------
(* The ballot.                                                             *)

LEMMA BallotTyped ==
  ASSUME BallotInv, ballot.exists
  PROVE  /\ ballot \in BallotType /\ ballot.voters \in [Accounts -> Voter]
         /\ ballot.voteCount \in [Proposals -> Nat] /\ ballot.chairperson \in Accounts
         /\ \A a \in Accounts :
              /\ ballot.voters[a].weight \in Nat /\ ballot.voters[a].voted \in BOOLEAN
              /\ ballot.voters[a].delegate \in Accounts \cup {NoOne}
<1>1. ballot \in BallotType
  BY Absent DEF BallotInv
<1>2. ballot.voters \in [Accounts -> Voter]
  BY <1>1 DEF BallotType
<1> QED BY <1>1, <1>2 DEF BallotType, Voter

LEMMA AccountsFinite ==
  /\ IsFiniteSet(Accounts) /\ Cardinality(Accounts) \in Nat
  /\ \A S \in SUBSET Accounts :
       IsFiniteSet(S) /\ Cardinality(S) \in Nat /\ Cardinality(S) <= Cardinality(Accounts)
BY BallotAssumption, FS_CardinalityType, FS_Subset

\* Where delegate's loop ends is where the delegations lead.
LEMMA LoopEnds ==
  ASSUME ballot \in BallotType, NEW end, NEW dist, Leads(ballot.voters, end, dist),
         NEW to \in Accounts
  PROVE  EndOf(to) = end[to] /\ Cardinality(Accounts) \in DOMAIN Hop(to)
<1> DEFINE N    == Cardinality(Accounts)
           V    == ballot.voters
           Onward(a) == IF V[a].delegate = NoOne THEN a ELSE V[a].delegate
           Counts(t) == t = [n \in 0 .. N |-> IF n = 0 THEN to ELSE Onward(t[n - 1])]
           hop  == CHOOSE t : Counts(t)
<1>1. N \in Nat /\ N \in 0 .. N
  BY AccountsFinite
<1>2. \A a \in Accounts : V[a].delegate \in Accounts \cup {NoOne}
  BY DEF BallotType, Voter
<1>3. \A a \in Accounts : Onward(a) \in Accounts
  BY <1>2
<1>4. Hop(to) = hop /\ EndOf(to) = hop[N]
  BY DEF Hop, EndOf
<1> HIDE DEF N, Onward
<1>5. \E t : Counts(t)
  <2> DEFINE R == [p \in Accounts \X (1 .. N) |-> Onward(p[1])]
  <2>1. R \in [Accounts \X (1 .. N) -> Accounts]
        /\ \A x \in Accounts, i \in 1 .. N : R[<<x, i>>] = Onward(x)
    BY <1>3
  <2> HIDE DEF R
  <2>2. PICK g \in [0 .. N -> Accounts] : Iterates(g, to, N, R)
    BY <1>1, <2>1, IteratesExist
  <2>3. ASSUME NEW i \in 0 .. N
        PROVE  g[i] = IF i = 0 THEN to ELSE Onward(g[i - 1])
    <3>1. CASE i = 0
      BY <2>2, <3>1 DEF Iterates
    <3>2. CASE i # 0
      <4>1. i \in 1 .. N /\ i - 1 \in 0 .. N
        BY <1>1, <3>2
      <4>2. g[i] = R[<<g[i - 1], i>>] /\ g[i - 1] \in Accounts
        BY <2>2, <4>1 DEF Iterates
      <4> QED BY <2>1, <3>2, <4>1, <4>2
    <3> QED BY <3>1, <3>2
  <2>4. g = [i \in 0 .. N |-> IF i = 0 THEN to ELSE Onward(g[i - 1])]
    BY <2>3
  <2> QED BY <2>4
<1>6. Counts(hop)
  BY <1>5
<1> HIDE DEF hop
<1>7. DOMAIN hop = 0 .. N /\ hop[0] = to /\ \A n \in 1 .. N : hop[n] = Onward(hop[n - 1])
  <2>1. 0 \in 0 .. N /\ \A n \in 1 .. N : n \in 0 .. N /\ n # 0
    BY <1>1
  <2> QED BY <1>6, <2>1
<1> DEFINE OnTheWay(a, n) ==
             /\ a \in Accounts /\ end[a] = end[to]
             /\ V[a].delegate # NoOne => dist[a] + n = dist[to]
           Good == {n \in Nat : n <= N => OnTheWay(hop[n], n)}
<1>8. dist[to] \in Nat /\ \A a \in Accounts : dist[a] \in Nat
  BY DEF Leads
<1>9. 0 \in Good
  BY <1>7, <1>8
<1>10. ASSUME NEW n \in Nat, n \in Good PROVE n + 1 \in Good
  <2> SUFFICES ASSUME n + 1 <= N PROVE OnTheWay(hop[n + 1], n + 1)
    OBVIOUS
  <2> DEFINE a == hop[n]
             d == V[a].delegate
  <2>1. OnTheWay(a, n)
    BY <1>1, <1>10
  <2>2. hop[n + 1] = Onward(a)
    <3>1. n + 1 \in 1 .. N /\ n + 1 - 1 = n
      BY <1>1
    <3> QED BY <1>7, <3>1
  <2> HIDE DEF a
  <2>3. CASE d = NoOne
    <3>1. hop[n + 1] = a
      BY <2>2, <2>3 DEF Onward
    <3> QED BY <2>1, <2>3, <3>1
  <2>4. CASE d # NoOne
    <3>1. hop[n + 1] = d /\ d \in Accounts
      BY <1>2, <2>1, <2>2, <2>4 DEF Onward
    <3>2. end[a] = end[d] /\ dist[a] = dist[d] + 1
      BY <2>1, <2>4 DEF Leads
    <3>3. dist[d] + (n + 1) = dist[to]
      BY <1>8, <2>1, <2>4, <3>1, <3>2
    <3> QED BY <2>1, <3>1, <3>2, <3>3
  <2> QED BY <2>3, <2>4
<1> HIDE DEF Good
<1>11. Nat \subseteq Good
  BY <1>9, <1>10, NumbersInduct
<1>12. OnTheWay(hop[N], N)
  BY <1>1, <1>11 DEF Good
<1>13. V[hop[N]].delegate = NoOne
  <2> SUFFICES ASSUME V[hop[N]].delegate # NoOne PROVE FALSE
    OBVIOUS
  <2> DEFINE a == hop[N]
             d == V[a].delegate
  <2>1. a \in Accounts /\ d \in Accounts /\ dist[a] = dist[d] + 1 /\ dist[a] + N = dist[to]
    BY <1>2, <1>12 DEF Leads
  <2>2. dist[to] <= N
    <3>1. Delegating(V) \in SUBSET Accounts
      BY DEF Delegating
    <3>2. Cardinality(Delegating(V)) \in Nat /\ Cardinality(Delegating(V)) <= N
      BY <3>1, AccountsFinite DEF N
    <3>3. dist[to] <= Cardinality(Delegating(V))
      BY DEF Leads
    <3> QED BY <1>1, <1>8, <3>2, <3>3
  <2>3. dist[d] \in Nat /\ dist[a] \in Nat
    BY <1>8, <2>1
  <2> QED BY <1>1, <1>8, <2>1, <2>2, <2>3
<1>14. end[hop[N]] = hop[N]
  BY <1>12, <1>13 DEF Leads
<1> QED BY <1>1, <1>4, <1>7, <1>12, <1>14 DEF N

\* The voices of two are as many as those of each together.
LEMMA VoicesAdd ==
  ASSUME NEW A \in SUBSET Accounts, NEW B \in SUBSET Accounts, A \cap B = {}
  PROVE  Cardinality(A \cup B) = Cardinality(A) + Cardinality(B)
<1>1. IsFiniteSet(A) /\ IsFiniteSet(B) /\ Cardinality(A) \in Nat /\ Cardinality(B) \in Nat
  BY AccountsFinite
<1>2. Cardinality(A \cup B) = Cardinality(A) + Cardinality(B) - Cardinality(A \cap B)
  BY <1>1, FS_Union
<1>3. Cardinality(A \cap B) = 0
  BY FS_EmptySet
<1> QED BY <1>1, <1>2, <1>3

\* What the invariant says of a ballot, and what is to be shown of the next.
LEMMA BallotOpen ==
  ASSUME BallotInv, ballot.exists
  PROVE  /\ Sound(ballot.voters)
         /\ \E end, dist : /\ Leads(ballot.voters, end, dist)
                           /\ Tallied(ballot.voters, ballot.voteCount, end)
BY DEF BallotInv

LEMMA BallotKept ==
  ASSUME ballot' \in BallotType, Sound(ballot'.voters),
         NEW end, NEW dist, Leads(ballot'.voters, end, dist),
         Tallied(ballot'.voters, ballot'.voteCount, end)
  PROVE  BallotInv'
<1>1. \E e, d : Leads(ballot'.voters, e, d) /\ Tallied(ballot'.voters, ballot'.voteCount, e)
  OBVIOUS
<1> QED BY <1>1 DEF BallotInv

LEMMA BallotOpensKeeps ==
  ASSUME NEW s \in Accounts, Ballot_constructor(s)
  PROVE  BallotInv'
<1> DEFINE V    == ballot'.voters
           C    == ballot'.voteCount
           end  == [a \in Accounts |-> a]
           dist == [a \in Accounts |-> 0]
<1>1. /\ ballot' = [exists |-> TRUE, chairperson |-> s, voteCount |-> [p \in Proposals |-> 0],
                    voters |-> [a \in Accounts |->
                                  [weight |-> IF a = s THEN 1 ELSE 0, voted |-> FALSE,
                                   delegate |-> NoOne, vote |-> 0]]]
  BY DEF Ballot_constructor
<1>2. ballot' \in BallotType /\ ballot'.exists
  BY <1>1 DEF BallotType, Voter
<1>3. \A a \in Accounts : V[a].voted = FALSE /\ V[a].delegate = NoOne
  BY <1>1
<1>4. V[s].weight = 1 /\ \A a \in Accounts : a # s => V[a].weight = 0
  BY <1>1
<1>5. \A p \in Proposals : C[p] = 0
  BY <1>1
<1>6. end \in [Accounts -> Accounts] /\ \A a \in Accounts : end[a] = a
  OBVIOUS
<1>7. dist \in [Accounts -> Nat] /\ \A a \in Accounts : dist[a] = 0
  OBVIOUS
<1> HIDE DEF V, C, end, dist
<1>8. Sound(V)
  BY <1>3 DEF Sound
<1>9. Leads(V, end, dist)
  <2>1. Delegating(V) \in SUBSET Accounts
    BY DEF Delegating
  <2>2. Cardinality(Delegating(V)) \in Nat
    BY <2>1, AccountsFinite
  <2> QED BY <1>3, <1>6, <1>7, <2>2 DEF Leads
<1>10. Tallied(V, C, end)
  <2>1. ASSUME NEW b \in Accounts PROVE V[b].weight = Cardinality(Voices(V, end, b))
    <3>1. CASE b = s
      <4>1. Voices(V, end, b) = {s}
        BY <1>4, <1>6, <3>1 DEF Voices
      <4> QED BY <1>4, <3>1, <4>1, FS_Singleton
    <3>2. CASE b # s
      <4>1. Voices(V, end, b) = {}
        BY <1>4, <1>6, <3>2 DEF Voices
      <4> QED BY <1>4, <3>2, <4>1, FS_EmptySet
    <3> QED BY <3>1, <3>2
  <2>2. ASSUME NEW p \in Proposals PROVE C[p] = Cardinality(Counted(V, end, p))
    <3>1. Counted(V, end, p) = {}
      BY <1>3, <1>6 DEF Counted
    <3> QED BY <1>5, <3>1, FS_EmptySet
  <2> QED BY <2>1, <2>2 DEF Tallied
<1>11. BallotInv'
  BY <1>2, <1>8, <1>9, <1>10, BallotKept DEF V, C
<1> QED BY <1>11

LEMMA RightKeeps ==
  ASSUME BallotInv, NEW s, NEW v \in Accounts, Ballot_giveRightToVote(s, v)
  PROVE  BallotInv'
<1> DEFINE V == ballot.voters
           W == ballot'.voters
           C == ballot.voteCount
<1>1. ballot.exists /\ ~V[v].voted /\ V[v].weight = 0
      /\ ballot' = [ballot EXCEPT !.voters = [V EXCEPT ![v] = [V[v] EXCEPT !.weight = 1]]]
  BY DEF Ballot_giveRightToVote
<1>2. ballot \in BallotType /\ V \in [Accounts -> Voter] /\ Sound(V)
  BY <1>1, BallotTyped, BallotOpen
<1>3. PICK end, dist : Leads(V, end, dist) /\ Tallied(V, C, end)
  BY <1>1, BallotOpen
<1>4. ballot' \in BallotType /\ ballot'.voteCount = C
      /\ W = [V EXCEPT ![v] = [V[v] EXCEPT !.weight = 1]]
  BY <1>1, <1>2, ZenonT(60) DEF BallotType, Voter
<1>5. \A a \in Accounts : /\ W[a].voted = V[a].voted /\ W[a].delegate = V[a].delegate
                          /\ W[a].vote = V[a].vote
                          /\ a # v => W[a].weight = V[a].weight
      /\ W[v].weight = 1
  BY <1>2, <1>4 DEF Voter
<1>6. V[v].delegate = NoOne /\ end[v] = v /\ \A a \in Accounts : end[a] \in Accounts
  BY <1>1, <1>2, <1>3 DEF Sound, Leads
<1>7. \A a \in Accounts : V[a].weight \in Nat
  BY <1>1, BallotTyped
<1> HIDE DEF V, W, C
<1>8. Sound(W)
  <2>1. \A a \in Accounts : W[a].voted => a # v
    BY <1>1, <1>5
  <2> QED BY <1>2, <1>5, <2>1 DEF Sound
<1>9. Leads(W, end, dist)
  <2>1. Delegating(W) = Delegating(V)
    BY <1>5 DEF Delegating
  <2> QED BY <1>3, <1>5, <2>1 DEF Leads
<1>10. Tallied(W, C, end)
  <2>1. ASSUME NEW b \in Accounts, ~W[b].voted
        PROVE  W[b].weight = Cardinality(Voices(W, end, b))
    <3>1. V[b].weight = Cardinality(Voices(V, end, b))
      BY <1>3, <1>5, <2>1 DEF Tallied
    <3>2. CASE b # v
      <4>1. Voices(W, end, b) = Voices(V, end, b)
        BY <1>1, <1>5, <1>6, <3>2 DEF Voices
      <4> QED BY <1>5, <3>1, <3>2, <4>1
    <3>3. CASE b = v
      <4>1. Voices(V, end, b) = {}
        <5>1. Voices(V, end, b) \in SUBSET Accounts
          BY DEF Voices
        <5> QED BY <1>1, <3>1, <3>3, <5>1, AccountsFinite, FS_EmptySet
      <4>2. Voices(W, end, b) = {v}
        BY <1>5, <1>6, <1>7, <3>3, <4>1 DEF Voices
      <4> QED BY <1>5, <3>3, <4>2, FS_Singleton
    <3> QED BY <3>2, <3>3
  <2>2. ASSUME NEW p \in Proposals PROVE C[p] = Cardinality(Counted(W, end, p))
    <3>1. \A a \in Accounts : V[end[a]].voted => a # v
      BY <1>1, <1>6
    <3>2. \A a \in Accounts : W[end[a]].voted = V[end[a]].voted /\ W[end[a]].vote = V[end[a]].vote
      BY <1>5, <1>6
    <3>3. Counted(W, end, p) = Counted(V, end, p)
      BY <1>5, <3>1, <3>2 DEF Counted
    <3> QED BY <1>3, <3>3 DEF Tallied
  <2> QED BY <2>1, <2>2 DEF Tallied
<1> QED BY <1>4, <1>8, <1>9, <1>10, BallotKept DEF W, C

\* What a vote counts goes to its proposal, for all who delegated to the voter.
LEMMA VoteKeeps ==
  ASSUME BallotInv, NEW s \in Accounts, NEW q \in Proposals, Ballot_vote(s, q)
  PROVE  BallotInv'
<1> DEFINE V == ballot.voters
           W == ballot'.voters
           C == ballot.voteCount
           D == ballot'.voteCount
<1>1. /\ ballot.exists /\ ~V[s].voted /\ V[s].weight # 0
      /\ ballot' = [ballot EXCEPT !.voters = [V EXCEPT ![s] = [V[s] EXCEPT !.voted = TRUE,
                                                                        !.vote = q]],
                                  !.voteCount = [C EXCEPT ![q] = C[q] + V[s].weight]]
  BY DEF Ballot_vote
<1>2. ballot \in BallotType /\ V \in [Accounts -> Voter] /\ Sound(V) /\ C \in [Proposals -> Nat]
  BY <1>1, BallotTyped, BallotOpen
<1>3. PICK end, dist : Leads(V, end, dist) /\ Tallied(V, C, end)
  BY <1>1, BallotOpen
<1>4. q \in Nat /\ V[s].weight \in Nat /\ C[q] \in Nat
  BY <1>1, <1>2, BallotTyped, BallotAssumption
<1>5. /\ W = [V EXCEPT ![s] = [V[s] EXCEPT !.voted = TRUE, !.vote = q]]
      /\ D = [C EXCEPT ![q] = C[q] + V[s].weight]
  BY <1>1, <1>2 DEF BallotType
<1>6. W \in [Accounts -> Voter] /\ D \in [Proposals -> Nat]
  <2>1. [V[s] EXCEPT !.voted = TRUE, !.vote = q] \in Voter
    BY <1>2, <1>4 DEF Voter
  <2>2. C[q] + V[s].weight \in Nat
    BY <1>4
  <2> QED BY <1>2, <1>5, <2>1, <2>2
<1>7. ballot' \in BallotType
  BY <1>1, <1>2, <1>5, <1>6 DEF BallotType
<1>8. \A a \in Accounts : W[a].weight = V[a].weight /\ W[a].delegate = V[a].delegate
  BY <1>2, <1>5 DEF Voter
<1>9. \A a \in Accounts : a # s => W[a].voted = V[a].voted /\ W[a].vote = V[a].vote
  BY <1>2, <1>5 DEF Voter
<1>10. W[s].voted = TRUE /\ W[s].vote = q
  BY <1>2, <1>5 DEF Voter
<1>11. D[q] = C[q] + V[s].weight /\ \A p \in Proposals : p # q => D[p] = C[p]
  BY <1>2, <1>5
<1>12. V[s].delegate = NoOne /\ end[s] = s /\ \A a \in Accounts : end[a] \in Accounts
  BY <1>1, <1>2, <1>3 DEF Sound, Leads
<1>13. V[s].weight > 0
  BY <1>1, <1>4
<1>14. ~V[s].voted
  BY <1>1
<1> HIDE DEF V, W, C, D
<1>15. Sound(W)
  BY <1>2, <1>8, <1>9, <1>10, <1>12, <1>13 DEF Sound
<1>16. Leads(W, end, dist)
  <2>1. Delegating(W) = Delegating(V)
    BY <1>8 DEF Delegating
  <2> QED BY <1>3, <1>8, <2>1 DEF Leads
<1>17. \A b : Voices(W, end, b) = Voices(V, end, b)
  BY <1>8 DEF Voices
<1>18. Tallied(W, D, end)
  <2>1. ASSUME NEW b \in Accounts, ~W[b].voted
        PROVE  W[b].weight = Cardinality(Voices(W, end, b))
    <3>1. b # s /\ ~V[b].voted
      BY <1>9, <1>10, <2>1
    <3>2. V[b].weight = Cardinality(Voices(V, end, b))
      BY <1>3, <3>1 DEF Tallied
    <3> QED BY <1>8, <1>17, <3>2
  <2>2. ASSUME NEW p \in Proposals PROVE D[p] = Cardinality(Counted(W, end, p))
    <3>1. C[p] = Cardinality(Counted(V, end, p))
      BY <1>3 DEF Tallied
    <3>2. CASE p # q
      <4>1. Counted(W, end, p) = Counted(V, end, p)
        BY <1>8, <1>9, <1>10, <1>12, <1>14, <3>2 DEF Counted
      <4> QED BY <1>11, <3>1, <3>2, <4>1
    <3>3. CASE p = q
      <4>1. Counted(W, end, q) = Counted(V, end, q) \cup Voices(V, end, s)
        BY <1>8, <1>9, <1>10, <1>12 DEF Counted, Voices
      <4>2. Counted(V, end, q) \cap Voices(V, end, s) = {}
        BY <1>14 DEF Counted, Voices
      <4>3. Counted(V, end, q) \in SUBSET Accounts /\ Voices(V, end, s) \in SUBSET Accounts
        BY DEF Counted, Voices
      <4>4. Cardinality(Counted(W, end, q)) =
              Cardinality(Counted(V, end, q)) + Cardinality(Voices(V, end, s))
        BY <4>1, <4>2, <4>3, VoicesAdd
      <4>5. V[s].weight = Cardinality(Voices(V, end, s))
        BY <1>3, <1>14 DEF Tallied
      <4> QED BY <1>11, <3>1, <3>3, <4>4, <4>5
    <3> QED BY <3>2, <3>3
  <2> QED BY <2>1, <2>2 DEF Tallied
<1>19. BallotInv'
  BY <1>7, <1>15, <1>16, <1>18, BallotKept DEF W, D
<1> QED BY <1>19

\* Where the delegations lead when s has delegated to e.
Redirected(end, s, e) == [a \in Accounts |-> IF end[a] = s THEN e ELSE end[a]]

LEMMA LeadsOn ==
  ASSUME NEW V, NEW W, NEW end, NEW dist, Leads(V, end, dist),
         NEW s \in Accounts, NEW e \in Accounts, e # s,
         V[s].delegate = NoOne, V[e].delegate = NoOne, W[s].delegate = e,
         \A a \in Accounts : a # s => W[a].delegate = V[a].delegate,
         \A a \in Accounts : V[a].delegate \in Accounts \cup {NoOne}
  PROVE  \E steps : Leads(W, Redirected(end, s, e), steps)
<1> DEFINE last  == Redirected(end, s, e)
           steps == [a \in Accounts |-> IF end[a] = s THEN dist[a] + 1 ELSE dist[a]]
           n     == Cardinality(Delegating(V))
<1>1. /\ \A a \in Accounts : end[a] \in Accounts /\ dist[a] \in Nat /\ dist[a] <= n
      /\ end[s] = s /\ end[e] = e /\ dist[s] = 0 /\ dist[e] = 0
  BY DEF Leads
<1>2. last \in [Accounts -> Accounts] /\ steps \in [Accounts -> Nat]
  BY <1>1 DEF Redirected
<1>3. \A a \in Accounts : /\ end[a] = s => last[a] = e /\ steps[a] = dist[a] + 1
                          /\ end[a] # s => last[a] = end[a] /\ steps[a] = dist[a]
  BY DEF Redirected
<1>4. n \in Nat /\ Cardinality(Delegating(W)) = n + 1
  <2>1. Delegating(V) \in SUBSET Accounts
    BY DEF Delegating
  <2>2. Delegating(W) = Delegating(V) \cup {s} /\ s \notin Delegating(V)
    BY LedgerAssumption DEF Delegating
  <2> QED BY <2>1, <2>2, AccountsFinite, FS_AddElement
<1> HIDE DEF last, steps, n
<1>5. ASSUME NEW a \in Accounts
      PROVE  /\ W[a].delegate = NoOne => last[a] = a /\ steps[a] = 0
             /\ W[last[a]].delegate = NoOne
             /\ steps[a] <= Cardinality(Delegating(W))
  <2>1. a = s => W[a].delegate # NoOne
    BY LedgerAssumption
  <2>2. W[a].delegate = NoOne => last[a] = a /\ steps[a] = 0
    BY <1>3, <2>1 DEF Leads
  <2>3. W[last[a]].delegate = NoOne
    BY <1>1, <1>3 DEF Leads
  <2>4. steps[a] <= n + 1
    BY <1>1, <1>3, <1>4
  <2> QED BY <1>4, <2>2, <2>3, <2>4
<1>6. ASSUME NEW a \in Accounts, W[a].delegate # NoOne
      PROVE  last[a] = last[W[a].delegate] /\ steps[a] = steps[W[a].delegate] + 1
  <2>1. CASE a = s
    BY <1>1, <1>3, <2>1
  <2>2. CASE a # s
    <3> DEFINE d == V[a].delegate
    <3>1. d \in Accounts /\ W[a].delegate = d
      BY <1>6, <2>2
    <3>2. end[a] = end[d] /\ dist[a] = dist[d] + 1
      BY <1>6, <2>2 DEF Leads
    <3> HIDE DEF d
    <3>3. last[a] = last[d] /\ steps[a] = steps[d] + 1
      BY <1>3, <3>1, <3>2
    <3> QED BY <3>1, <3>3
  <2> QED BY <2>1, <2>2
<1>7. Leads(W, last, steps)
  BY <1>2, <1>5, <1>6 DEF Leads
<1> QED BY <1>7 DEF last

\* Whoever delegated to s, and s, counts with e from then on: in the count, if e
\* has voted, and for e if not.
LEMMA DelegateKeeps ==
  ASSUME BallotInv, NEW s \in Accounts, NEW to \in Accounts, Ballot_delegate(s, to)
  PROVE  BallotInv'
<1> DEFINE V == ballot.voters
           W == ballot'.voters
           C == ballot.voteCount
           D == ballot'.voteCount
           e == EndOf(to)
           w == V[s].weight
           U == [V EXCEPT ![s] = [V[s] EXCEPT !.voted = TRUE, !.delegate = e]]
<1>1. /\ ballot.exists /\ ~V[s].voted /\ w # 0 /\ NoLoop(s, to)
      /\ V[e].voted => ballot' = [ballot EXCEPT !.voters = U,
                                    !.voteCount = [C EXCEPT ![V[e].vote] = C[V[e].vote] + w]]
      /\ ~V[e].voted => ballot' = [ballot EXCEPT !.voters =
                                     [U EXCEPT ![e] = [U[e] EXCEPT !.weight = U[e].weight + w]]]
  <2> DEFINE decided == [ballot EXCEPT !.voters[s].voted = TRUE, !.voters[s].delegate = e]
  <2>1. /\ ballot.exists /\ ~V[s].voted /\ w # 0 /\ NoLoop(s, to)
        /\ V[e].voted => ballot' = [decided EXCEPT !.voteCount[V[e].vote] = @ + w]
        /\ ~V[e].voted => ballot' = [decided EXCEPT !.voters[e].weight = @ + w]
    BY Zenon DEF Ballot_delegate, CountsFor
  <2>2. ballot \in BallotType
    BY <2>1, BallotTyped
  <2>3. decided = [ballot EXCEPT !.voters = U]
    BY <2>2 DEF BallotType, Voter
  <2>4. decided.voters = U /\ decided.voteCount = C
    BY <2>2, <2>3 DEF BallotType
  <2> HIDE DEF decided, U, C
  <2>5. V[e].voted => ballot' = [decided EXCEPT !.voteCount = [C EXCEPT ![V[e].vote] = C[V[e].vote] + w]]
    BY <2>1, <2>4
  <2>6. ~V[e].voted => ballot' = [decided EXCEPT !.voters =
                                    [U EXCEPT ![e] = [U[e] EXCEPT !.weight = U[e].weight + w]]]
    BY <2>1, <2>4
  <2> QED BY <2>1, <2>2, <2>3, <2>5, <2>6 DEF BallotType
<1>2. ballot \in BallotType /\ V \in [Accounts -> Voter] /\ Sound(V) /\ C \in [Proposals -> Nat]
  BY <1>1, BallotTyped, BallotOpen
<1>3. PICK end, dist : Leads(V, end, dist) /\ Tallied(V, C, end)
  BY <1>1, BallotOpen
<1>4. e \in Accounts /\ e = end[to] /\ V[e].delegate = NoOne /\ e # s /\ end[e] = e
  <2>1. EndOf(to) = end[to] /\ Cardinality(Accounts) \in DOMAIN Hop(to)
    BY <1>2, <1>3, LoopEnds
  <2>2. e # s
    BY <1>1, <2>1 DEF NoLoop, EndOf
  <2>3. e \in Accounts /\ V[e].delegate = NoOne
    BY <1>3, <2>1 DEF Leads
  <2> QED BY <1>3, <2>1, <2>2, <2>3 DEF Leads
<1>5. \A a \in Accounts : V[a].weight \in Nat /\ V[a].delegate \in Accounts \cup {NoOne}
  BY <1>1, BallotTyped
<1>6. w \in Nat /\ w > 0 /\ V[e].weight \in Nat
  BY <1>1, <1>4, <1>5
<1>7. V[s].delegate = NoOne /\ end[s] = s /\ \A a \in Accounts : end[a] \in Accounts
  BY <1>1, <1>2, <1>3 DEF Sound, Leads
<1> HIDE DEF e
<1>8. U \in [Accounts -> Voter]
  <2>1. [V[s] EXCEPT !.voted = TRUE, !.delegate = e] \in Voter
    BY <1>2, <1>4, ZenonT(60) DEF Voter
  <2> QED BY <1>2, <2>1
<1>9. /\ U[s].voted = TRUE /\ U[s].delegate = e /\ U[s].weight = w
      /\ \A a \in Accounts : a # s => U[a] = V[a]
  BY <1>2 DEF Voter
<1> DEFINE last == Redirected(end, s, e)
<1>10. \A a \in Accounts : /\ end[a] = s => last[a] = e
                           /\ end[a] # s => last[a] = end[a]
  BY DEF Redirected
<1>11. ~V[s].voted
  BY <1>1
<1>12. CASE V[e].voted
  <2> DEFINE q == V[e].vote
  <2>1. q \in Proposals /\ C[q] \in Nat
    BY <1>2, <1>4, <1>12 DEF Sound
  <2>2. W = U /\ D = [C EXCEPT ![q] = C[q] + w]
    BY <1>1, <1>2, <1>12 DEF BallotType
  <2>3. D \in [Proposals -> Nat] /\ D[q] = C[q] + w /\ \A p \in Proposals : p # q => D[p] = C[p]
    BY <1>2, <1>6, <2>1, <2>2
  <2>4. ballot' \in BallotType
    BY <1>1, <1>2, <1>8, <1>12, <2>2, <2>3, ZenonT(60) DEF BallotType
  <2>5. /\ W[s].voted = TRUE /\ W[s].delegate = e /\ W[s].weight = w
        /\ \A a \in Accounts : a # s => W[a] = V[a]
    BY <1>9, <2>2
  <2> HIDE DEF V, W, C, D, U, q, w, last
  <2>6. \A a \in Accounts : W[a].weight = V[a].weight
    BY <2>5 DEF w
  <2>7. Sound(W)
    BY <1>2, <1>4, <1>6, <2>5, LedgerAssumption DEF Sound
  <2>8. PICK steps : Leads(W, last, steps)
    BY <1>3, <1>4, <1>5, <1>7, <2>5, LeadsOn DEF last
  <2>9. Tallied(W, D, last)
    <3>1. ASSUME NEW b \in Accounts, ~W[b].voted
          PROVE  W[b].weight = Cardinality(Voices(W, last, b))
      <4>1. b # s /\ b # e /\ ~V[b].voted /\ W[b].weight = V[b].weight
        BY <1>4, <1>12, <2>5, <3>1
      <4>2. V[b].weight = Cardinality(Voices(V, end, b))
        BY <1>3, <4>1 DEF Tallied
      <4>3. Voices(W, last, b) = Voices(V, end, b)
        BY <1>10, <2>6, <4>1 DEF Voices
      <4> QED BY <4>1, <4>2, <4>3
    <3>2. ASSUME NEW p \in Proposals PROVE D[p] = Cardinality(Counted(W, last, p))
      <4>1. C[p] = Cardinality(Counted(V, end, p))
        BY <1>3 DEF Tallied
      <4>2. W[e] = V[e] /\ \A a \in Accounts : end[a] # s => W[end[a]] = V[end[a]]
        BY <1>4, <1>7, <2>5
      <4>3. CASE p # q
        <5>1. Counted(W, last, p) = Counted(V, end, p)
          BY <1>10, <1>11, <2>6, <4>2, <4>3 DEF Counted, q
        <5> QED BY <2>3, <4>1, <4>3, <5>1
      <4>4. CASE p = q
        <5>1. Counted(W, last, q) = Counted(V, end, q) \cup Voices(V, end, s)
          BY <1>10, <1>11, <1>12, <2>6, <4>2 DEF Counted, Voices, q
        <5>2. Counted(V, end, q) \cap Voices(V, end, s) = {}
          BY <1>11 DEF Counted, Voices
        <5>3. Counted(V, end, q) \in SUBSET Accounts /\ Voices(V, end, s) \in SUBSET Accounts
          BY DEF Counted, Voices
        <5>4. Cardinality(Counted(W, last, q)) =
                Cardinality(Counted(V, end, q)) + Cardinality(Voices(V, end, s))
          BY <5>1, <5>2, <5>3, VoicesAdd
        <5>5. w = Cardinality(Voices(V, end, s))
          BY <1>3, <1>11 DEF Tallied, w
        <5> QED BY <2>3, <4>1, <4>4, <5>4, <5>5
      <4> QED BY <4>3, <4>4
    <3> QED BY <3>1, <3>2 DEF Tallied
  <2> QED BY <2>4, <2>7, <2>8, <2>9, BallotKept DEF W, D
<1>13. CASE ~V[e].voted
  <2>1. /\ W = [U EXCEPT ![e] = [U[e] EXCEPT !.weight = U[e].weight + w]] /\ D = C
    BY <1>1, <1>2, <1>13 DEF BallotType
  <2>2. U[e] = V[e] /\ U[e] \in Voter
    BY <1>4, <1>8, <1>9
  <2>3. W \in [Accounts -> Voter]
    <3>1. [U[e] EXCEPT !.weight = U[e].weight + w] \in Voter
      BY <1>6, <2>2 DEF Voter
    <3> QED BY <1>8, <2>1, <3>1
  <2>4. ballot' \in BallotType
    BY <1>1, <1>2, <1>13, <2>1, <2>3 DEF BallotType
  <2>5. /\ W[s].voted = TRUE /\ W[s].delegate = e /\ W[s].weight = w
        /\ W[e].voted = V[e].voted /\ W[e].delegate = V[e].delegate
        /\ W[e].vote = V[e].vote /\ W[e].weight = V[e].weight + w
        /\ \A a \in Accounts : a # s /\ a # e => W[a] = V[a]
    <3>1. W[s] = U[s] /\ \A a \in Accounts : a # e => W[a] = U[a]
      BY <1>4, <1>8, <2>1
    <3>2. W[e] = [V[e] EXCEPT !.weight = V[e].weight + w]
      BY <1>4, <1>8, <2>1, <2>2
    <3>3. /\ W[e].voted = V[e].voted /\ W[e].delegate = V[e].delegate
          /\ W[e].vote = V[e].vote /\ W[e].weight = V[e].weight + w
      BY <2>2, <3>2 DEF Voter
    <3> QED BY <1>9, <3>1, <3>3
  <2> HIDE DEF V, W, C, D, U, w, last
  <2>6. \A a \in Accounts : W[a].weight > 0 <=> V[a].weight > 0
    <3>1. V[e].weight > 0
      BY <1>4, <1>6, <1>13 DEF Ballot_delegate, V, e
    <3>2. V[e].weight + w > 0
      BY <1>6, <3>1
    <3> QED BY <2>5, <3>1, <3>2 DEF w
  <2>7. Sound(W)
    <3>1. \A a \in Accounts : a # s /\ a # e => W[a].voted = V[a].voted /\ W[a].delegate = V[a].delegate
                                                /\ W[a].vote = V[a].vote
      BY <2>5
    <3>2. ASSUME NEW a \in Accounts
          PROVE  /\ W[a].voted => W[a].weight > 0
                 /\ W[a].delegate # NoOne => W[a].voted
                 /\ W[a].voted /\ W[a].delegate = NoOne => W[a].vote \in Proposals
      <4>1. CASE a = s
        BY <1>4, <1>6, <2>5, <4>1, LedgerAssumption
      <4>2. CASE a = e
        BY <1>4, <1>13, <2>5, <4>2
      <4>3. CASE a # s /\ a # e
        BY <1>2, <2>6, <3>1, <4>3 DEF Sound
      <4> QED BY <4>1, <4>2, <4>3
    <3> QED BY <3>2 DEF Sound
  <2>8. PICK steps : Leads(W, last, steps)
    <3>1. \A a \in Accounts : a # s => W[a].delegate = V[a].delegate
      BY <2>5
    <3> QED BY <1>3, <1>4, <1>5, <1>7, <2>5, <3>1, LeadsOn DEF last
  <2>9. Tallied(W, D, last)
    <3>1. ASSUME NEW b \in Accounts, ~W[b].voted
          PROVE  W[b].weight = Cardinality(Voices(W, last, b))
      <4>1. b # s /\ ~V[b].voted
        BY <1>4, <2>5, <3>1
      <4>2. V[b].weight = Cardinality(Voices(V, end, b))
        BY <1>3, <4>1 DEF Tallied
      <4>3. CASE b # e
        <5>1. Voices(W, last, b) = Voices(V, end, b)
          BY <1>10, <2>6, <4>1, <4>3 DEF Voices
        <5> QED BY <2>5, <4>1, <4>2, <4>3, <5>1
      <4>4. CASE b = e
        <5>1. Voices(W, last, e) = Voices(V, end, e) \cup Voices(V, end, s)
          BY <1>4, <1>10, <2>6 DEF Voices
        <5>2. Voices(V, end, e) \cap Voices(V, end, s) = {}
          BY <1>4 DEF Voices
        <5>3. Voices(V, end, e) \in SUBSET Accounts /\ Voices(V, end, s) \in SUBSET Accounts
          BY DEF Voices
        <5>4. Cardinality(Voices(W, last, e)) =
                Cardinality(Voices(V, end, e)) + Cardinality(Voices(V, end, s))
          BY <5>1, <5>2, <5>3, VoicesAdd
        <5>5. w = Cardinality(Voices(V, end, s))
          BY <1>3, <1>11 DEF Tallied, w
        <5> QED BY <2>5, <4>2, <4>4, <5>4, <5>5
      <4> QED BY <4>3, <4>4
    <3>2. ASSUME NEW p \in Proposals PROVE D[p] = Cardinality(Counted(W, last, p))
      <4>1. D[p] = Cardinality(Counted(V, end, p))
        BY <1>3, <2>1 DEF Tallied
      <4>2. /\ W[e].voted = V[e].voted
            /\ \A a \in Accounts : end[a] # s =>
                 W[end[a]].voted = V[end[a]].voted /\ W[end[a]].vote = V[end[a]].vote
        BY <1>7, <2>5
      <4>3. Counted(W, last, p) = Counted(V, end, p)
        BY <1>10, <1>11, <1>13, <2>6, <4>2 DEF Counted
      <4> QED BY <4>1, <4>3
    <3> QED BY <3>1, <3>2 DEF Tallied
  <2> QED BY <2>4, <2>7, <2>8, <2>9, BallotKept DEF W, D
<1> QED BY <1>12, <1>13

LEMMA BallotStepKeeps == BallotInv /\ BallotStep => BallotInv'
BY BallotOpensKeeps, RightKeeps, DelegateKeeps, VoteKeeps DEF BallotStep

\* The property from the invariant: the loop of delegate finds where the
\* delegations lead.
LEMMA VoicesCount == BallotInv => EachVoiceCounts
<1> SUFFICES ASSUME BallotInv, ballot.exists, NEW p \in Proposals
             PROVE  ballot.voteCount[p] =
                      Cardinality({a \in Accounts :
                        /\ Entitled(a)
                        /\ LET end == ballot.voters[EndOf(a)]
                           IN end.voted /\ end.vote = p})
  BY DEF EachVoiceCounts
<1>1. ballot \in BallotType
  BY BallotTyped
<1>2. PICK end, dist : /\ Leads(ballot.voters, end, dist)
                       /\ Tallied(ballot.voters, ballot.voteCount, end)
  BY BallotOpen
<1>3. \A a \in Accounts : EndOf(a) = end[a]
  BY <1>1, <1>2, LoopEnds
<1>4. {a \in Accounts : /\ Entitled(a)
                        /\ LET last == ballot.voters[EndOf(a)]
                           IN last.voted /\ last.vote = p} = Counted(ballot.voters, end, p)
  BY <1>3 DEF Counted, Entitled
<1> QED BY <1>2, <1>4 DEF Tallied

----------------------------------------------------------------------------
(* All of them.                                                            *)

LEMMA InitIInv == Init => IInv
<1> SUFFICES ASSUME Init PROVE IInv
  OBVIOUS
<1>1. \A c \in Contracts : hbar[c] = 0 /\ \A a \in Accounts : stake[c][a] = 0
  BY LedgerAssumption DEF Init
<1>2. {"WHBAR", "SimpleAuction", "BlindAuction", "Purchase", "PaymentChannel"} \subseteq Contracts
  BY DEF Contracts
<1>3. Shape
  BY ContractsAssumption DEF Init, Shape
<1>4. whbar = NoWhbar /\ auction = NoAuction /\ purchase = NoPurchase /\ channel = NoChannel
      /\ blind = NoBlind /\ ballot = NoBallot /\ donated = 0 /\ signed = {}
  BY DEF Init
<1>5. Numbers("WHBAR") /\ Numbers("SimpleAuction") /\ Numbers("BlindAuction")
      /\ Numbers("Purchase") /\ Numbers("PaymentChannel")
  BY <1>1, <1>2 DEF Numbers
<1>6. WhbarInv
  BY <1>4, <1>5, Absent DEF WhbarInv, WhbarBacked, WhbarSupplyHeld
<1>7. AuctionInv
  BY <1>1, <1>2, <1>4, <1>5, Absent DEF AuctionInv, BidsReturnable
<1>8. BlindInv
  BY <1>1, <1>2, <1>4, <1>5, Absent DEF BlindInv, BlindBidsReturnable
<1>9. PurchaseInv
  BY <1>1, <1>2, <1>4, <1>5, Absent DEF PurchaseInv, PurchaseSettles
<1>10. ChannelInv
  BY <1>1, <1>2, <1>4, <1>5, Absent, FS_EmptySet DEF ChannelInv, ChannelPaysOnce
<1>11. BallotInv
  BY <1>4, Absent DEF BallotInv
<1> QED BY <1>3, <1>6, <1>7, <1>8, <1>9, <1>10, <1>11 DEF IInv

\* A step about one contract leaves the invariants of the others alone but that one's.
LEMMA OthersKept ==
  ASSUME IInv, NEW c \in Contracts, StepOf(c)
  PROVE  /\ c # "WHBAR" /\ whbar' = whbar => WhbarInv'
         /\ c # "SimpleAuction" /\ auction' = auction => AuctionInv'
         /\ c # "BlindAuction" /\ blind' = blind => BlindInv'
         /\ c # "Purchase" /\ purchase' = purchase => PurchaseInv'
         /\ c # "PaymentChannel" /\ channel' = channel /\ signed' = signed => ChannelInv'
<1>1. donated \in Nat /\ Shape /\ Shape'
  BY DEF IInv, Shape, StepOf
<1>2. hbar["WHBAR"] \in Nat /\ hbar["SimpleAuction"] \in Nat /\ hbar["BlindAuction"] \in Nat
      /\ hbar["Purchase"] \in Nat /\ hbar["PaymentChannel"] \in Nat
  BY DEF IInv, WhbarInv, AuctionInv, BlindInv, PurchaseInv, ChannelInv, Numbers
<1>3. {"WHBAR", "SimpleAuction", "BlindAuction", "Purchase", "PaymentChannel"} \subseteq Contracts
  BY DEF Contracts
<1>4. \A d \in Contracts \ {c} : hbar[d] \in Nat => Spared(d)
  BY <1>1, StepSpares
<1> QED
  BY <1>1, <1>2, <1>3, <1>4, WhbarSpared, AuctionSpared, BlindSpared, PurchaseSpared,
     ChannelSpared DEF IInv

LEMMA NextIInv == IInv /\ [Next]_vars => IInv'
<1> SUFFICES ASSUME IInv, [Next]_vars PROVE IInv'
  OBVIOUS
<1>1. Contracts = {"WHBAR", "SimpleAuction", "BlindAuction", "Purchase", "PaymentChannel",
                   "Ballot"}
  BY DEF Contracts
<1>2. Shape /\ WhbarInv /\ AuctionInv /\ BlindInv /\ PurchaseInv /\ ChannelInv /\ BallotInv
  BY DEF IInv
<1>3. \A c \in Contracts : StepOf(c) => Shape'
  BY DEF StepOf
<1>4. ballot' = ballot => BallotInv'
  BY <1>2 DEF BallotInv
<1>5. CASE WhbarStep
  <2>1. StepOf("WHBAR") /\ WhbarInv'
    BY <1>2, <1>5, WhbarStepBooks, WhbarStepKeeps
  <2>2. auction' = auction /\ blind' = blind /\ purchase' = purchase /\ channel' = channel
        /\ signed' = signed /\ ballot' = ballot
    BY <1>5 DEF WhbarStep
  <2> QED BY <1>1, <1>3, <1>4, <2>1, <2>2, OthersKept DEF IInv
<1>6. CASE SimpleAuctionStep
  <2>1. StepOf("SimpleAuction") /\ AuctionInv'
    BY <1>2, <1>6, AuctionStepBooks, AuctionStepKeeps
  <2>2. whbar' = whbar /\ blind' = blind /\ purchase' = purchase /\ channel' = channel
        /\ signed' = signed /\ ballot' = ballot
    BY <1>6 DEF SimpleAuctionStep
  <2> QED BY <1>1, <1>3, <1>4, <2>1, <2>2, OthersKept DEF IInv
<1>7. CASE BlindAuctionStep
  <2>1. StepOf("BlindAuction") /\ BlindInv'
    BY <1>2, <1>7, BlindStepBooks, BlindStepKeeps
  <2>2. whbar' = whbar /\ auction' = auction /\ purchase' = purchase /\ channel' = channel
        /\ signed' = signed /\ ballot' = ballot
    BY <1>7 DEF BlindAuctionStep
  <2> QED BY <1>1, <1>3, <1>4, <2>1, <2>2, OthersKept DEF IInv
<1>8. CASE PurchaseStep
  <2>1. StepOf("Purchase") /\ PurchaseInv'
    BY <1>2, <1>8, PurchaseStepBooks, PurchaseStepKeeps
  <2>2. whbar' = whbar /\ auction' = auction /\ blind' = blind /\ channel' = channel
        /\ signed' = signed /\ ballot' = ballot
    BY <1>8 DEF PurchaseStep
  <2> QED BY <1>1, <1>3, <1>4, <2>1, <2>2, OthersKept DEF IInv
<1>9. CASE PaymentChannelStep
  <2>1. StepOf("PaymentChannel") /\ ChannelInv'
    BY <1>2, <1>9, ChannelStepBooks, ChannelStepKeeps
  <2>2. whbar' = whbar /\ auction' = auction /\ blind' = blind /\ purchase' = purchase
        /\ ballot' = ballot
    BY <1>9 DEF PaymentChannelStep
  <2> QED BY <1>1, <1>3, <1>4, <2>1, <2>2, OthersKept DEF IInv
<1>10. CASE BallotStep
  <2>1. StepOf("Ballot") /\ BallotInv'
    BY <1>2, <1>10, BallotStepBooks, BallotStepKeeps
  <2>2. whbar' = whbar /\ auction' = auction /\ blind' = blind /\ purchase' = purchase
        /\ channel' = channel /\ signed' = signed
    BY <1>10 DEF BallotStep
  <2> QED BY <1>1, <1>3, <1>4, <2>1, <2>2, OthersKept DEF IInv
<1>11. CASE NetworkStep
  <2>1. whbar' = whbar /\ auction' = auction /\ blind' = blind /\ purchase' = purchase
        /\ channel' = channel /\ signed' = signed /\ ballot' = ballot
    BY <1>11 DEF NetworkStep
  <2>2. Shape' /\ \A c \in Contracts : hbar[c] \in Nat => Spared(c)
    BY <1>2, <1>11, NetworkStepBooks
  <2>3. hbar["WHBAR"] \in Nat /\ hbar["SimpleAuction"] \in Nat /\ hbar["BlindAuction"] \in Nat
        /\ hbar["Purchase"] \in Nat /\ hbar["PaymentChannel"] \in Nat
    BY <1>2 DEF WhbarInv, AuctionInv, BlindInv, PurchaseInv, ChannelInv, Numbers
  <2>4. Spared("WHBAR") /\ Spared("SimpleAuction") /\ Spared("BlindAuction")
        /\ Spared("Purchase") /\ Spared("PaymentChannel")
    BY <1>1, <2>2, <2>3
  <2> QED BY <1>2, <1>4, <2>1, <2>2, <2>4, WhbarSpared, AuctionSpared, BlindSpared,
             PurchaseSpared, ChannelSpared DEF IInv
<1>12. CASE UNCHANGED vars
  <2>1. UNCHANGED <<hbar, stake, now, donated, deployable, whbar, auction, blind, purchase,
                    channel, signed, ballot>>
    BY <1>12 DEF vars, ledger
  <2>2. Shape' /\ WhbarInv' /\ AuctionInv'
    BY <1>2, <2>1
    DEF Shape, WhbarInv, WhbarBacked, WhbarSupplyHeld, AuctionInv, BidsReturnable, Numbers
  <2>3. BlindInv'
    BY <1>2, <2>1 DEF BlindInv, BlindBidsReturnable, Deposits, Numbers
  <2>4. PurchaseInv' /\ ChannelInv'
    BY <1>2, <2>1
    DEF PurchaseInv, PurchaseSettles, HavePaid, ChannelInv, ChannelPaysOnce, Numbers
  <2> QED BY <1>4, <2>1, <2>2, <2>3, <2>4 DEF IInv
<1> QED BY <1>5, <1>6, <1>7, <1>8, <1>9, <1>10, <1>11, <1>12 DEF Next

\* The invariant the theorems rest on.
THEOREM Invariance == Spec => []IInv
<1> QED BY InitIInv, NextIInv, PTL DEF Spec

\* However programs call back in while WHBAR.withdraw pays them, its HBAR covers
\* all WHBAR there is: the balance is reduced before the call.
THEOREM WhbarIsBacked == Spec => []WhbarBacked
<1>1. IInv => WhbarBacked
  BY DEF IInv, WhbarInv
<1> QED BY <1>1, Invariance, PTL

\* WHBAR's supply is what the accounts have, through deposits, withdrawals that
\* are called back into and transfers, to oneself too.
THEOREM WhbarSupplied == Spec => []WhbarSupplyHeld
<1>1. IInv => WhbarSupplyHeld
  BY DEF IInv, WhbarInv
<1> QED BY <1>1, Invariance, PTL

\* WHBAR implements the abstract ERC-20 token: however its calls are nested, a
\* deposit mints for its caller, a withdrawal burns what its caller has, and
\* transferFrom moves what is the caller's or approved to him, and takes it off
\* what was approved.
THEOREM WhbarImplementsErc20 == Spec => WhbarIsErc20
<1>1. Init => WhbarToken!EInit
  BY Absent DEF Init, WhbarToken!EInit, NoBalances
<1>2. IInv /\ [Next]_vars => [WhbarToken!ENext]_(WhbarToken!tokens)
  BY WhbarRefines DEF IInv
<1> QED BY <1>1, <1>2, Invariance, PTL DEF Spec, WhbarIsErc20, WhbarToken!ESpec

\* SimpleAuction owes every bidder exactly what he paid and did not get back.
THEOREM BidsReturned == Spec => []BidsReturnable
<1>1. IInv => BidsReturnable
  BY DEF IInv, AuctionInv
<1> QED BY <1>1, Invariance, PTL

\* The blind auction owes every account its deposits, its return and its highest
\* bid, however many of its bids outbid each other in one call of reveal.
THEOREM BlindBidsReturned == Spec => []BlindBidsReturnable
<1>1. IInv => BlindBidsReturnable
  BY DEF IInv, BlindInv
<1> QED BY <1>1, Invariance, PTL

\* A remote purchase leaves seller and buyer with what was agreed.
THEOREM PurchaseSettled == Spec => []PurchaseSettles
<1>1. IInv => PurchaseSettles
  BY DEF IInv, PurchaseInv
<1> QED BY <1>1, Invariance, PTL

\* However often the recipient closes the channel, it takes no more out of it
\* than the largest amount the sender signed for.
THEOREM ChannelPaidOnce == Spec => []ChannelPaysOnce
<1>1. IInv => ChannelPaysOnce
  BY DEF IInv, ChannelInv
<1> QED BY <1>1, Invariance, PTL

\* Whoever has the right to vote counts once, where his delegations lead, in
\* whatever order rights, delegations and votes came.
THEOREM VoicesCounted == Spec => []EachVoiceCounts
<1>1. IInv => EachVoiceCounts
  BY VoicesCount DEF IInv
<1> QED BY <1>1, Invariance, PTL

\* No call of anybody but the recipient takes HBAR out of a channel that has not
\* expired, and no call makes it expire sooner.
THEOREM ChannelKept == Spec => ChannelHolds
<1>1. ASSUME IInv, [Next]_vars, channel.exists
      PROVE  /\ channel.expiration <= channel'.expiration
             /\ hbar'["PaymentChannel"] < hbar["PaymentChannel"] =>
                  sender' = channel.recipient \/ channel.expiration <= now
  <2> DEFINE c == "PaymentChannel"
  <2>1. c \in Contracts /\ Shape /\ hbar[c] \in Nat /\ channel.expiration \in Nat
    BY <1>1, ChannelTyped DEF Contracts, IInv, ChannelInv, Numbers
  <2>2. CASE PaymentChannelStep
    BY <1>1, <2>2, ChannelStepHolds DEF IInv
  <2>3. CASE channel' = channel /\ (hbar'[c] = hbar[c] \/ Spared(c))
    BY <2>1, <2>3 DEF Spared
  <2>4. \A d \in Contracts : d # c /\ StepOf(d) => hbar'[c] = hbar[c]
    BY <2>1 DEF StepOf, Kept
  <2>5. \/ PaymentChannelStep
        \/ channel' = channel /\ (hbar'[c] = hbar[c] \/ Spared(c))
    <3>1. {"WHBAR", "SimpleAuction", "BlindAuction", "Purchase", "Ballot"} \subseteq Contracts
      BY DEF Contracts
    <3>2. CASE WhbarStep
      BY <1>1, <2>4, <3>1, <3>2, WhbarStepBooks DEF IInv, WhbarStep
    <3>3. CASE SimpleAuctionStep
      BY <1>1, <2>4, <3>1, <3>3, AuctionStepBooks DEF IInv, SimpleAuctionStep
    <3>4. CASE BlindAuctionStep
      BY <1>1, <2>4, <3>1, <3>4, BlindStepBooks DEF IInv, BlindAuctionStep
    <3>5. CASE PurchaseStep
      BY <1>1, <2>4, <3>1, <3>5, PurchaseStepBooks DEF IInv, PurchaseStep
    <3>6. CASE BallotStep
      BY <1>1, <2>4, <3>1, <3>6, BallotStepBooks DEF IInv, BallotStep
    <3>7. CASE NetworkStep
      BY <2>1, <3>7, NetworkStepBooks DEF NetworkStep
    <3>8. CASE UNCHANGED vars
      BY <3>8 DEF vars, ledger
    <3> QED BY <1>1, <3>2, <3>3, <3>4, <3>5, <3>6, <3>7, <3>8 DEF Next
  <2> QED BY <2>2, <2>3, <2>5
<1>2. IInv /\ [Next]_vars =>
        [channel.exists =>
           /\ channel.expiration <= channel'.expiration
           /\ hbar'["PaymentChannel"] < hbar["PaymentChannel"] =>
                sender' = channel.recipient \/ channel.expiration <= now]_vars
  BY <1>1
<1> QED BY <1>2, Invariance, PTL DEF Spec, ChannelHolds

----------------------------------------------------------------------------
(* Types: beside the inductive invariant only the ledger needs a proof.    *)

Books == /\ hbar \in [Accounts \cup Contracts -> Nat]
         /\ stake \in [Contracts -> [Accounts -> Int]]

\* One payment at the most, from the caller or to somebody.
PaysOnce ==
  \/ NoPayment
  \/ \E c \in Contracts, s \in Accounts, v \in Nat : TakeIn(c, s, v) \/ PayOut(c, s, v)

LEMMA MovedTyped ==
  ASSUME NEW h \in [Accounts \cup Contracts -> Nat], NEW from \in Accounts \cup Contracts,
         NEW to \in Accounts \cup Contracts, from # to, NEW v \in Nat, v <= h[from]
  PROVE  Moved(h, from, to, v) \in [Accounts \cup Contracts -> Nat]
<1>1. h[from] \in Nat /\ h[to] \in Nat /\ h[from] - v \in Nat /\ h[to] + v \in Nat
  OBVIOUS
<1>2. Moved(h, from, to, v) = [h EXCEPT ![from] = h[from] - v, ![to] = h[to] + v]
  BY DEF Moved
<1> QED BY <1>1, <1>2

LEMMA StakeTyped ==
  ASSUME NEW st \in [Contracts -> [Accounts -> Int]], NEW c \in Contracts, NEW s \in Accounts,
         NEW v \in Int
  PROVE  [st EXCEPT ![c][s] = v] \in [Contracts -> [Accounts -> Int]]
OBVIOUS

LEMMA PaymentTyped ==
  ASSUME Books, PaysOnce
  PROVE  Books'
<1>1. CASE NoPayment
  BY <1>1 DEF Books, NoPayment
<1>2. CASE \E c \in Contracts, s \in Accounts, v \in Nat : TakeIn(c, s, v) \/ PayOut(c, s, v)
  <2>1. PICK c \in Contracts, s \in Accounts, v \in Nat : TakeIn(c, s, v) \/ PayOut(c, s, v)
    BY <1>2
  <2>2. c # s /\ stake[c][s] \in Int /\ stake[c][s] + v \in Int /\ stake[c][s] - v \in Int
    BY LedgerAssumption DEF Books
  <2>3. CASE TakeIn(c, s, v)
    <3>1. v <= hbar[s] /\ hbar' = Moved(hbar, s, c, v)
          /\ stake' = [stake EXCEPT ![c][s] = stake[c][s] + v]
      BY <2>3 DEF TakeIn
    <3> QED BY <2>2, <3>1, MovedTyped, StakeTyped DEF Books
  <2>4. CASE PayOut(c, s, v)
    <3>1. v <= hbar[c] /\ hbar' = Moved(hbar, c, s, v)
          /\ stake' = [stake EXCEPT ![c][s] = stake[c][s] - v]
      BY <2>4 DEF PayOut
    <3> QED BY <2>2, <3>1, MovedTyped, StakeTyped DEF Books
  <2> QED BY <2>1, <2>3, <2>4
<1> QED BY <1>1, <1>2 DEF PaysOnce

\* close pays twice.
LEMMA CloseTyped ==
  ASSUME Books, ChannelInv, NEW s, NEW amount \in Amounts, PaymentChannel_close(s, amount)
  PROVE  Books'
<1> DEFINE c == "PaymentChannel"
           r == channel.recipient
           t == channel.sender
           rest == hbar[c] - amount
           h  == Moved(hbar, c, r, amount)
<1>1. c \in Contracts /\ r \in Accounts /\ t \in Accounts /\ c # r /\ c # t
  BY ChannelTyped, LedgerAssumption DEF PaymentChannel_close, Contracts
<1>2. amount \in Nat /\ amount <= hbar[c] /\ hbar[c] \in Nat /\ rest \in Nat
  <2>1. amount \in Nat /\ amount <= hbar[c]
    BY ChannelAssumption DEF PaymentChannel_close
  <2>2. hbar[c] \in Nat
    BY <1>1 DEF Books
  <2> QED BY <2>1, <2>2
<1>3. h \in [Accounts \cup Contracts -> Nat]
  BY <1>1, <1>2, MovedTyped DEF Books
<1>4. h[c] = rest
  BY <1>1 DEF Moved, Books
<1>5. hbar' = Moved(h, c, t, rest)
  BY DEF PaymentChannel_close
<1>6. hbar' \in [Accounts \cup Contracts -> Nat]
  <2> HIDE DEF h, rest
  <2>1. rest <= h[c]
    BY <1>2, <1>4
  <2> QED BY <1>1, <1>2, <1>3, <1>5, <2>1, MovedTyped
<1>7. stake' \in [Contracts -> [Accounts -> Int]]
  <2>1. stake' = [stake EXCEPT ![c][r] = @ - amount, ![c][t] = @ - rest]
    BY DEF PaymentChannel_close
  <2>2. stake'[c] = [stake[c] EXCEPT ![r] = @ - amount, ![t] = @ - rest]
    BY <1>1, <2>1 DEF Books
  <2>3. /\ \A d \in Contracts \ {c} : stake'[d] = stake[d]
        /\ stake' = [d \in Contracts |-> stake'[d]]
    BY <2>1 DEF Books
  <2>4. stake'[c] \in [Accounts -> Int]
    <3> HIDE DEF rest
    <3>1. stake[c] \in [Accounts -> Int]
      BY <1>1 DEF Books
    <3> QED BY <1>1, <1>2, <2>2, <3>1
  <2> QED BY <2>3, <2>4 DEF Books
<1> QED BY <1>6, <1>7 DEF Books

\* Who calls, and when.
Clock == /\ now \in 0 .. MaxTime /\ depth \in 0 .. MaxDepth /\ donated \in 0 .. MaxDonated
         /\ sender \in Accounts

LEMMA ClockKept ==
  ASSUME Clock, UNCHANGED chain, sender' \in Accounts
  PROVE  Clock'
BY DEF Clock, chain

LEMMA WhbarTypes ==
  ASSUME Books, Clock, Shape, WhbarStep
  PROVE  Books' /\ Clock'
<1>1. Values \subseteq Nat /\ "WHBAR" \in Contracts
  BY ContractsAssumption DEF Values, Contracts
<1>2. PaysOnce
  BY <1>1 DEF WhbarStep, WHBAR_constructor, WHBAR_deposit, WHBAR_withdraw,
       WHBAR_withdrawReturns, WHBAR_approve, WHBAR_transferFrom, PaysOnce
<1>3. CASE \E s \in Accounts, v \in Values : WHBAR_withdraw(s, v)
  <2>1. PICK s \in Accounts, v \in Values : WHBAR_withdraw(s, v)
    BY <1>3
  <2>2. /\ sender' \in Accounts /\ now' = now /\ donated' = donated /\ depth' <= MaxDepth
        /\ depth' = depth \/ depth' = depth + 1
    BY <2>1 DEF WHBAR_withdraw, CalledBy, OpensFrame
  <2>3. depth' \in 0 .. MaxDepth
    BY <2>2, LedgerAssumption DEF Clock
  <2> QED BY <1>2, <2>2, <2>3, PaymentTyped DEF Clock
<1>4. CASE WHBAR_withdrawReturns
  <2>1. depth > 0 /\ depth' = depth - 1 /\ now' = now /\ donated' = donated /\ sender' = sender
    BY <1>4 DEF WHBAR_withdrawReturns
  <2>2. depth' \in 0 .. MaxDepth
    BY <2>1, LedgerAssumption DEF Clock
  <2> QED BY <1>2, <2>1, <2>2, PaymentTyped DEF Clock
<1>5. CASE UNCHANGED chain /\ sender' \in Accounts
  BY <1>2, <1>5, PaymentTyped, ClockKept
<1> QED
  BY <1>3, <1>4, <1>5 DEF WhbarStep, WHBAR_constructor, WHBAR_deposit, WHBAR_approve,
       WHBAR_transferFrom, CalledBy

LEMMA AuctionTypes ==
  ASSUME Books, Clock, AuctionInv, SimpleAuctionStep
  PROVE  Books' /\ Clock'
<1>1. Values \subseteq Nat /\ "SimpleAuction" \in Contracts
  BY ContractsAssumption DEF Values, Contracts
<1>2. PICK s \in Accounts :
        \/ \E b \in Accounts : SimpleAuction_constructor(s, BiddingTime, b)
        \/ \E v \in Values : SimpleAuction_bid(s, v)
        \/ SimpleAuction_withdraw(s)
        \/ SimpleAuction_auctionEnd(s)
  BY DEF SimpleAuctionStep
<1>3. auction.exists =>
        /\ auction.beneficiary \in Accounts /\ auction.highestBid \in Nat
        /\ \A a \in Accounts : auction.pendingReturns[a] \in Nat
  <2>1. auction.exists => auction.pendingReturns \in [Accounts -> Nat]
    BY AuctionTyped
  <2> QED BY <2>1, AuctionTyped
<1>4. PaysOnce
  BY <1>1, <1>2, <1>3 DEF SimpleAuction_constructor, SimpleAuction_bid,
       SimpleAuction_withdraw, SimpleAuction_auctionEnd, PaysOnce
<1>5. UNCHANGED chain /\ sender' \in Accounts
  BY <1>2 DEF SimpleAuction_constructor, SimpleAuction_bid, SimpleAuction_withdraw,
       SimpleAuction_auctionEnd, CalledBy
<1> QED BY <1>4, <1>5, PaymentTyped, ClockKept

LEMMA BlindTypes ==
  ASSUME Books, Clock, BlindInv, BlindAuctionStep
  PROVE  Books' /\ Clock'
<1>1. Deposited \subseteq Nat /\ "BlindAuction" \in Contracts
  BY ContractsAssumption DEF Values, Deposited, Contracts
<1>2. PICK s \in Accounts :
        \/ \E b \in Accounts : BlindAuction_constructor(s, BiddingTime, RevealTime, b)
        \/ \E hidden \in Offers, v \in Deposited : BlindAuction_bid(s, hidden, v)
        \/ \E right \in SUBSET (1 .. MaxBids) : BlindAuction_reveal(s, right)
        \/ BlindAuction_withdraw(s)
        \/ BlindAuction_auctionEnd(s)
  BY DEF BlindAuctionStep
<1>3. blind.exists =>
        /\ blind \in BlindType /\ blind.beneficiary \in Accounts /\ blind.highestBid \in Nat
        /\ \A a \in Accounts : blind.pendingReturns[a] \in Nat
  <2>1. blind.exists => blind.pendingReturns \in [Accounts -> Nat]
    BY BlindTyped
  <2> QED BY <2>1, BlindTyped
<1>4. blind.exists => \A right : RevealLoop(s, right).refund \in Nat
  BY <1>3, RevealSettles DEF Settled
<1>5. PaysOnce
  BY <1>1, <1>2, <1>3, <1>4 DEF BlindAuction_constructor, BlindAuction_bid,
       BlindAuction_reveal, BlindAuction_withdraw, BlindAuction_auctionEnd, PaysOnce
<1>6. UNCHANGED chain /\ sender' \in Accounts
  BY <1>2 DEF BlindAuction_constructor, BlindAuction_bid, BlindAuction_reveal,
       BlindAuction_withdraw, BlindAuction_auctionEnd, CalledBy
<1> QED BY <1>5, <1>6, PaymentTyped, ClockKept

LEMMA PurchaseTypes ==
  ASSUME Books, Clock, PurchaseInv, PurchaseStep
  PROVE  Books' /\ Clock'
<1>1. Values \subseteq Nat /\ "Purchase" \in Contracts
  BY ContractsAssumption DEF Values, Contracts
<1>2. PICK s \in Accounts :
        \/ \E v \in Values : Purchase_constructor(s, v)
        \/ Purchase_abort(s)
        \/ Purchase_confirmPurchase(s)
        \/ Purchase_confirmReceived(s)
        \/ Purchase_refundSeller(s)
  BY DEF PurchaseStep
<1>3. hbar["Purchase"] \in Nat
  BY <1>1 DEF Books
<1>4. purchase.exists =>
        purchase.value \in Nat /\ 2 * purchase.value \in Nat /\ 3 * purchase.value \in Nat
  <2>1. purchase.exists => purchase.value \in Nat
    BY PurchaseTyped
  <2> QED BY <2>1
<1>5. PaysOnce
  BY <1>1, <1>2, <1>3, <1>4 DEF Purchase_constructor, Purchase_abort,
       Purchase_confirmPurchase, Purchase_confirmReceived, Purchase_refundSeller, PaysOnce
<1>6. UNCHANGED chain /\ sender' \in Accounts
  BY <1>2 DEF Purchase_constructor, Purchase_abort, Purchase_confirmPurchase,
       Purchase_confirmReceived, Purchase_refundSeller, CalledBy
<1> QED BY <1>5, <1>6, PaymentTyped, ClockKept

LEMMA ChannelTypes ==
  ASSUME Books, Clock, ChannelInv, PaymentChannelStep
  PROVE  Books' /\ Clock'
<1>1. Values \subseteq Nat /\ "PaymentChannel" \in Contracts
  BY ContractsAssumption DEF Values, Contracts
<1>2. hbar["PaymentChannel"] \in Nat
  BY <1>1 DEF Books
<1>3. channel.exists => channel.sender \in Accounts
  BY ChannelTyped
<1>4. UNCHANGED chain /\ sender' \in Accounts
  BY DEF PaymentChannelStep, PaymentChannel_constructor, PaymentChannel_close,
       PaymentChannel_extend, PaymentChannel_claimTimeout, Sign, CalledBy, ledger, chain, Clock
<1>5. \/ PaysOnce
      \/ \E s \in Accounts, v \in Amounts : PaymentChannel_close(s, v)
  BY <1>1, <1>2, <1>3 DEF PaymentChannelStep, PaymentChannel_constructor,
       PaymentChannel_extend, PaymentChannel_claimTimeout, Sign, ledger, NoPayment, PaysOnce
<1> QED BY <1>4, <1>5, PaymentTyped, CloseTyped, ClockKept

LEMMA BallotTypes ==
  ASSUME Books, Clock, BallotStep
  PROVE  Books' /\ Clock'
<1>1. UNCHANGED chain /\ sender' \in Accounts /\ NoPayment
  BY ZenonT(60) DEF BallotStep, Ballot_constructor, Ballot_giveRightToVote, Ballot_delegate, Ballot_vote,
         CalledBy
<1> QED BY <1>1, PaymentTyped, ClockKept DEF PaysOnce

LEMMA NetworkTypes ==
  ASSUME Books, Clock, Shape, NetworkStep
  PROVE  Books' /\ Clock'
<1>1. CASE Tick
  <2>1. now' \in 0 .. MaxTime
    BY <1>1, LedgerAssumption DEF Tick, Clock
  <2> QED BY <1>1, <2>1 DEF Tick, Books, Clock
<1>2. CASE \E a \in Accounts, c \in deployable : Donate(a, c)
  <2>1. PICK a \in Accounts, c \in deployable : Donate(a, c)
    BY <1>2
  <2>2. c \in Contracts /\ a # c
    BY LedgerAssumption DEF Shape
  <2>3. hbar[a] \in Nat /\ hbar[a] > 0 /\ hbar' = Moved(hbar, a, c, 1)
    BY <2>1 DEF Donate, Books
  <2>4. hbar' \in [Accounts \cup Contracts -> Nat]
    <3>1. 1 \in Nat /\ 1 <= hbar[a]
      BY <2>3
    <3> QED BY <2>2, <2>3, <3>1, MovedTyped DEF Books
  <2>5. donated' \in 0 .. MaxDonated
    BY <2>1, LedgerAssumption DEF Donate, Clock
  <2> QED BY <2>1, <2>4, <2>5 DEF Donate, Books, Clock
<1> QED BY <1>1, <1>2 DEF NetworkStep

LEMMA LedgerTyped == IInv /\ Books /\ Clock /\ [Next]_vars => Books' /\ Clock'
<1> SUFFICES ASSUME IInv, Books, Clock, [Next]_vars PROVE Books' /\ Clock'
  OBVIOUS
<1>1. Shape /\ AuctionInv /\ BlindInv /\ PurchaseInv /\ ChannelInv
  BY DEF IInv
<1>2. CASE UNCHANGED vars
  BY <1>2 DEF vars, ledger, Books, Clock
<1> QED
  BY <1>1, <1>2, WhbarTypes, AuctionTypes, BlindTypes, PurchaseTypes, ChannelTypes,
     BallotTypes, NetworkTypes DEF Next

LEMMA LedgerInit == Init => Books /\ Clock
<1> SUFFICES ASSUME Init PROVE Books /\ Clock
  OBVIOUS
<1>1. PICK d \in Deployments :
        hbar = [a \in Accounts \cup Contracts |-> IF a \in Accounts THEN d.funds[a] ELSE 0]
  BY DEF Init
<1>2. \A a \in Accounts : d.funds[a] \in Nat
  BY ContractsAssumption
<1>3. hbar \in [Accounts \cup Contracts -> Nat]
  BY <1>1, <1>2
<1>4. stake \in [Contracts -> [Accounts -> Int]]
  BY DEF Init
<1>5. Clock
  BY LedgerAssumption DEF Init, Clock
<1> QED BY <1>3, <1>4, <1>5 DEF Books

\* Nobody's balance is ever negative, nor WHBAR's supply, and whatever the blind
\* auction gives back in one call of reveal is an amount.
THEOREM TypeCorrect == Spec => []TypeOK
<1>1. IInv /\ Books /\ Clock => TypeOK
  <2> SUFFICES ASSUME IInv, Books, Clock PROVE TypeOK
    OBVIOUS
  <2>1. LedgerTypeOK
    BY DEF Books, Clock, LedgerTypeOK
  <2>2. auction \in {NoAuction} \cup AuctionType /\ blind \in {NoBlind} \cup BlindType
        /\ purchase \in {NoPurchase} \cup PurchaseType
        /\ channel \in {NoChannel} \cup ChannelType /\ signed \subseteq Amounts
        /\ ballot \in {NoBallot} \cup BallotType
    BY DEF IInv, AuctionInv, BlindInv, PurchaseInv, ChannelInv, BallotInv
  <2>3. whbar \in {NoWhbar} \cup WhbarType
    <3>1. CASE whbar = NoWhbar
      BY <3>1
    <3>2. CASE whbar \in WhbarShape
      <4>1. whbar.exists /\ whbar.balanceOf \in [Accounts -> Nat]
        BY <3>2 DEF WhbarShape
      <4>2. whbar.whbarTotalSupply = SumFunction(whbar.balanceOf)
        BY <4>1 DEF IInv, WhbarInv, WhbarSupplyHeld
      <4>3. whbar.whbarTotalSupply \in Nat
        BY <4>1, <4>2, BallotAssumption, SumType
      <4> QED BY <3>2, <4>3 DEF WhbarShape, WhbarType
    <3> QED BY <3>1, <3>2 DEF IInv, WhbarInv
  <2> QED BY <2>1, <2>2, <2>3 DEF TypeOK
<1> QED BY <1>1, InitIInv, NextIInv, LedgerInit, LedgerTyped, PTL DEF Spec
=============================================================================

--------------------------- MODULE HbarContracts ---------------------------
(***************************************************************************)
(* The Solidity examples on one network: the same accounts deploy them,    *)
(* call them, pay them and are paid by them.  While WHBAR pays a program,  *)
(* programs call any of them from within.                                  *)
(***************************************************************************)
EXTENDS WHBAR, SimpleAuction, BlindAuction, SafeRemotePurchase, PaymentChannel, Ballot,
        FiniteSetsExt

CONSTANTS MaxFunds,     \* HBAR of an account at first, and of a payment
          Deployments,  \* networks: their contracts, and the accounts' HBAR
          Offers,       \* what blinded bids hide
          BiddingTime, RevealTime, Duration

ASSUME ContractsAssumption ==
  /\ MaxFunds \in Nat
  /\ Deployments \subseteq [contracts : SUBSET Contracts, funds : [Accounts -> 0 .. MaxFunds]]
  /\ Offers \subseteq Hidden /\ Revealed \notin Offers
  /\ BiddingTime \in Nat /\ RevealTime \in Nat /\ Duration \in Nat

VARIABLE deployable

vars == <<ledger, whbar, auction, blind, purchase, channel, signed, ballot, deployable>>

Init ==
  /\ \E d \in Deployments :
       /\ deployable = d.contracts
       /\ hbar = [a \in Accounts \cup Contracts |-> IF a \in Accounts THEN d.funds[a] ELSE 0]
  /\ stake = [c \in Contracts |-> [a \in Accounts |-> 0]]
  /\ now = 0 /\ depth = 0 /\ donated = 0 /\ sender \in Accounts
  /\ whbar = NoWhbar /\ auction = NoAuction /\ blind = NoBlind /\ purchase = NoPurchase
  /\ channel = NoChannel /\ signed = {} /\ ballot = NoBallot

Values == 0 .. MaxFunds

\* Only these read the time, and only differences of times: what is deployed is
\* deployed at time 0.
Timed == {"SimpleAuction", "BlindAuction", "PaymentChannel"}

\* Bounds: a bid with no deposit is never placed; allowances are given where WHBAR is by itself.
Deposited == Values \ {0}
Approving == deployable = {"WHBAR"}

Deployable(c) == c \in deployable /\ now = 0

WhbarStep ==
  /\ \/ \E s \in Accounts :
          \/ Deployable("WHBAR") /\ WHBAR_constructor(s)
          \/ \E v \in Values : WHBAR_deposit(s, v)
          \/ \E v \in Values : WHBAR_withdraw(s, v)
          \/ Approving /\ \E guy \in Programs \ {s}, v \in Approvals : WHBAR_approve(s, guy, v)
          \/ \E src, dst \in Accounts, v \in Values : WHBAR_transferFrom(s, src, dst, v)
     \/ WHBAR_withdrawReturns
  /\ UNCHANGED <<auction, blind, purchase, channel, signed, ballot, deployable>>

SimpleAuctionStep ==
  /\ \E s \in Accounts :
       \/ /\ Deployable("SimpleAuction")
          /\ \E b \in Accounts : SimpleAuction_constructor(s, BiddingTime, b)
       \/ \E v \in Values : SimpleAuction_bid(s, v)
       \/ SimpleAuction_withdraw(s)
       \/ SimpleAuction_auctionEnd(s)
  /\ UNCHANGED <<whbar, blind, purchase, channel, signed, ballot, deployable>>

BlindAuctionStep ==
  /\ \E s \in Accounts :
       \/ /\ Deployable("BlindAuction")
          /\ \E b \in Accounts : BlindAuction_constructor(s, BiddingTime, RevealTime, b)
       \/ \E hidden \in Offers, v \in Deposited : BlindAuction_bid(s, hidden, v)
       \/ \E right \in SUBSET (1 .. MaxBids) : BlindAuction_reveal(s, right)
       \/ BlindAuction_withdraw(s)
       \/ BlindAuction_auctionEnd(s)
  /\ UNCHANGED <<whbar, auction, purchase, channel, signed, ballot, deployable>>

PurchaseStep ==
  /\ \E s \in Accounts :
       \/ Deployable("Purchase") /\ \E v \in Values : Purchase_constructor(s, v)
       \/ Purchase_abort(s)
       \/ Purchase_confirmPurchase(s)
       \/ Purchase_confirmReceived(s)
       \/ Purchase_refundSeller(s)
  /\ UNCHANGED <<whbar, auction, blind, channel, signed, ballot, deployable>>

PaymentChannelStep ==
  /\ \/ \E s \in Accounts :
          \/ /\ Deployable("PaymentChannel")
             /\ \E r \in Accounts, v \in Values : PaymentChannel_constructor(s, r, Duration, v)
          \/ \E v \in Amounts : PaymentChannel_close(s, v)
          \/ \E t \in 0 .. MaxTime : PaymentChannel_extend(s, t)
          \/ PaymentChannel_claimTimeout(s)
     \/ \E v \in Amounts : Sign(v)
  /\ UNCHANGED <<whbar, auction, blind, purchase, ballot, deployable>>

BallotStep ==
  /\ \E s \in Accounts :
       \/ Deployable("Ballot") /\ Ballot_constructor(s)
       \/ \E a \in Accounts : Ballot_giveRightToVote(s, a)
       \/ \E a \in Accounts : Ballot_delegate(s, a)
       \/ \E p \in Proposals : Ballot_vote(s, p)
  /\ UNCHANGED <<whbar, auction, blind, purchase, channel, signed, deployable>>

NetworkStep ==
  /\ \/ \E a \in Accounts, c \in deployable : Donate(a, c)
     \/ deployable \cap Timed # {} /\ Tick
  /\ UNCHANGED <<whbar, auction, blind, purchase, channel, signed, ballot, deployable>>

Next ==
  \/ WhbarStep
  \/ SimpleAuctionStep
  \/ BlindAuctionStep
  \/ PurchaseStep
  \/ PaymentChannelStep
  \/ BallotStep
  \/ NetworkStep

Spec == Init /\ [][Next]_vars

----------------------------------------------------------------------------
TypeOK ==
  /\ LedgerTypeOK
  /\ whbar \in {NoWhbar} \cup WhbarType
  /\ auction \in {NoAuction} \cup AuctionType
  /\ blind \in {NoBlind} \cup BlindType
  /\ purchase \in {NoPurchase} \cup PurchaseType
  /\ channel \in {NoChannel} \cup ChannelType /\ signed \subseteq Amounts
  /\ ballot \in {NoBallot} \cup BallotType

\* In every frame of a call that re-enters, WHBAR holds HBAR for all its supply.
WhbarBacked == whbar.exists => whbar.whbarTotalSupply <= hbar["WHBAR"]

\* The supply is what the accounts have, also after a transfer to oneself.
WhbarSupplyHeld == whbar.exists => whbar.whbarTotalSupply = SumFunction(whbar.balanceOf)

\* WHBAR is an ERC-20 token, its empty one before it is deployed: whoever is
\* called back by whom, only its holder and those he approved move it, approvals
\* are his, and are used up; only deposits and withdrawals change the supply.
NoBalances == [a \in Accounts |-> 0]
WhbarToken == INSTANCE Erc20 WITH
  balance     <- IF whbar.exists THEN whbar.balanceOf ELSE NoBalances,
  allowance   <- IF whbar.exists THEN whbar.allowance ELSE [a \in Accounts |-> NoBalances],
  totalSupply <- IF whbar.exists THEN whbar.whbarTotalSupply ELSE 0,
  caller      <- sender
WhbarIsErc20 == WhbarToken!ESpec

\* To the HBAR an account has in the auction belongs a bid, or a return it can
\* have; only the beneficiary takes more, once, and no more than the highest
\* bid.  That is so even if a bid comes after the end, in its very second.
BidsReturnable ==
  auction.exists =>
    \A a \in Accounts :
      LET own == auction.pendingReturns[a]
                   + IF a = auction.highestBidder THEN auction.highestBid ELSE 0
          has == stake["SimpleAuction"][a]
      IN /\ a # auction.beneficiary \/ ~auction.ended => has = own
         /\ own - auction.highestBid <= has /\ has <= own

Deposits(bids) ==
  SumFunction([i \in DOMAIN bids |-> IF bids[i].blindedBid = Revealed THEN 0
                                     ELSE bids[i].deposit])

\* The same of the blind auction: to what an account has in it belong deposits
\* of bids not revealed, a return, or the highest bid, whatever bids of an
\* account outbid each other in one call of reveal.
BlindBidsReturnable ==
  blind.exists =>
    \A a \in Accounts :
      stake["BlindAuction"][a] =
        Deposits(blind.bids[a]) + blind.pendingReturns[a]
          + (IF a = blind.highestBidder THEN blind.highestBid ELSE 0)
          - (IF a = blind.beneficiary /\ blind.ended THEN blind.highestBid ELSE 0)

HavePaid(sellers, buyers) ==
  \A a \in Accounts :
    stake["Purchase"][a] = (IF a = purchase.seller THEN sellers ELSE 0)
                             + (IF a = purchase.buyer THEN buyers ELSE 0)

\* At rest the buyer has paid the value and the seller has it, less the odd unit
\* that nobody can take out; an aborted purchase leaves no HBAR of the seller.
PurchaseSettles ==
  purchase.exists =>
    \E odd \in {0, 1} :
      LET value   == purchase.value
          deposit == 2 * value + odd
          state   == purchase.state
          aborted == state = "Inactive" /\ purchase.buyer = NoOne
          settled == state = "Inactive" /\ purchase.buyer # NoOne
      IN /\ state = "Created" => HavePaid(deposit, 0)
         /\ state = "Locked"  => HavePaid(deposit, 2 * value)
         /\ state = "Release" => HavePaid(deposit, value)
         /\ settled => HavePaid(odd - value, value)
         /\ aborted => \E more \in 0 .. donated : HavePaid(-more, 0)

\* Until it expires, and the expiration only ever moves away, the recipient can
\* count on all that is in the channel: nobody else's call takes any of it out.
ChannelHolds ==
  [][channel.exists =>
       /\ channel.expiration <= channel'.expiration
       /\ hbar'["PaymentChannel"] < hbar["PaymentChannel"] =>
            sender' = channel.recipient \/ channel.expiration <= now]_vars

\* The recipient never has more than the largest amount signed for, however
\* often he closes the channel, unless it gets HBAR after it was closed.
ChannelPaysOnce ==
  channel.exists /\ donated = 0 /\ channel.sender # channel.recipient =>
    -stake["PaymentChannel"][channel.recipient] <= Max(signed \cup {0})

\* Whoever has the right to vote counts where the last one along his delegations
\* put his vote, once, in whatever order rights, delegations and votes came.
Entitled(a) == ballot.voters[a].weight > 0
EachVoiceCounts ==
  ballot.exists =>
    \A p \in Proposals :
      ballot.voteCount[p] =
        Cardinality({a \in Accounts :
          /\ Entitled(a)
          /\ LET end == ballot.voters[EndOf(a)]
             IN end.voted /\ end.vote = p})
=============================================================================

--------------------------- MODULE PaymentChannel ---------------------------
(***************************************************************************)
(* src/contracts/solidity/payment-channel/PaymentChannel.sol               *)
(*                                                                         *)
(* The sender signs amounts off the chain; a signature holds for this      *)
(* channel and this amount only.                                           *)
(***************************************************************************)
EXTENDS HbarLedger

CONSTANT Amounts

ASSUME ChannelAssumption == Amounts \subseteq Nat

VARIABLES channel,
          signed   \* amounts the recipient has a signature of the sender for

NoChannel == [exists |-> FALSE]

ChannelType ==
  [exists : {TRUE}, sender : Accounts, recipient : Accounts, expiration : Nat]

PaymentChannel_constructor(s, recipientAddress, duration, value) ==
  /\ ~channel.exists /\ CalledBy(s)
  /\ TakeIn("PaymentChannel", s, value)
  /\ channel' = [exists |-> TRUE, sender |-> s, recipient |-> recipientAddress,
                 expiration |-> now + duration]
  /\ UNCHANGED <<chain, signed>>

\* A program has no key to sign with.
Sign(amount) ==
  /\ channel.exists /\ channel.sender \notin Programs
  /\ depth = 0
  /\ signed' = signed \cup {amount}
  /\ UNCHANGED <<channel, ledger>>

\* Mutant: what is left stays in the channel.
PaymentChannel_closeKeepsRest(s, amount) ==
  /\ channel.exists /\ CalledBy(s)
  /\ s = channel.recipient /\ amount \in signed
  /\ PayOut("PaymentChannel", channel.recipient, amount)
  /\ UNCHANGED <<chain, channel, signed>>

\* The recipient gets the amount, the sender what is left.  The channel stays.
PaymentChannel_close(s, amount) ==
  /\ channel.exists /\ CalledBy(s)
  /\ s = channel.recipient /\ amount \in signed
  /\ amount <= hbar["PaymentChannel"]
  /\ LET rest == hbar["PaymentChannel"] - amount
     IN /\ hbar' = Moved(Moved(hbar, "PaymentChannel", channel.recipient, amount),
                         "PaymentChannel", channel.sender, rest)
        /\ stake' = [stake EXCEPT !["PaymentChannel"][channel.recipient] = @ - amount,
                                  !["PaymentChannel"][channel.sender] = @ - rest]
  /\ UNCHANGED <<chain, channel, signed>>

\* Mutant: any expiration is accepted.
PaymentChannel_extendAny(s, newExpiration) ==
  /\ channel.exists /\ CalledBy(s)
  /\ s = channel.sender
  /\ channel' = [channel EXCEPT !.expiration = newExpiration]
  /\ NoPayment /\ UNCHANGED <<chain, signed>>

PaymentChannel_extend(s, newExpiration) ==
  /\ channel.exists /\ CalledBy(s)
  /\ s = channel.sender /\ channel.expiration < newExpiration
  /\ channel' = [channel EXCEPT !.expiration = newExpiration]
  /\ NoPayment /\ UNCHANGED <<chain, signed>>

\* Anybody may call it.
PaymentChannel_claimTimeout(s) ==
  /\ channel.exists /\ CalledBy(s)
  /\ channel.expiration <= now
  /\ PayOut("PaymentChannel", channel.sender, hbar["PaymentChannel"])
  /\ UNCHANGED <<chain, channel, signed>>
=============================================================================

------------------------- MODULE SafeRemotePurchase -------------------------
(* src/contracts/solidity/safe-remote-purchase/SafeRemotePurchase.sol *)
EXTENDS HbarLedger

VARIABLE purchase

NoPurchase == [exists |-> FALSE]

PurchaseType ==
  [exists : {TRUE}, value : Nat, seller : Accounts, buyer : Accounts \cup {NoOne},
   state : {"Created", "Locked", "Release", "Inactive"}]

\* An odd amount is told of by an event and accepted.
Purchase_constructor(s, msgValue) ==
  /\ ~purchase.exists /\ CalledBy(s)
  /\ TakeIn("Purchase", s, msgValue)
  /\ purchase' = [exists |-> TRUE, value |-> msgValue \div 2, seller |-> s, buyer |-> NoOne,
                  state |-> "Created"]
  /\ UNCHANGED chain

Purchase_abort(s) ==
  /\ purchase.exists /\ CalledBy(s)
  /\ s = purchase.seller /\ purchase.state = "Created"
  /\ PayOut("Purchase", s, hbar["Purchase"])
  /\ purchase' = [purchase EXCEPT !.state = "Inactive"]
  /\ UNCHANGED chain

Purchase_confirmPurchase(s) ==
  /\ purchase.exists /\ CalledBy(s)
  /\ purchase.state = "Created"
  /\ TakeIn("Purchase", s, 2 * purchase.value)
  /\ purchase' = [purchase EXCEPT !.buyer = s, !.state = "Locked"]
  /\ UNCHANGED chain

\* Mutant: the buyer gets back all that he paid.
Purchase_confirmReceivedAll(s) ==
  /\ purchase.exists /\ CalledBy(s)
  /\ s = purchase.buyer /\ purchase.state = "Locked"
  /\ PayOut("Purchase", s, 2 * purchase.value)
  /\ purchase' = [purchase EXCEPT !.state = "Release"]
  /\ UNCHANGED chain

Purchase_confirmReceived(s) ==
  /\ purchase.exists /\ CalledBy(s)
  /\ s = purchase.buyer /\ purchase.state = "Locked"
  /\ PayOut("Purchase", s, purchase.value)
  /\ purchase' = [purchase EXCEPT !.state = "Release"]
  /\ UNCHANGED chain

Purchase_refundSeller(s) ==
  /\ purchase.exists /\ CalledBy(s)
  /\ s = purchase.seller /\ purchase.state = "Release"
  /\ PayOut("Purchase", s, 3 * purchase.value)
  /\ purchase' = [purchase EXCEPT !.state = "Inactive"]
  /\ UNCHANGED chain
=============================================================================

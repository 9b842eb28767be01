------------------------------- MODULE WHBAR -------------------------------
(* src/contracts/wrapped-tokens/WHBAR.sol *)
EXTENDS HbarLedger

CONSTANTS Unlimited,   \* the largest uint256, which no allowance is taken off
          Approvals    \* the allowances given

ASSUME WhbarAssumption == Approvals \subseteq Nat \cup {Unlimited} /\ Unlimited \notin Nat

VARIABLE whbar

NoWhbar == [exists |-> FALSE]

WhbarType ==
  [exists : {TRUE}, balanceOf : [Accounts -> Nat], whbarTotalSupply : Nat,
   allowance : [Accounts -> [Accounts -> Nat \cup {Unlimited}]]]

WHBAR_constructor(s) ==
  /\ ~whbar.exists /\ CalledBy(s)
  /\ whbar' = [exists |-> TRUE, balanceOf |-> [a \in Accounts |-> 0], whbarTotalSupply |-> 0,
               allowance |-> [a \in Accounts |-> [b \in Accounts |-> 0]]]
  /\ NoPayment /\ UNCHANGED chain

\* deposit(), receive() and fallback().
WHBAR_deposit(s, value) ==
  /\ whbar.exists /\ CalledBy(s)
  /\ TakeIn("WHBAR", s, value)
  /\ whbar' = [whbar EXCEPT !.balanceOf[s] = @ + value, !.whbarTotalSupply = @ + value]
  /\ UNCHANGED chain

\* The call that pays gives a program the floor.
OpensFrame(s) ==
  /\ depth' = IF s \in Programs THEN depth + 1 ELSE depth
  /\ depth' <= MaxDepth
  /\ UNCHANGED <<now, donated>>

\* Mutant: the caller is paid first and its balance reduced when the call returns.
WHBAR_withdrawPaysFirst(s, wad) ==
  /\ whbar.exists /\ CalledBy(s)
  /\ wad <= whbar.balanceOf[s]
  /\ whbar' = IF s \in Programs THEN whbar
              ELSE [whbar EXCEPT !.balanceOf[s] = @ - wad, !.whbarTotalSupply = @ - wad]
  /\ PayOut("WHBAR", s, wad)
  /\ OpensFrame(s)

WHBAR_withdraw(s, wad) ==
  /\ whbar.exists /\ CalledBy(s)
  /\ wad <= whbar.balanceOf[s]
  /\ whbar' = [whbar EXCEPT !.balanceOf[s] = @ - wad, !.whbarTotalSupply = @ - wad]
  /\ PayOut("WHBAR", s, wad)
  /\ OpensFrame(s)

\* The paid program returns; withdraw has nothing left to do.
WHBAR_withdrawReturns ==
  /\ depth > 0 /\ depth' = depth - 1
  /\ NoPayment /\ UNCHANGED <<whbar, now, donated, sender>>

WHBAR_approve(s, guy, wad) ==
  /\ whbar.exists /\ CalledBy(s)
  /\ whbar' = [whbar EXCEPT !.allowance[s][guy] = wad]
  /\ NoPayment /\ UNCHANGED chain

\* Mutant: an allowance is not used up.
AllowanceKept(src, spender, wad) == whbar.allowance[src][spender]

\* The allowance of spender, after wad of src's balance went through him.
AllowanceAfter(src, spender, wad) ==
  LET left == whbar.allowance[src][spender]
  IN IF src = spender \/ left = Unlimited THEN left ELSE left - wad

\* Mutant: the allowance is not compared with the amount, only taken off.
MayTransferAny(src, spender, wad) ==
  src = spender \/ whbar.allowance[src][spender] # 0

MayTransfer(src, spender, wad) ==
  src # spender /\ whbar.allowance[src][spender] # Unlimited
    => wad <= whbar.allowance[src][spender]

\* transfer(dst, wad) is transferFrom(msg.sender, dst, wad).
WHBAR_transferFrom(s, src, dst, wad) ==
  /\ whbar.exists /\ CalledBy(s)
  /\ wad <= whbar.balanceOf[src]
  /\ MayTransfer(src, s, wad)
  /\ whbar' = [whbar EXCEPT !.balanceOf = Moved(@, src, dst, wad),
                            !.allowance[src][s] = AllowanceAfter(src, s, wad)]
  /\ NoPayment /\ UNCHANGED chain
=============================================================================

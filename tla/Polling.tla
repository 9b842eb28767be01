------------------------------ MODULE Polling ------------------------------
(***************************************************************************)
(* The polling helpers of src/utils/helpers.js and the tests that call     *)
(* them.  A test reads a quantity of the network (a balance, a supply, an  *)
(* owner, a counter, the paused flag), submits a transaction that changes  *)
(* it and calls a helper, which reads until the value differs from the one *)
(* read before.  Reads are served by a mirror node, which trails the       *)
(* ledger.                                                                 *)
(*                                                                         *)
(* One quantity is followed through all the values it has had.  The paused *)
(* flag is the quantity with the values Big(0) and Big(1).                 *)
(***************************************************************************)
EXTENDS Integers, Sequences

CONSTANTS Amounts,      \* the numbers the quantity takes
          MaxRetries,   \* the values of MAX_RETRY in the environment
          Unset,        \* MAX_RETRY is not set
          Lag,          \* ticks within which the mirror has applied a change
          MaxOps,       \* tests in a row
          MaxFaults     \* reads that fail

ASSUME ConstantsAssumption ==
  /\ {0, 1} \subseteq Amounts /\ Amounts \subseteq Nat
  /\ MaxRetries \subseteq Nat \cup {Unset} /\ Unset \notin Nat
  /\ Lag \in Nat \ {0} /\ MaxOps \in Nat /\ MaxFaults \in Nat

(***************************************************************************)
(* JavaScript values: "!==" tells a bigint from a number, 0n !== 0.  The   *)
(* contract and the provider (ethers 6) answer bigints.                    *)
(***************************************************************************)
Big(n) == <<"bigint", n>>
Number(n) == <<"number", n>>
Values == {Big(n) : n \in Amounts}

----------------------------------------------------------------------------
(* What distinguishes the helpers: how they count tries, which value ends  *)
(* the loop, whether a failed read is one more try, whether every try      *)
(* reads anew, and what the helper does when the tries are used up.        *)

Helper(limit, accepts, catches, exhausted) ==
  [limit |-> limit, accepts |-> accepts, catches |-> catches, exhausted |-> exhausted]

Plain   == Helper("less", "differs", FALSE, "thrown")
NonZero == Helper("less", "differsAndNotNumberZero", FALSE, "thrown")
Patient == Helper("less", "differs", TRUE, "thrown")

pollForERC20BurnableChangedSupply    == Plain
pollForNewCounterValue               == Plain
pollForNewERC721Owner                == Plain
pollForNewERC721Balance              == Plain
pollForNewERC721HollowWalletOwner    == Plain
pollForNewHollowWalletBalance        == Plain
pollForNewHBarBalance                == Plain
pollForNewSignerBalance              == Plain
pollForNewWalletBalance              == NonZero
pollForNewBalance                    == NonZero
pollForNewERC20Balance               == Patient
pollForNewSignerBalanceUsingProvider == Patient
pauseAndPoll   == Helper("atMost", "paused", FALSE, "false")
unPauseAndPoll == Helper("forever", "unpaused", FALSE, "false")
genericPoll    == Helper("less", "comparator", FALSE, "thrown")

Helpers ==
  { pollForERC20BurnableChangedSupply, pollForNewCounterValue, pollForNewERC721Owner,
    pollForNewERC721Balance, pollForNewERC721HollowWalletOwner,
    pollForNewHollowWalletBalance, pollForNewHBarBalance, pollForNewSignerBalance,
    pollForNewWalletBalance, pollForNewBalance, pollForNewERC20Balance,
    pollForNewSignerBalanceUsingProvider, pauseAndPoll, unPauseAndPoll, genericPoll }

\* The helpers that send the transaction themselves, and the value it sets.
SetsFlag(h) == h \in {pauseAndPoll, unPauseAndPoll}
FlagSet(h) == IF h = pauseAndPoll THEN Big(1) ELSE Big(0)

----------------------------------------------------------------------------
VARIABLES
  ledger,   \* the values of the quantity, in consensus order
  age,      \* ticks since each was set, counted up to Lag
  queue,    \* values transactions submitted and not executed yet will set
  seen,     \* how much of the ledger the mirror node has applied
  maxRetry, \* MAX_RETRY
  pc,       \* where the test is
  poll,     \* the call of a helper in progress, or the last one
  faults    \* reads that may still fail

network == <<ledger, age, queue, seen>>
vars == <<ledger, age, queue, seen, maxRetry, pc, poll, faults>>

NoPoll == [helper |-> Plain, before |-> Big(0), beforeAt |-> 0, ownAt |-> 0,
           awaited |-> FALSE, tries |-> 0, errors |-> 0, heldAt |-> 0,
           outcome |-> "none", value |-> Big(0), readAt |-> 0]

Init ==
  /\ \E v \in Values : ledger = <<v>>
  /\ age = <<Lag>> /\ queue = <<>> /\ seen = 1
  /\ maxRetry \in MaxRetries
  /\ pc = "idle" /\ poll = NoPoll /\ faults = MaxFaults

----------------------------------------------------------------------------
(* The network: transactions execute in the order they were submitted, the *)
(* mirror node applies what executed in that order.                        *)

Execute ==
  /\ queue # <<>>
  /\ ledger' = Append(ledger, Head(queue))
  /\ age' = Append(age, 0)
  /\ queue' = Tail(queue)
  /\ UNCHANGED <<seen, maxRetry, pc, poll, faults>>

Propagate ==
  /\ seen < Len(ledger)
  /\ seen' = seen + 1
  /\ UNCHANGED <<ledger, age, queue, maxRetry, pc, poll, faults>>

\* delay(): one tick is its length.  The mirror has applied a change when Lag
\* ticks have passed.
delay ==
  /\ \A i \in seen + 1 .. Len(ledger) : age[i] + 1 < Lag
  /\ age' = [i \in DOMAIN age |-> IF age[i] < Lag THEN age[i] + 1 ELSE Lag]
  /\ pc' = IF pc = "waiting" THEN "reading" ELSE pc
  /\ UNCHANGED <<ledger, queue, seen, maxRetry, poll, faults>>

----------------------------------------------------------------------------
(* A test up to the call of the helper.                                    *)

\* The value before, read from the mirror node like every other one.
ReadBefore(h) ==
  /\ pc = "idle" /\ Len(ledger) + Len(queue) <= MaxOps
  /\ poll' = [NoPoll EXCEPT !.helper = h, !.before = ledger[seen], !.beforeAt = seen]
  /\ pc' = "ready"
  /\ UNCHANGED <<network, maxRetry, faults>>

\* The transaction is submitted.  Some tests wait for its receipt, some do
\* not; pause() and unpause() are not waited for.
Submit(v, wait) ==
  /\ pc = "ready"
  /\ SetsFlag(poll.helper) => v = FlagSet(poll.helper) /\ ~wait
  /\ queue' = Append(queue, v)
  /\ poll' = [poll EXCEPT !.ownAt = Len(ledger) + Len(queue) + 1, !.awaited = wait]
  /\ pc' = "sent"
  /\ UNCHANGED <<ledger, age, seen, maxRetry, faults>>

\* The helper is called.  genericPoll is given a promise: the one read it
\* stands for happens here.
Call ==
  /\ pc = "sent"
  /\ poll.awaited => poll.ownAt <= Len(ledger)
  /\ poll' = [poll EXCEPT !.heldAt = seen]
  /\ pc' = "reading"
  /\ UNCHANGED <<network, maxRetry, faults>>

----------------------------------------------------------------------------
(* The loop of the helpers.                                                *)

\* Mutant: a try less.
ContinuesShort(h, tries) ==
  maxRetry # Unset /\ (h.limit = "forever" \/ tries + 1 < maxRetry)

\* The loop condition before try number "tries".  A comparison with an unset
\* MAX_RETRY is false.
Continues(h, tries) ==
  /\ maxRetry # Unset
  /\ CASE h.limit = "less"    -> tries < maxRetry
       [] h.limit = "atMost"  -> tries <= maxRetry
       [] h.limit = "forever" -> TRUE

\* The value that polling for a transaction's effect waits for.
Target == IF poll.ownAt <= Len(ledger) THEN ledger[poll.ownAt]
          ELSE queue[poll.ownAt - Len(ledger)]

\* Mutant: the first value read is returned.
AcceptsAny(h, v) == TRUE

\* Mutant: unPauseAndPoll tests isPaused as pauseAndPoll does.
AcceptsPaused(h, v) ==
  IF h.accepts \in {"paused", "unpaused"} THEN v # Big(0) ELSE v # poll.before

Accepts(h, v) ==
  CASE h.accepts = "differs"                 -> v # poll.before
    [] h.accepts = "differsAndNotNumberZero" -> v # Number(0) /\ v # poll.before
    [] h.accepts = "paused"                  -> v # Big(0)
    [] h.accepts = "unpaused"                -> v = Big(0)
    [] h.accepts = "comparator"              -> v = Target

\* genericPoll awaits the same promise at every try.
ReadVersion(h) == IF h = genericPoll THEN poll.heldAt ELSE seen

Finish(outcome, v, at) ==
  /\ poll' = [poll EXCEPT !.outcome = outcome, !.value = v, !.readAt = at]
  /\ pc' = "idle"

\* Mutant: the helper returns how often it tried.
ReadReturnsTries ==
  /\ pc = "reading" /\ Continues(poll.helper, poll.tries)
  /\ Accepts(poll.helper, ledger[seen])
  /\ Finish("value", Number(poll.tries), seen)
  /\ UNCHANGED <<network, maxRetry, faults>>

\* numberOfTries of unPauseAndPoll, which nothing reads, is not counted.
Read ==
  /\ pc = "reading" /\ Continues(poll.helper, poll.tries)
  /\ LET at == ReadVersion(poll.helper)
         v  == ledger[at]
     IN IF Accepts(poll.helper, v)
        THEN Finish(IF SetsFlag(poll.helper) THEN "true" ELSE "value", v, at)
        ELSE /\ poll' = [poll EXCEPT !.readAt = at,
                           !.tries = IF poll.helper.limit = "forever" THEN 0 ELSE @ + 1]
             /\ pc' = "waiting"
  /\ UNCHANGED <<network, maxRetry, faults>>

\* The read fails: logged and tried again, or passed on to the test.
ReadFails ==
  /\ pc = "reading" /\ Continues(poll.helper, poll.tries) /\ faults > 0
  /\ poll.helper = genericPoll => poll.tries = 0
  /\ faults' = faults - 1
  /\ IF poll.helper.catches
     THEN /\ poll' = [poll EXCEPT !.tries = @ + 1, !.errors = @ + 1]
          /\ pc' = "waiting"
     ELSE Finish("rejected", Big(0), 0)
  /\ UNCHANGED <<network, maxRetry>>

GiveUp ==
  /\ pc = "reading" /\ ~Continues(poll.helper, poll.tries)
  /\ Finish(poll.helper.exhausted, Big(0), poll.readAt)
  /\ UNCHANGED <<network, maxRetry, faults>>

Next ==
  \/ Execute
  \/ Propagate
  \/ delay
  \/ \E h \in Helpers : ReadBefore(h)
  \/ \E v \in Values, wait \in BOOLEAN : Submit(v, wait)
  \/ Call
  \/ Read
  \/ ReadFails
  \/ GiveUp

Spec == Init /\ [][Next]_vars

\* The network executes and propagates, timers fire, and the event loop runs
\* a test that can go on.
Fairness ==
  /\ WF_vars(Execute) /\ WF_vars(Propagate) /\ WF_vars(delay)
  /\ WF_vars(\E v \in Values, wait \in BOOLEAN : Submit(v, wait))
  /\ WF_vars(Call) /\ WF_vars(Read) /\ WF_vars(GiveUp)

FairSpec == Spec /\ Fairness

----------------------------------------------------------------------------
Polls ==
  [helper : Helpers, before : Values, beforeAt : Nat, ownAt : Nat, awaited : BOOLEAN,
   tries : Nat, errors : Nat, heldAt : Nat, value : Values, readAt : Nat,
   outcome : {"none", "value", "true", "false", "thrown", "rejected"}]

TypeOK ==
  /\ ledger \in Seq(Values) /\ ledger # <<>>
  /\ age \in Seq(0 .. Lag) /\ Len(age) = Len(ledger)
  /\ queue \in Seq(Values)
  /\ seen \in 1 .. Len(ledger)
  /\ maxRetry \in MaxRetries
  /\ pc \in {"idle", "ready", "sent", "reading", "waiting"}
  /\ poll \in Polls
  /\ faults \in 0 .. MaxFaults

Settled == poll.beforeAt = poll.ownAt - 1

\* A helper that waits for any change returns what the test's own transaction
\* made of the quantity, and the mirror has applied that transaction, so that
\* what else the test reads next is from after it as well; provided that no
\* earlier transaction was under way when the value before was read.  The tests
\* compare the value returned with the value before plus their own amount.
SeesOwnChange ==
  /\ poll.outcome = "value" /\ poll.helper # genericPoll /\ Settled
  => poll.ownAt <= seen /\ poll.value = ledger[poll.ownAt]

\* The tries suffice when they outnumber the ticks the mirror may need: after a
\* receipt, a helper that reads MAX_RETRY times gives up on a real change only
\* if MAX_RETRY is no more than Lag and the reads that failed.  A balance that
\* became zero is a change as well.
GivesUpOnlyIfLate ==
  /\ poll.outcome \in {"thrown", "false"} /\ maxRetry # Unset
  /\ poll.helper # genericPoll /\ poll.awaited
  /\ poll.before # ledger[poll.ownAt]
  => maxRetry <= Lag + poll.errors

\* Every call of a helper ends, that of unPauseAndPoll too, whose loop has no
\* bound of its own.
CallEnds == pc \in {"reading", "waiting"} ~> pc = "idle"
=============================================================================

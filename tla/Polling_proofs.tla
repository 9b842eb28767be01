--------------------------- MODULE Polling_proofs ---------------------------
(***************************************************************************)
(* What the polling helpers return, and when they give up, for every       *)
(* number of tests, tries and ticks.                                       *)
(***************************************************************************)
EXTENDS Polling, SequenceTheorems, TLAPS

\* A test has called a helper, or one has answered.
Called == pc \in {"sent", "reading", "waiting"} \/ poll.outcome # "none"

\* The transaction of the call under way is the last one submitted, and the
\* value before is one the mirror had shown by then.
OwnIsLast ==
  /\ poll.outcome # "none" => pc = "idle"
  /\ pc # "idle" \/ poll.outcome # "none" =>
       /\ poll.beforeAt \in 1 .. seen /\ poll.before = ledger[poll.beforeAt]
  /\ Called => /\ poll.ownAt = Len(ledger) + Len(queue)
               /\ poll.beforeAt < poll.ownAt
               /\ poll.awaited /\ pc # "sent" => queue = <<>>
               /\ poll.awaited => ~SetsFlag(poll.helper)
  /\ pc \in {"reading", "waiting"} => poll.heldAt \in 1 .. seen

\* The value returned is one the mirror had applied, and not the one before.
AnswerWasRead ==
  poll.outcome = "value" /\ poll.helper # genericPoll =>
    /\ poll.readAt \in poll.beforeAt .. seen
    /\ poll.value = ledger[poll.readAt] /\ poll.value # poll.before

\* The test changed the quantity, for good, before it called the helper.
Awaits == /\ maxRetry # Unset /\ poll.helper # genericPoll /\ poll.awaited
          /\ poll.before # ledger[poll.ownAt]

\* Tries that failed to see the change are counted by the ticks since it.
TriesCounted ==
  /\ \A i \in seen + 1 .. Len(ledger) : age[i] < Lag
  /\ pc \in {"ready", "sent"} => poll.tries = 0 /\ poll.errors = 0
  /\ pc \in {"reading", "waiting"} /\ Awaits =>
       /\ poll.tries <= Lag + poll.errors
       /\ seen < poll.ownAt /\ pc = "reading" => poll.tries <= age[poll.ownAt]
       /\ seen < poll.ownAt /\ pc = "waiting" => poll.tries <= age[poll.ownAt] + 1

IInv == TypeOK /\ OwnIsLast /\ AnswerWasRead /\ TriesCounted /\ GivesUpOnlyIfLate

LEMMA HelperKinds ==
  ASSUME NEW h \in Helpers
  PROVE  /\ h.limit \in {"less", "atMost", "forever"}
         /\ h.exhausted \in {"thrown", "false"}
         /\ ~SetsFlag(h) => h.limit = "less"
         /\ ~SetsFlag(h) /\ h # genericPoll =>
              h.accepts \in {"differs", "differsAndNotNumberZero"}
BY DEF Helpers, SetsFlag, Helper, Plain, NonZero, Patient,
  pollForERC20BurnableChangedSupply, pollForNewCounterValue, pollForNewERC721Owner,
  pollForNewERC721Balance, pollForNewERC721HollowWalletOwner,
  pollForNewHollowWalletBalance, pollForNewHBarBalance, pollForNewSignerBalance,
  pollForNewWalletBalance, pollForNewBalance, pollForNewERC20Balance,
  pollForNewSignerBalanceUsingProvider, pauseAndPoll, unPauseAndPoll, genericPoll

LEMMA ValueFacts ==
  /\ Big(0) \in Values /\ Big(1) \in Values
  /\ Number(0) \notin Values
  /\ Plain \in Helpers
BY ConstantsAssumption DEF Values, Big, Number, Helpers, Plain,
  pollForERC20BurnableChangedSupply

LEMMA NoPollTyped == NoPoll \in Polls
BY ValueFacts DEF Polls, NoPoll

LEMMA PollFields ==
  ASSUME NEW p \in Polls
  PROVE  /\ p.helper \in Helpers /\ p.before \in Values /\ p.value \in Values
         /\ p.beforeAt \in Nat /\ p.ownAt \in Nat /\ p.heldAt \in Nat /\ p.readAt \in Nat
         /\ p.tries \in Nat /\ p.errors \in Nat /\ p.awaited \in BOOLEAN
BY DEF Polls

LEMMA InitIInv == Init => IInv
<1> SUFFICES ASSUME Init PROVE IInv OBVIOUS
<1> USE ConstantsAssumption
<1>1. TypeOK
  <2>1. PICK v \in Values : ledger = <<v>>
    BY DEF Init
  <2>2. age \in Seq(0 .. Lag) /\ queue \in Seq(Values)
    BY DEF Init
  <2> QED BY <2>1, <2>2, NoPollTyped DEF Init, TypeOK
<1>2. OwnIsLast /\ AnswerWasRead /\ GivesUpOnlyIfLate
  BY DEF Init, OwnIsLast, Called, AnswerWasRead, GivesUpOnlyIfLate, NoPoll
<1>3. TriesCounted
  <2>1. PICK v \in Values : ledger = <<v>>
    BY DEF Init
  <2> QED BY <2>1 DEF Init, TriesCounted, NoPoll
<1> QED BY <1>1, <1>2, <1>3 DEF IInv

LEMMA TypeStep == IInv /\ [Next]_vars => TypeOK'
<1> SUFFICES ASSUME IInv, [Next]_vars PROVE TypeOK' OBVIOUS
<1> USE ConstantsAssumption DEF TypeOK
<1>0. TypeOK /\ OwnIsLast
  BY DEF IInv
<1>a. /\ poll.helper \in Helpers /\ poll.tries \in Nat /\ poll.errors \in Nat
      /\ poll.heldAt \in Nat /\ poll.readAt \in Nat
  BY <1>0, PollFields
<1>b. seen \in Nat /\ Len(ledger) \in Nat
  BY <1>0
<1>1. CASE Execute
  <2>1. Head(queue) \in Values /\ Tail(queue) \in Seq(Values)
    BY <1>0, <1>1, HeadTailProperties DEF Execute
  <2>2. ledger' \in Seq(Values) /\ Len(ledger') = Len(ledger) + 1
    BY <1>0, <1>1, <2>1, AppendProperties DEF Execute
  <2>3. age' \in Seq(0 .. Lag) /\ Len(age') = Len(age) + 1
    <3>1. 0 \in 0 .. Lag
      OBVIOUS
    <3> QED BY <1>0, <1>1, <3>1, AppendProperties, ZenonT(40) DEF Execute
  <2>4. ledger' # <<>> /\ Len(ledger) \in Nat
    BY <1>0, <2>2
  <2> QED BY <1>0, <1>1, <2>1, <2>2, <2>3, <2>4 DEF Execute
<1>2. CASE Propagate BY <1>0, <1>2 DEF Propagate
<1>3. CASE delay
  <2>1. DOMAIN age = 1 .. Len(age) /\ \A i \in 1 .. Len(age) : age[i] \in 0 .. Lag
    BY <1>0
  <2>2. \A i \in 1 .. Len(age) : age'[i] \in 0 .. Lag
    BY <1>3, <2>1 DEF delay
  <2>3. Len(age) \in Nat /\ age' = [i \in 1 .. Len(age) |-> age'[i]]
    BY <1>0, <1>3, <2>1 DEF delay
  <2>4. age' \in Seq(0 .. Lag) /\ Len(age') = Len(age)
    BY <2>2, <2>3
  <2> QED BY <1>0, <1>3, <2>4 DEF delay
<1>4. ASSUME NEW h \in Helpers, ReadBefore(h) PROVE TypeOK'
  <2>1. ledger[seen] \in Values /\ seen \in Nat
    BY <1>0
  <2>2. poll' \in Polls
    BY <1>4, <2>1, NoPollTyped DEF ReadBefore, Polls
  <2> QED BY <1>0, <1>4, <2>2 DEF ReadBefore, network
<1>5. ASSUME NEW v \in Values, NEW wait \in BOOLEAN, Submit(v, wait) PROVE TypeOK'
  <2>1. queue' \in Seq(Values)
    BY <1>0, <1>5, AppendProperties DEF Submit
  <2>2. Len(ledger) + Len(queue) + 1 \in Nat
    BY <1>0, LenProperties
  <2>3. poll' \in Polls
    BY <1>0, <1>5, <2>2 DEF Submit, Polls
  <2> QED BY <1>0, <1>5, <2>1, <2>3 DEF Submit
<1>6. CASE Call
  <2>1. poll' \in Polls
    BY <1>0, <1>b, <1>6 DEF Call, Polls
  <2> QED BY <1>0, <1>6, <2>1 DEF Call, network
<1>7. CASE Read
  <2> DEFINE at == ReadVersion(poll.helper)
  <2>1. at \in Nat /\ ledger[at] \in Values
    BY <1>0, <1>7, <1>a, SMTT(30) DEF ReadVersion, OwnIsLast, Read
  <2>2. poll' \in Polls /\ pc' \in {"idle", "waiting"}
    <3>1. CASE Accepts(poll.helper, ledger[at])
      <4>1. PICK o \in {"true", "value"} :
              poll' = [poll EXCEPT !.outcome = o, !.value = ledger[at], !.readAt = at]
        BY <1>7, <3>1 DEF Read, Finish
      <4>2. pc' = "idle"
        BY <1>7, <3>1 DEF Read, Finish
      <4> HIDE DEF at
      <4> QED BY <1>0, <2>1, <4>1, <4>2 DEF Polls
    <3>2. CASE ~Accepts(poll.helper, ledger[at])
      <4> DEFINE k == IF poll.helper.limit = "forever" THEN 0 ELSE poll.tries + 1
      <4>1. k \in Nat /\ poll' = [poll EXCEPT !.readAt = at, !.tries = k]
        BY <1>7, <3>2, <1>a DEF Read
      <4>2. pc' = "waiting"
        BY <1>7, <3>2 DEF Read
      <4> HIDE DEF at, k
      <4> QED BY <1>0, <2>1, <4>1, <4>2 DEF Polls
    <3> QED BY <3>1, <3>2
  <2> QED BY <1>0, <1>7, <2>2 DEF Read, network
<1>8. CASE ReadFails
  <2>1. poll' \in Polls /\ pc' \in {"idle", "waiting"}
    <3>1. CASE poll.helper.catches
      <4>1. poll' = [poll EXCEPT !.tries = @ + 1, !.errors = @ + 1] /\ pc' = "waiting"
        BY <1>8, <3>1 DEF ReadFails
      <4>2. poll.tries + 1 \in Nat /\ poll.errors + 1 \in Nat
        BY <1>a
      <4> QED BY <1>0, <4>1, <4>2 DEF Polls
    <3>2. CASE ~poll.helper.catches
      <4>1. /\ poll' = [poll EXCEPT !.outcome = "rejected", !.value = Big(0), !.readAt = 0]
            /\ pc' = "idle"
        BY <1>8, <3>2 DEF ReadFails, Finish
      <4> QED BY <1>0, <4>1, ValueFacts DEF Polls
    <3> QED BY <3>1, <3>2
  <2> QED BY <1>0, <1>8, <2>1 DEF ReadFails, network
<1>9. CASE GiveUp
  <2>1. poll' \in Polls /\ pc' = "idle"
    <3>1. poll.helper.exhausted \in {"thrown", "false"}
      BY <1>a, HelperKinds
    <3> QED BY <1>0, <1>9, <1>a, <3>1, ValueFacts DEF GiveUp, Finish, Polls
  <2> QED BY <1>0, <1>9, <2>1 DEF GiveUp, network
<1>10. CASE UNCHANGED vars BY <1>0, <1>10 DEF vars
<1> QED BY <1>1, <1>2, <1>3, <1>4, <1>5, <1>6, <1>7, <1>8, <1>9, <1>10 DEF Next

\* The types that the steps below use.
LEMMA TestFrame ==
  ASSUME IInv
  PROVE  /\ TypeOK /\ OwnIsLast /\ AnswerWasRead /\ TriesCounted /\ GivesUpOnlyIfLate
         /\ poll \in Polls /\ Len(ledger) \in Nat /\ Len(queue) \in Nat
         /\ seen \in 1 .. Len(ledger) /\ Len(age) = Len(ledger)
         /\ poll.ownAt \in Nat /\ poll.beforeAt \in Nat /\ poll.heldAt \in Nat
         /\ poll.tries \in Nat /\ poll.errors \in Nat /\ poll.helper \in Helpers
         /\ \A i \in 1 .. Len(ledger) : age[i] \in 0 .. Lag
<1>1. TypeOK /\ poll \in Polls
  BY DEF IInv, TypeOK
<1>2. \A i \in 1 .. Len(age) : age[i] \in 0 .. Lag
  BY <1>1, ElementOfSeq DEF TypeOK
<1>3. seen \in 1 .. Len(ledger) /\ Len(age) = Len(ledger) /\ Len(ledger) \in Nat
  BY <1>1 DEF TypeOK
<1> QED BY <1>1, <1>2, <1>3, PollFields DEF IInv, TypeOK

LEMMA ExecuteStep == IInv /\ TypeOK' /\ Execute => IInv'
<1> SUFFICES ASSUME IInv, TypeOK', Execute PROVE IInv' OBVIOUS
<1> USE ConstantsAssumption
<1>0. /\ TypeOK /\ OwnIsLast /\ AnswerWasRead /\ TriesCounted /\ GivesUpOnlyIfLate
      /\ poll \in Polls /\ poll' = poll /\ pc' = pc /\ seen' = seen /\ maxRetry' = maxRetry
  BY DEF IInv, TypeOK, Execute
<1>1. /\ Head(queue) \in Values /\ Len(queue') = Len(queue) - 1
      /\ Len(queue) \in Nat /\ queue # <<>>
  BY <1>0, HeadTailProperties DEF TypeOK, Execute
<1>2. /\ Len(ledger) \in Nat /\ Len(ledger') = Len(ledger) + 1
      /\ \A i \in 1 .. Len(ledger) : ledger'[i] = ledger[i]
  BY <1>0, <1>1, AppendProperties DEF TypeOK, Execute
<1>3. /\ \A i \in 1 .. Len(ledger) : age'[i] = age[i]
      /\ age'[Len(ledger) + 1] = 0
  <2>1. age \in Seq(0 .. Lag) /\ Len(age) = Len(ledger) /\ 0 \in 0 .. Lag
    BY <1>0 DEF TypeOK
  <2> QED BY <1>2, <2>1, AppendProperties DEF Execute
<1>4. /\ seen \in 1 .. Len(ledger) /\ poll.ownAt \in Nat /\ poll.beforeAt \in Nat
      /\ poll.readAt \in Nat
  BY <1>0, PollFields DEF TypeOK
<1>5. OwnIsLast'
  BY <1>0, <1>1, <1>2, <1>4 DEF OwnIsLast, Called, SetsFlag
<1>6. AnswerWasRead'
  BY <1>0, <1>2, <1>4 DEF OwnIsLast, AnswerWasRead
<1>7. TriesCounted'
  <2>1. CASE pc \in {"reading", "waiting"} /\ poll.awaited
    BY <1>0, <1>1, <2>1 DEF OwnIsLast, Called
  <2>2. CASE ~(pc \in {"reading", "waiting"} /\ poll.awaited)
    <3>1. \A i \in seen + 1 .. Len(ledger') : age'[i] < Lag
      BY <1>0, <1>2, <1>3, <1>4 DEF TriesCounted
    <3> QED BY <1>0, <2>2, <3>1 DEF TriesCounted, Awaits
  <2> QED BY <2>1, <2>2
<1>8. GivesUpOnlyIfLate'
  <2>1. CASE poll.outcome # "none" /\ poll.awaited
    BY <1>0, <1>1, <2>1 DEF OwnIsLast, Called
  <2> QED BY <1>0, <2>1 DEF GivesUpOnlyIfLate
<1> QED BY <1>5, <1>6, <1>7, <1>8 DEF IInv

LEMMA NetworkStep == IInv /\ TypeOK' /\ (Propagate \/ delay) => IInv'
<1> SUFFICES ASSUME IInv, TypeOK', Propagate \/ delay PROVE IInv' OBVIOUS
<1> USE ConstantsAssumption
<1>0. /\ TypeOK /\ OwnIsLast /\ AnswerWasRead /\ TriesCounted /\ GivesUpOnlyIfLate
      /\ poll \in Polls /\ poll' = poll /\ ledger' = ledger /\ queue' = queue
      /\ maxRetry' = maxRetry
  BY DEF IInv, TypeOK, Propagate, delay
<1>1. /\ seen \in 1 .. Len(ledger) /\ poll.ownAt \in Nat /\ poll.beforeAt \in Nat
      /\ poll.readAt \in Nat /\ poll.tries \in Nat /\ poll.heldAt \in Nat
      /\ poll.errors \in Nat /\ Len(ledger) \in Nat
      /\ \A i \in 1 .. Len(ledger) : age[i] \in 0 .. Lag
  BY <1>0, TestFrame, PollFields
<1>2. /\ seen' \in Nat /\ seen <= seen'
      /\ pc' \in {"reading"} \/ pc' = pc
      /\ pc' = pc \/ pc = "waiting"
  BY <1>1 DEF Propagate, delay
<1>3. OwnIsLast'
  BY <1>0, <1>1, <1>2 DEF OwnIsLast, Called, SetsFlag
<1>4. AnswerWasRead'
  BY <1>0, <1>1, <1>2 DEF OwnIsLast, AnswerWasRead
<1>5. TriesCounted'
  <2>1. CASE Propagate
    BY <1>0, <1>1, <2>1 DEF TriesCounted, Propagate, Awaits
  <2>2. CASE delay
    <3>1. /\ seen' = seen
          /\ \A i \in seen + 1 .. Len(ledger) : age[i] + 1 < Lag
          /\ DOMAIN age = 1 .. Len(ledger)
          /\ pc' = IF pc = "waiting" THEN "reading" ELSE pc
      BY <1>0, <2>2 DEF delay, TypeOK
    <3>2. \A i \in seen + 1 .. Len(ledger) : age'[i] = age[i] + 1
      BY <1>1, <2>2, <3>1 DEF delay
    <3>3. \A i \in seen + 1 .. Len(ledger) : age'[i] < Lag
      BY <3>1, <3>2
    <3>4. pc \in {"reading", "waiting"} /\ poll.awaited => poll.ownAt <= Len(ledger)
      BY <1>0, <1>1 DEF OwnIsLast, Called
    <3>5. ASSUME pc' \in {"reading", "waiting"}, Awaits PROVE
             /\ poll.tries <= Lag + poll.errors
             /\ seen < poll.ownAt /\ pc' = "reading" => poll.tries <= age'[poll.ownAt]
             /\ seen < poll.ownAt /\ pc' = "waiting" => FALSE
      <4>1. pc \in {"reading", "waiting"} /\ pc' # "waiting"
        BY <3>1, <3>5
      <4>2. poll.ownAt <= Len(ledger)
        BY <3>4, <3>5, <4>1 DEF Awaits
      <4> QED BY <1>0, <1>1, <3>1, <3>2, <3>5, <4>1, <4>2 DEF TriesCounted
    <3>6. pc' \in {"ready", "sent"} => pc' = pc
      BY <3>1
    <3> QED BY <1>0, <3>1, <3>3, <3>5, <3>6 DEF TriesCounted, Awaits
  <2> QED BY <2>1, <2>2
<1>6. GivesUpOnlyIfLate'
  BY <1>0 DEF GivesUpOnlyIfLate
<1> QED BY <1>3, <1>4, <1>5, <1>6 DEF IInv
----------------------------------------------------------------------------
LEMMA BeginStep ==
  ASSUME IInv, TypeOK',
         \/ \E h \in Helpers : ReadBefore(h)
         \/ \E v \in Values, wait \in BOOLEAN : Submit(v, wait)
         \/ Call
  PROVE  IInv'
<1> USE ConstantsAssumption
<1>0. /\ TypeOK /\ OwnIsLast /\ AnswerWasRead /\ TriesCounted /\ GivesUpOnlyIfLate
      /\ poll \in Polls /\ Len(ledger) \in Nat /\ Len(queue) \in Nat
      /\ seen \in 1 .. Len(ledger) /\ Len(age) = Len(ledger)
      /\ poll.ownAt \in Nat /\ poll.beforeAt \in Nat /\ poll.heldAt \in Nat
      /\ poll.tries \in Nat /\ poll.errors \in Nat /\ poll.helper \in Helpers
      /\ \A i \in 1 .. Len(ledger) : age[i] \in 0 .. Lag
  BY TestFrame
<1>1. ASSUME NEW h \in Helpers, ReadBefore(h) PROVE IInv'
  <2>1. /\ poll'.before = ledger[seen] /\ poll'.beforeAt = seen /\ poll'.outcome = "none"
        /\ poll'.tries = 0 /\ poll'.errors = 0
        /\ pc' = "ready" /\ ledger' = ledger /\ seen' = seen /\ age' = age
    BY <1>1 DEF ReadBefore, network, NoPoll
  <2>2. OwnIsLast' /\ AnswerWasRead' /\ TriesCounted' /\ GivesUpOnlyIfLate'
    BY <2>1, <1>0 DEF OwnIsLast, AnswerWasRead, TriesCounted, GivesUpOnlyIfLate, Called
  <2> QED BY <2>2 DEF IInv
<1>2. ASSUME NEW v \in Values, NEW wait \in BOOLEAN, Submit(v, wait) PROVE IInv'
  <2>1. /\ poll'.before = poll.before /\ poll'.beforeAt = poll.beforeAt
        /\ poll'.outcome = poll.outcome /\ poll'.helper = poll.helper
        /\ poll'.tries = poll.tries /\ poll'.errors = poll.errors
        /\ poll'.ownAt = Len(ledger) + Len(queue) + 1 /\ poll'.awaited = wait
        /\ pc = "ready" /\ pc' = "sent" /\ ledger' = ledger /\ seen' = seen /\ age' = age
        /\ SetsFlag(poll.helper) => ~wait
    BY <1>2, <1>0 DEF Submit, Polls
  <2>2. Len(queue') = Len(queue) + 1
    <3>1. queue \in Seq(Values) /\ queue' = Append(queue, v)
      BY <1>0, <1>2 DEF Submit, TypeOK
    <3> QED BY <3>1, AppendProperties
  <2>3. OwnIsLast'
    BY <2>1, <2>2, <1>0 DEF OwnIsLast, Called, SetsFlag
  <2>4. AnswerWasRead' /\ TriesCounted' /\ GivesUpOnlyIfLate'
    BY <2>1, <1>0 DEF OwnIsLast, AnswerWasRead, TriesCounted, GivesUpOnlyIfLate
  <2> QED BY <2>3, <2>4 DEF IInv
<1>3. CASE Call
  <2>1. /\ poll'.before = poll.before /\ poll'.beforeAt = poll.beforeAt
        /\ poll'.outcome = poll.outcome /\ poll'.helper = poll.helper
        /\ poll'.tries = poll.tries /\ poll'.errors = poll.errors
        /\ poll'.ownAt = poll.ownAt /\ poll'.awaited = poll.awaited
        /\ poll'.heldAt = seen
        /\ poll.awaited => poll.ownAt <= Len(ledger)
        /\ pc = "sent" /\ pc' = "reading" /\ ledger' = ledger /\ seen' = seen
        /\ age' = age /\ queue' = queue /\ maxRetry' = maxRetry
    BY <1>3, <1>0 DEF Call, Polls, network
  <2>2. poll.awaited => queue = <<>>
    <3>1. queue \in Seq(Values) /\ (poll.awaited => Len(queue) = 0)
      BY <2>1, <1>0 DEF OwnIsLast, Called, TypeOK
    <3> QED BY <3>1, EmptySeq
  <2>3. OwnIsLast'
    BY <2>1, <2>2, <1>0 DEF OwnIsLast, Called, SetsFlag
  <2>4. AnswerWasRead' /\ GivesUpOnlyIfLate'
    BY <2>1, <1>0 DEF OwnIsLast, AnswerWasRead, GivesUpOnlyIfLate
  <2>5. TriesCounted'
    BY <2>1, <1>0 DEF OwnIsLast, Called, TriesCounted, Awaits
  <2> QED BY <2>3, <2>4, <2>5 DEF IInv
<1> QED BY <1>1, <1>2, <1>3
----------------------------------------------------------------------------
\* What a step of the loop leaves alone.
LoopFrame ==
  /\ pc = "reading" /\ ledger' = ledger /\ seen' = seen /\ age' = age /\ queue' = queue
  /\ maxRetry' = maxRetry
  /\ poll'.helper = poll.helper /\ poll'.before = poll.before
  /\ poll'.beforeAt = poll.beforeAt /\ poll'.ownAt = poll.ownAt
  /\ poll'.awaited = poll.awaited /\ poll'.heldAt = poll.heldAt

LEMMA LoopKeepsOwn == ASSUME IInv, LoopFrame, pc' = "idle" \/ (pc' = "waiting" /\ poll'.outcome = poll.outcome)
                      PROVE  OwnIsLast'
BY TestFrame DEF OwnIsLast, LoopFrame, Called, SetsFlag

\* A value the loop goes on for is the one before: the mirror has not applied
\* the change yet.
LEMMA NotAccepted ==
  ASSUME IInv, LoopFrame, Awaits, ~Accepts(poll.helper, ledger[ReadVersion(poll.helper)])
  PROVE  seen < poll.ownAt
<1>1. /\ ~SetsFlag(poll.helper) /\ ReadVersion(poll.helper) = seen
      /\ poll.ownAt = Len(ledger) + Len(queue) /\ queue = <<>>
  BY TestFrame DEF OwnIsLast, LoopFrame, Called, Awaits, ReadVersion
<1>2. poll.helper.accepts \in {"differs", "differsAndNotNumberZero"}
  BY <1>1, TestFrame, HelperKinds DEF Awaits
<1>3. ledger[seen] \in Values
  BY TestFrame DEF TypeOK
<1>4. ledger[seen] = poll.before
  BY <1>1, <1>2, <1>3, ValueFacts DEF Accepts
<1> QED BY <1>1, <1>4, TestFrame DEF Awaits

LEMMA ReadStep == ASSUME IInv, TypeOK', Read PROVE IInv'
<1> USE ConstantsAssumption
<1> DEFINE at == ReadVersion(poll.helper)
<1>1. CASE Accepts(poll.helper, ledger[at])
  <2>1. PICK o \in {"true", "value"} :
           /\ poll' = [poll EXCEPT !.outcome = o, !.value = ledger[at], !.readAt = at]
           /\ o = "true" <=> SetsFlag(poll.helper)
    BY <1>1 DEF Read, Finish
  <2>2. /\ pc' = "idle" /\ LoopFrame
        /\ poll'.outcome \in {"true", "value"} /\ poll'.value = ledger[at]
        /\ poll'.readAt = at /\ poll'.tries = poll.tries /\ poll'.errors = poll.errors
        /\ poll'.outcome = "true" <=> SetsFlag(poll.helper)
    <3>1. pc' = "idle" /\ pc = "reading" /\ UNCHANGED <<network, maxRetry, faults>>
      BY <1>1 DEF Read, Finish
    <3> HIDE DEF at
    <3> QED BY <2>1, <3>1, TestFrame DEF Polls, LoopFrame, network
  <2>3. OwnIsLast'
    BY <2>2, LoopKeepsOwn
  <2>4. TriesCounted' /\ GivesUpOnlyIfLate'
    BY <2>2, TestFrame DEF TriesCounted, GivesUpOnlyIfLate, LoopFrame
  <2>5. AnswerWasRead'
    <3>1. ASSUME poll'.outcome = "value", poll.helper # genericPoll
          PROVE  at = seen /\ ledger[at] # poll.before
      <4>1. at = seen /\ ~SetsFlag(poll.helper)
        BY <2>2, <3>1 DEF ReadVersion
      <4>2. poll.helper.accepts \in {"differs", "differsAndNotNumberZero"}
        BY <3>1, <4>1, TestFrame, HelperKinds
      <4> QED BY <1>1, <4>1, <4>2 DEF Accepts
    <3>2. poll.beforeAt \in 1 .. seen
      BY <2>2, TestFrame DEF OwnIsLast, LoopFrame
    <3> HIDE DEF at
    <3> QED BY <2>2, <3>1, <3>2, TestFrame DEF AnswerWasRead, LoopFrame
  <2> QED BY <2>3, <2>4, <2>5 DEF IInv
<1>2. CASE ~Accepts(poll.helper, ledger[at])
  <2> DEFINE k == IF poll.helper.limit = "forever" THEN 0 ELSE poll.tries + 1
  <2>1. /\ poll' = [poll EXCEPT !.readAt = at, !.tries = k] /\ pc' = "waiting"
        /\ pc = "reading" /\ UNCHANGED <<network, maxRetry, faults>>
    BY <1>2 DEF Read
  <2>2. k \in Nat /\ k <= poll.tries + 1
    BY TestFrame
  <2>3. /\ LoopFrame /\ poll'.outcome = poll.outcome /\ poll'.tries = k
        /\ poll'.errors = poll.errors /\ poll.outcome = "none"
    <3>1. poll.outcome = "none"
      BY <2>1, TestFrame DEF OwnIsLast
    <3> HIDE DEF k, at
    <3> QED BY <2>1, <3>1, TestFrame DEF Polls, LoopFrame, network
  <2> HIDE DEF k
  <2>4. OwnIsLast'
    BY <2>1, <2>3, LoopKeepsOwn
  <2>5. AnswerWasRead' /\ GivesUpOnlyIfLate'
    BY <2>3 DEF AnswerWasRead, GivesUpOnlyIfLate
  <2>6. TriesCounted'
    <3>1. Awaits' <=> Awaits
      BY <2>3 DEF Awaits, LoopFrame
    <3>2. ASSUME Awaits PROVE k <= Lag + poll.errors /\ k <= age[poll.ownAt] + 1
      <4>1. seen < poll.ownAt
        BY <1>2, <2>3, <3>2, NotAccepted
      <4>2. poll.ownAt <= Len(ledger)
        BY <2>1, <3>2, TestFrame DEF OwnIsLast, Called, Awaits
      <4>3. age[poll.ownAt] < Lag /\ age[poll.ownAt] \in Nat
        BY <4>1, <4>2, TestFrame DEF TriesCounted
      <4>4. poll.tries <= age[poll.ownAt]
        BY <2>1, <3>2, <4>1, TestFrame DEF TriesCounted
      <4> QED BY <2>2, <4>3, <4>4, TestFrame, SMTT(30)
    <3> QED BY <2>1, <2>3, <3>1, <3>2, TestFrame DEF TriesCounted, LoopFrame
  <2> QED BY <2>4, <2>5, <2>6 DEF IInv
<1> QED BY <1>1, <1>2

LEMMA ReadFailsStep == ASSUME IInv, TypeOK', ReadFails PROVE IInv'
<1> USE ConstantsAssumption
<1>1. CASE poll.helper.catches
  <2>1. /\ LoopFrame /\ pc' = "waiting" /\ poll'.outcome = poll.outcome
        /\ poll'.tries = poll.tries + 1 /\ poll'.errors = poll.errors + 1
    BY <1>1, TestFrame DEF ReadFails, Polls, LoopFrame, network
  <2>2. poll.outcome = "none"
    BY <2>1, TestFrame DEF OwnIsLast, LoopFrame
  <2>3. OwnIsLast'
    BY <2>1, LoopKeepsOwn
  <2>4. AnswerWasRead' /\ GivesUpOnlyIfLate'
    BY <2>1, <2>2 DEF AnswerWasRead, GivesUpOnlyIfLate
  <2>5. TriesCounted'
    BY <2>1, TestFrame, SMTT(30) DEF TriesCounted, LoopFrame, Awaits, OwnIsLast, Called
  <2> QED BY <2>3, <2>4, <2>5 DEF IInv
<1>2. CASE ~poll.helper.catches
  <2>1. LoopFrame /\ pc' = "idle" /\ poll'.outcome = "rejected"
    BY <1>2, TestFrame, ZenonT(60) DEF ReadFails, Finish, Polls, LoopFrame, network
  <2>2. OwnIsLast'
    BY <2>1, LoopKeepsOwn
  <2> QED BY <2>1, <2>2, TestFrame
         DEF IInv, AnswerWasRead, TriesCounted, GivesUpOnlyIfLate, LoopFrame
<1> QED BY <1>1, <1>2

LEMMA GiveUpStep == ASSUME IInv, TypeOK', GiveUp PROVE IInv'
<1> USE ConstantsAssumption
<1>1. poll.helper.exhausted \in {"thrown", "false"}
  BY TestFrame, HelperKinds
<1>2. /\ LoopFrame /\ pc' = "idle" /\ poll'.outcome \in {"thrown", "false"}
      /\ poll'.errors = poll.errors /\ ~Continues(poll.helper, poll.tries)
  BY <1>1, TestFrame DEF GiveUp, Finish, Polls, LoopFrame, network
<1>3. OwnIsLast'
  BY <1>2, LoopKeepsOwn
<1>4. AnswerWasRead' /\ TriesCounted'
  BY <1>2, TestFrame DEF AnswerWasRead, TriesCounted, LoopFrame
<1>5. GivesUpOnlyIfLate'
  <2>1. ASSUME Awaits PROVE maxRetry <= Lag + poll.errors
    <3>1. ~SetsFlag(poll.helper) /\ poll.tries <= Lag + poll.errors
      BY <1>2, <2>1, TestFrame DEF OwnIsLast, Called, TriesCounted, LoopFrame, Awaits
    <3>2. maxRetry \in Nat /\ ~(poll.tries < maxRetry)
      BY <1>2, <2>1, <3>1, TestFrame, HelperKinds DEF Continues, Awaits, TypeOK
    <3> QED BY <3>1, <3>2, TestFrame
  <2> QED BY <1>2, <2>1 DEF GivesUpOnlyIfLate, Awaits, LoopFrame
<1> QED BY <1>3, <1>4, <1>5, <1>2 DEF IInv

THEOREM Invariance == Spec => []IInv
<1>1. Init => IInv
  BY InitIInv
<1>2. IInv /\ [Next]_vars => IInv'
  <2> SUFFICES ASSUME IInv, [Next]_vars PROVE IInv' OBVIOUS
  <2>1. TypeOK'
    BY TypeStep
  <2>2. CASE Next
    BY <2>1, <2>2, ExecuteStep, NetworkStep, BeginStep, ReadStep, ReadFailsStep, GiveUpStep
       DEF Next
  <2>3. CASE UNCHANGED vars
    BY <2>3 DEF vars, IInv, TypeOK, OwnIsLast, Called, AnswerWasRead, TriesCounted,
                Awaits, GivesUpOnlyIfLate
  <2> QED BY <2>2, <2>3
<1> QED BY <1>1, <1>2, PTL DEF Spec

\* Type correctness of the test, the helpers and the network.
THEOREM TypeCorrect == Spec => []TypeOK
BY Invariance, PTL DEF IInv

\* A helper that waits for any change returns what the test's own transaction
\* made of the quantity, unless an earlier transaction was still under way when
\* the value before was read.
THEOREM AnswersOwnChange == Spec => []SeesOwnChange
<1>1. IInv => SeesOwnChange
  <2> SUFFICES ASSUME IInv, poll.outcome = "value", poll.helper # genericPoll, Settled
               PROVE  poll.ownAt <= seen /\ poll.value = ledger[poll.ownAt]
    BY DEF SeesOwnChange
  <2>1. /\ poll.readAt \in poll.beforeAt .. seen /\ poll.value = ledger[poll.readAt]
        /\ poll.value # ledger[poll.beforeAt] /\ poll.ownAt = poll.beforeAt + 1
        /\ poll.ownAt = Len(ledger) + Len(queue)
    BY TestFrame DEF AnswerWasRead, OwnIsLast, Called, Settled
  <2> QED BY <2>1, TestFrame
<1> QED BY <1>1, Invariance, PTL

\* After a receipt, a helper gives up on a change only if the mirror may need
\* as many ticks as there are tries, not counting the reads that failed.
THEOREM TriesSuffice == Spec => []GivesUpOnlyIfLate
BY Invariance, PTL DEF IInv
=============================================================================

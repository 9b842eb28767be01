-------------------------- MODULE Registry_proofs --------------------------
(***************************************************************************)
(* What the indexer writes of a page, in two parts that meet in the batch. *)
(*                                                                         *)
(* The analysis (module ByteCodeAnalyzer): what it returns, for every      *)
(* page, every set of standards and of token calls, every order of the     *)
(* answers and every number of failed requests.                            *)
(*                                                                         *)
(* The array (module UpdateRegistry): the elements and the order the code  *)
(* gives the registry of a standard, over every sequence of batches, are   *)
(* those that Merge of RegistryArray stands for.                           *)
(***************************************************************************)
EXTENDS ByteCodeAnalyzer, UpdateRegistry, DataLemmas


Entries == [id : Contracts, info : {"full", "null"}]

Typed ==
    /\ object \in [Contracts -> Request]
    /\ todo \subseteq Pairs
    /\ DOMAIN call = Pairs
    /\ \A p \in Pairs : call[p] \in [Fields[p[2]] -> Request]
    /\ DOMAIN lists = ToSet(Standards)
    /\ \A s \in ToSet(Standards) : lists[s] \in Seq(Entries)

Called(p) == \A f \in Fields[p[2]] : Answered(call[p][f])

Done == ToAnalyse \ todo

Result(p) == [id |-> p[1], info |-> InfoOf(p)]

\* What the list of a standard holds once the pairs Done are analysed.
Results(s) == {Result(p) : p \in {q \in Done : q[2] = s /\ Decodes(q)}}

\* The contracts in a list come before those still to be analysed for it.
Ahead ==
    \A p \in todo : \A j \in DOMAIN lists[p[2]] : lists[p[2]][j].id < p[1]

Fetching == todo = {} /\ \A s \in ToSet(Standards) : lists[s] = <<>>

Analysing ==
    /\ ObjectsAnswered /\ todo \subseteq ToAnalyse
    /\ \A p \in Done : Called(p)
    /\ \A s \in ToSet(Standards) : ToSet(lists[s]) = Results(s)

IInv ==
    /\ Typed /\ ListsAscend /\ Ahead
    /\ IF pc = "fetching" THEN Fetching ELSE Analysing
    /\ pc = "returned" => todo = {}

-----------------------------------------------------------------------------
LEMMA PairOf ==
    ASSUME NEW p \in Pairs
    PROVE  p[1] \in Contracts /\ p[2] \in ToSet(Standards) /\ p = <<p[1], p[2]>>
BY DEF Pairs

LEMMA ContractsAreNumbers == Contracts \subseteq Nat
BY PageAssumption DEF Contracts, ToSet

LEMMA PlaceFound ==
    ASSUME NEW s, NEW e \in ToSet(s)
    PROVE  Place(s, e) \in DOMAIN s /\ s[Place(s, e)] = e
BY DEF Place, ToSet

\* Of two pairs of one standard the first has the smaller contract.
LEMMA PrecedesAscends ==
    ASSUME NEW p \in Pairs, NEW q \in Pairs, Precedes(p, q), p[2] = q[2]
    PROVE  p[1] < q[1]
<1>1. Place(Standards, q[2]) \in Nat
  BY PairOf, PlaceFound, AnalyzerAssumption
<1>2. Place(Page, p[1]) < Place(Page, q[1])
  BY <1>1 DEF Precedes
<1>3. /\ Place(Page, p[1]) \in DOMAIN Page /\ Page[Place(Page, p[1])] = p[1]
      /\ Place(Page, q[1]) \in DOMAIN Page /\ Page[Place(Page, q[1])] = q[1]
  BY PairOf, PlaceFound DEF Contracts
<1> QED BY <1>2, <1>3, PageAssumption

LEMMA InitIInv == Init => IInv
<1> SUFFICES ASSUME Init PROVE IInv
  OBVIOUS
<1>1. Typed
  BY DEF Init, Typed, Request, Pairs
<1> QED BY <1>1 DEF Init, IInv, ListsAscend, Ahead, Fetching

-----------------------------------------------------------------------------
(***************************************************************************)
(* Answers.                                                                *)
(***************************************************************************)
LEMMA ProgressOpen ==
    ASSUME NEW r, NEW result \in Request, Progress(r, result)
    PROVE  ~Answered(r)
BY DEF Progress, Answered

\* What was answered stays, so that the pairs that are done give what they gave.
LEMMA DoneStays ==
    ASSUME Typed, Analysing, UNCHANGED <<todo, lists, object>>, DOMAIN call' = Pairs,
           \A p \in Done : call'[p] = call[p]
    PROVE  Analysing'
<1>1. ToAnalyse' = ToAnalyse /\ Done' = Done
  BY DEF ToAnalyse, Analysed, Done
<1>2. \A p \in Done : Called(p)' /\ Result(p)' = Result(p) /\ (Decodes(p)' <=> Decodes(p))
  BY DEF Analysing, Called, Result, InfoOf, Decodes
<1>3. \A s \in ToSet(Standards) : Results(s)' = Results(s)
  BY <1>1, <1>2 DEF Results
<1> QED BY <1>1, <1>2, <1>3 DEF Analysing, ObjectsAnswered

LEMMA AnswerObjectKeeps ==
    ASSUME IInv, NEW c \in Contracts, AnswerObject(c)
    PROVE  IInv'
<1> PICK result \in Request :
        Progress(object[c], result) /\ object' = [object EXCEPT ![c] = result]
  BY DEF AnswerObject
<1>1. ~Answered(object[c]) /\ UNCHANGED <<pc, todo, call, lists>>
  BY ProgressOpen DEF AnswerObject
<1>2. pc = "fetching"
  BY <1>1 DEF IInv, Analysing, ObjectsAnswered
<1>3. Typed'
  BY <1>1 DEF IInv, Typed
<1> QED BY <1>1, <1>2, <1>3 DEF IInv, ListsAscend, Ahead, Fetching

LEMMA AnswerCallKeeps ==
    ASSUME IInv, NEW p \in Pairs, NEW f \in Fields[p[2]], AnswerCall(p, f)
    PROVE  IInv'
<1> PICK result \in Request :
        Progress(call[p][f], result) /\ call' = [call EXCEPT ![p][f] = result]
  BY DEF AnswerCall
<1>1. ~Answered(call[p][f]) /\ UNCHANGED <<pc, object, todo, lists>>
  BY ProgressOpen DEF AnswerCall
<1>2. Typed'
  <2>1. /\ DOMAIN call' = Pairs
        /\ \A q \in Pairs : call'[q] = IF q = p THEN [call[p] EXCEPT ![f] = result] ELSE call[q]
    BY DEF IInv, Typed
  <2>2. \A q \in Pairs : call'[q] \in [Fields[q[2]] -> Request]
    BY <2>1 DEF IInv, Typed
  <2> QED BY <1>1, <2>1, <2>2 DEF IInv, Typed
<1>3. CASE pc = "fetching"
  BY <1>1, <1>2, <1>3 DEF IInv, ListsAscend, Ahead, Fetching
<1>4. CASE pc # "fetching"
  <2>1. p \notin Done
    BY <1>1, <1>4 DEF IInv, Analysing, Called
  <2>2. Analysing'
    <3>1. Done \subseteq Pairs
      BY DEF Done, ToAnalyse
    <3>2. \A q \in Done : call'[q] = call[q]
      BY <2>1, <3>1 DEF IInv, Typed
    <3> QED BY <1>1, <1>2, <1>4, <3>2, DoneStays DEF IInv, Typed
  <2> QED BY <1>1, <1>2, <1>4, <2>2 DEF IInv, ListsAscend, Ahead
<1> QED BY <1>3, <1>4

-----------------------------------------------------------------------------
(***************************************************************************)
(* The analysis.                                                           *)
(***************************************************************************)
LEMMA StartType ==
    ASSUME Typed, NEW pairs
    PROVE  /\ DOMAIN Start(pairs) = Pairs
           /\ \A p \in Pairs : Start(pairs)[p] \in [Fields[p[2]] -> Request]
           /\ \A p \in Pairs \ pairs : Start(pairs)[p] = call[p]
BY DEF Typed, Start, Sent, Request, InHand

LEMMA BeginAnalysisKeeps ==
    ASSUME IInv, BeginAnalysis
    PROVE  IInv'
<1>1. /\ pc = "fetching" /\ ObjectsAnswered /\ todo' = ToAnalyse /\ call' = Start(ToAnalyse)
      /\ pc' = IF ToAnalyse = {} THEN "returned" ELSE "analyzing"
      /\ UNCHANGED <<object, lists>> /\ Typed /\ Fetching
  BY DEF BeginAnalysis, IInv
<1>2. Typed'
  BY <1>1, StartType DEF Typed, ToAnalyse
<1>3. \A s \in ToSet(Standards) : lists'[s] = <<>>
  BY <1>1 DEF Fetching
<1>4. ToAnalyse' = ToAnalyse /\ Done' = {}
  BY <1>1 DEF ToAnalyse, Analysed, Done
<1>5. Analysing'
  <2>1. \A s \in ToSet(Standards) : ToSet(lists'[s]) = {} /\ Results(s)' = {}
    BY <1>3, <1>4 DEF ToSet, Results
  <2> QED BY <1>1, <1>4, <2>1 DEF Analysing, ObjectsAnswered
<1>6. ListsAscend' /\ Ahead'
  <2>1. todo' \subseteq Pairs
    BY <1>2 DEF Typed
  <2> QED BY <1>3, <2>1, PairOf DEF ListsAscend, Ahead
<1> QED BY <1>1, <1>2, <1>5, <1>6 DEF IInv

\* An entry appended to a list.
LEMMA EntryAdded ==
    ASSUME NEW S, NEW l \in Seq(S), NEW e \in S
    PROVE  /\ Append(l, e) \in Seq(S) /\ ToSet(Append(l, e)) = ToSet(l) \cup {e}
           /\ DOMAIN l = 1 .. Len(l) /\ DOMAIN Append(l, e) = 1 .. (Len(l) + 1)
           /\ \A j \in 1 .. (Len(l) + 1) :
                 Append(l, e)[j] = IF j = Len(l) + 1 THEN e ELSE l[j]
<1>1. /\ Append(l, e) \in Seq(S) /\ Len(l) \in Nat
      /\ DOMAIN l = 1 .. Len(l) /\ DOMAIN Append(l, e) = 1 .. (Len(l) + 1)
      /\ \A j \in 1 .. (Len(l) + 1) :
            Append(l, e)[j] = IF j = Len(l) + 1 THEN e ELSE l[j]
  OBVIOUS
<1>2. ToSet(Append(l, e)) = ToSet(l) \cup {e}
  BY <1>1 DEF ToSet
<1> QED BY <1>1, <1>2

LEMMA FinishPairKeeps ==
    ASSUME IInv, NEW p \in InHand(todo), FinishPair(p)
    PROVE  IInv'
<1> DEFINE e == Result(p)
           s == p[2]
<1>1. /\ pc = "analyzing" /\ Called(p) /\ todo' = todo \ {p} /\ call' = Start(todo')
      /\ lists' = IF Decodes(p) THEN [lists EXCEPT ![s] = Append(lists[s], e)] ELSE lists
      /\ pc' = IF todo' = {} THEN "returned" ELSE "analyzing"
      /\ object' = object
  BY DEF FinishPair, Called, Result
<1>2. /\ Typed /\ ListsAscend /\ Ahead /\ Analysing
      /\ p \in todo /\ p \in Pairs /\ p[1] \in Contracts /\ s \in ToSet(Standards)
  BY <1>1, PairOf DEF IInv, InHand, Typed
<1>3. e \in Entries /\ e.id = p[1]
  BY <1>2 DEF Result, InfoOf, Entries
<1>4. \A t \in ToSet(Standards) :
        /\ t # s \/ ~Decodes(p) => lists'[t] = lists[t]
        /\ t = s /\ Decodes(p) => lists'[t] = Append(lists[t], e)
  BY <1>1, <1>2 DEF Typed
<1>5. /\ lists[s] \in Seq(Entries)
      /\ Append(lists[s], e) \in Seq(Entries)
      /\ ToSet(Append(lists[s], e)) = ToSet(lists[s]) \cup {e}
  <2>1. lists[s] \in Seq(Entries)
    BY <1>2 DEF Typed
  <2> QED BY <1>3, <2>1, EntryAdded
<1>6. Typed'
  <2>1. todo' \subseteq Pairs /\ DOMAIN lists' = ToSet(Standards)
    BY <1>1, <1>2 DEF Typed
  <2>2. \A t \in ToSet(Standards) : lists'[t] \in Seq(Entries)
    BY <1>2, <1>4, <1>5 DEF Typed
  <2> QED BY <1>1, <1>2, <2>1, <2>2, StartType DEF Typed
<1>7. ToAnalyse' = ToAnalyse /\ p \in ToAnalyse /\ Done' = Done \cup {p} /\ Done' \subseteq Pairs
  BY <1>1, <1>2 DEF ToAnalyse, Analysed, Done, Analysing
<1>8. \A q \in Done' : call'[q] = call[q]
  BY <1>1, <1>2, <1>7, StartType DEF Done
<1>9. \A q \in Done' : Called(q)' /\ Result(q)' = Result(q) /\ (Decodes(q)' <=> Decodes(q))
  BY <1>1, <1>2, <1>7, <1>8, ZenonT(60) DEF Analysing, Called, Result, InfoOf, Decodes
<1>10. ASSUME NEW t \in ToSet(Standards)
       PROVE  ToSet(lists'[t]) = Results(t)'
  <2>1. Results(t)' = Results(t) \cup {x \in {e} : t = s /\ Decodes(p)}
    BY <1>7, <1>9 DEF Results
  <2>2. ToSet(lists'[t]) = ToSet(lists[t]) \cup {x \in {e} : t = s /\ Decodes(p)}
    <3>1. CASE t = s /\ Decodes(p)
      BY <1>4, <1>5, <3>1
    <3>2. CASE ~(t = s /\ Decodes(p))
      BY <1>4, <3>2
    <3> QED BY <3>1, <3>2
  <2> QED BY <1>2, <2>1, <2>2 DEF Analysing
<1>11. Analysing'
  <2>1. ObjectsAnswered' /\ todo' \subseteq ToAnalyse'
    BY <1>1, <1>2, <1>7 DEF Analysing, ObjectsAnswered
  <2> QED BY <1>9, <1>10, <2>1 DEF Analysing
<1>12. \A t \in ToSet(Standards) : \A j \in DOMAIN lists[t] : lists[t][j].id \in Nat
  <2> SUFFICES ASSUME NEW t \in ToSet(Standards), NEW j \in DOMAIN lists[t]
               PROVE  lists[t][j].id \in Nat
    OBVIOUS
  <2>1. lists[t] \in Seq(Entries)
    BY <1>2 DEF Typed
  <2>2. lists[t][j] \in Entries
    BY <2>1
  <2> QED BY <2>2, ContractsAreNumbers DEF Entries
<1>13. p[1] \in Nat /\ \A j \in DOMAIN lists[s] : lists[s][j].id < p[1]
  BY <1>2, ContractsAreNumbers DEF Ahead
<1>14. ListsAscend'
  <2> SUFFICES ASSUME NEW t \in ToSet(Standards), NEW j \in DOMAIN lists'[t],
                      NEW k \in DOMAIN lists'[t], j < k
               PROVE  lists'[t][j].id < lists'[t][k].id
    BY DEF ListsAscend
  <2>1. CASE lists'[t] = lists[t]
    BY <1>2, <2>1 DEF ListsAscend
  <2>2. CASE t = s /\ lists'[t] = Append(lists[s], e)
    <3> DEFINE l == lists[s]
    <3>1. /\ Len(l) \in Nat /\ DOMAIN l = 1 .. Len(l) /\ j \in 1 .. (Len(l) + 1)
          /\ k \in 1 .. (Len(l) + 1)
          /\ \A i \in 1 .. (Len(l) + 1) :
                lists'[t][i] = IF i = Len(l) + 1 THEN e ELSE l[i]
      BY <1>3, <1>5, <2>2, EntryAdded
    <3>2. CASE k = Len(l) + 1
      BY <1>3, <1>13, <3>1, <3>2, SMTT(30)
    <3>3. CASE k # Len(l) + 1
      BY <1>2, <2>2, <3>1, <3>3 DEF ListsAscend
    <3> QED BY <3>2, <3>3
  <2> QED BY <1>4, <2>1, <2>2
<1>15. Ahead'
  <2> SUFFICES ASSUME NEW q \in todo', NEW j \in DOMAIN lists'[q[2]]
               PROVE  lists'[q[2]][j].id < q[1]
    BY DEF Ahead
  <2>1. /\ q \in todo /\ q \in Pairs /\ q[1] \in Nat /\ q[2] \in ToSet(Standards)
        /\ Precedes(p, q)
    BY <1>1, <1>2, PairOf, ContractsAreNumbers DEF InHand, Typed
  <2>2. CASE lists'[q[2]] = lists[q[2]]
    BY <1>2, <2>1, <2>2 DEF Ahead
  <2>3. CASE q[2] = s /\ lists'[q[2]] = Append(lists[s], e)
    <3> DEFINE l == lists[s]
    <3>1. /\ Len(l) \in Nat /\ DOMAIN l = 1 .. Len(l) /\ j \in 1 .. (Len(l) + 1)
          /\ lists'[q[2]][j] = IF j = Len(l) + 1 THEN e ELSE l[j]
      BY <1>3, <1>5, <2>3, EntryAdded
    <3>2. p[1] < q[1]
      BY <1>2, <2>1, <2>3, PrecedesAscends
    <3>3. CASE j = Len(l) + 1
      BY <1>3, <3>1, <3>2, <3>3
    <3>4. CASE j # Len(l) + 1
      <4>1. j \in DOMAIN lists[q[2]] /\ lists'[q[2]][j] = lists[q[2]][j]
        BY <2>3, <3>1, <3>4
      <4> QED BY <1>2, <2>1, <4>1 DEF Ahead
    <3> QED BY <3>3, <3>4
  <2> QED BY <1>4, <2>1, <2>2, <2>3
<1> QED BY <1>1, <1>6, <1>11, <1>14, <1>15 DEF IInv

LEMMA NextIInv == IInv /\ [Next]_vars => IInv'
<1> SUFFICES ASSUME IInv, [Next]_vars PROVE IInv'
  OBVIOUS
<1>1. CASE UNCHANGED vars
  <2>1. UNCHANGED <<pc, object, todo, call, lists>>
    BY <1>1 DEF vars
  <2>2. Typed' /\ ListsAscend' /\ Ahead' /\ (Fetching => Fetching')
    BY <2>1 DEF IInv, Typed, ListsAscend, Ahead, Fetching
  <2>3. Analysing => Analysing'
    BY <2>1, DoneStays DEF IInv, Typed
  <2> QED BY <2>1, <2>2, <2>3 DEF IInv
<1> QED
  BY <1>1, AnswerObjectKeeps, AnswerCallKeeps, BeginAnalysisKeeps, FinishPairKeeps
  DEF Next, Analyse

\* The lists hold what the pairs analysed so far came to, and every pair still to
\* be analysed stands behind them: the inductive invariant of analyze().
THEOREM Invariance == Spec => []IInv
BY InitIInv, NextIInv, PTL DEF Spec

\* The lists of one page ascend, whatever the order of the answers: that is what
\* updateRegistry relies on when it appends without sorting.
THEOREM ListsAscending == Spec => []ListsAscend
<1>1. IInv => ListsAscend
  BY DEF IInv
<1> QED BY <1>1, Invariance, PTL

\* What is returned is exactly what arrived, decoded and matched, once each.
THEOREM ReturnedAsArrived == Spec => []ReturnsWhatArrived
<1>1. IInv => ReturnsWhatArrived
  <2> SUFFICES ASSUME IInv, pc = "returned", NEW s \in ToSet(Standards)
               PROVE  ToSet(lists[s]) =
                        {[id |-> c,
                          info |-> IF \E f \in Fields[s] : call[<<c, s>>][f] = "null"
                                   THEN "null" ELSE "full"] :
                           c \in {d \in Contracts :
                                    /\ object[d] = "value" /\ d \notin Incomplete
                                    /\ s \in Matches[d]
                                    /\ \/ <<d, s>> \notin Undecodable
                                       \/ \A f \in Fields[s] :
                                             call[<<d, s>>][f] = "null"}}
    BY DEF ReturnsWhatArrived
  <2>1. todo = {} /\ ToSet(lists[s]) = Results(s) /\ Done = ToAnalyse
    BY DEF IInv, Analysing, Done
  <2>2. {q \in Done : q[2] = s /\ Decodes(q)}
          = {<<d, s>> : d \in {c \in Contracts : Analysed(c, s) /\ Decodes(<<c, s>>)}}
    <3>1. \A q \in ToAnalyse : q[2] = s => /\ q = <<q[1], s>> /\ q[1] \in Contracts
                                          /\ Analysed(q[1], s)
      BY PairOf DEF ToAnalyse
    <3>2. \A d \in Contracts : Analysed(d, s) => <<d, s>> \in ToAnalyse
      BY DEF ToAnalyse, Pairs
    <3>3. \A q : q \in {r \in Done : r[2] = s /\ Decodes(r)} =>
                   \E d \in {c \in Contracts : Analysed(c, s) /\ Decodes(<<c, s>>)} :
                     q = <<d, s>>
      BY <2>1, <3>1
    <3>4. \A d \in {c \in Contracts : Analysed(c, s) /\ Decodes(<<c, s>>)} :
             <<d, s>> \in {r \in Done : r[2] = s /\ Decodes(r)}
      BY <2>1, <3>2
    <3> QED BY <3>3, <3>4
  <2>3. Results(s) = {Result(<<d, s>>) :
                        d \in {c \in Contracts : Analysed(c, s) /\ Decodes(<<c, s>>)}}
    BY <2>2 DEF Results
  <2> QED BY <2>1, <2>3 DEF Result, InfoOf, Decodes, Analysed
<1> QED BY <1>1, Invariance, PTL

-----------------------------------------------------------------------------
(***************************************************************************)
(* What the loop waits for: the part of `Returns' that is safety.          *)
(***************************************************************************)
\* The pairs no call was sent for yet.
NotYet == IF pc = "fetching" THEN Pairs ELSE Pairs \ (Done \cup InHand(todo))

CallsInv ==
    /\ \A p \in NotYet : \A f \in Fields[p[2]] : call[p][f] = "idle"
    /\ \A p \in InHand(todo) : \A f \in Fields[p[2]] : call[p][f] # "idle"

LEMMA PairsEqual ==
    ASSUME NEW p \in Pairs, NEW q \in Pairs,
           Place(Page, p[1]) = Place(Page, q[1]),
           p[1] # q[1] \/ Place(Standards, p[2]) = Place(Standards, q[2])
    PROVE  p = q
<1>1. p[1] = q[1]
  BY PairOf, PlaceFound DEF Contracts
<1>2. p[2] = q[2]
  BY <1>1, PairOf, PlaceFound
<1> QED BY <1>1, <1>2, PairOf

LEMMA PlacesAreNumbers ==
    \A p \in Pairs : Place(Page, p[1]) \in Nat /\ Place(Standards, p[2]) \in Nat
<1> SUFFICES ASSUME NEW p \in Pairs
             PROVE  Place(Page, p[1]) \in Nat /\ Place(Standards, p[2]) \in Nat
  OBVIOUS
<1>1. Place(Page, p[1]) \in DOMAIN Page /\ Place(Standards, p[2]) \in DOMAIN Standards
  BY PairOf, PlaceFound DEF Contracts
<1> QED BY <1>1, PageAssumption, AnalyzerAssumption

LEMMA OneInHand ==
    ASSUME NEW T \in SUBSET Pairs, NEW p \in InHand(T), NEW q \in InHand(T)
    PROVE  p = q
<1> SUFFICES ASSUME p # q PROVE FALSE
  OBVIOUS
<1>1. p \in Pairs /\ q \in Pairs /\ Precedes(p, q) /\ Precedes(q, p)
  BY DEF InHand
<1> QED BY <1>1, PlacesAreNumbers DEF Precedes

LEMMA SomeInHand ==
    ASSUME NEW T \in SUBSET Pairs, T # {}
    PROVE  InHand(T) # {}
<1> DEFINE A == {Place(Page, p[1]) : p \in T}
<1>1. A \subseteq Nat /\ A # {}
  BY PlacesAreNumbers
<1>2. PICK n \in A : \A k \in A : ~(k < n)
  <2> HIDE DEF A
  <2> QED BY <1>1, LeastNumber
<1> DEFINE B == {Place(Standards, p[2]) : p \in {q \in T : Place(Page, q[1]) = n}}
<1>3. B \subseteq Nat /\ B # {}
  BY <1>2, PlacesAreNumbers
<1>4. PICK m \in B : \A k \in B : ~(k < m)
  <2> HIDE DEF A, B
  <2> QED BY <1>3, LeastNumber
<1>5. PICK p \in T : Place(Page, p[1]) = n /\ Place(Standards, p[2]) = m
  BY <1>4
<1>6. ASSUME NEW q \in T \ {p}
      PROVE  Precedes(p, q)
  <2>1. /\ Place(Page, q[1]) \in A
        /\ Place(Page, q[1]) = n => Place(Standards, q[2]) \in B
    OBVIOUS
  <2> HIDE DEF A, B
  <2>2. ~(Place(Page, q[1]) < n) /\ n \in Nat /\ m \in Nat /\ p \in Pairs /\ q \in Pairs
    BY <1>1, <1>2, <1>3, <1>4, <2>1
  <2>3. Place(Page, q[1]) \in Nat /\ Place(Standards, q[2]) \in Nat
    BY <2>2, PlacesAreNumbers
  <2>4. CASE Place(Page, q[1]) = n
    <3>1. p[1] = q[1] /\ Place(Standards, p[2]) # Place(Standards, q[2])
      BY <1>5, <1>6, <2>2, <2>4, PairsEqual
    <3>2. ~(Place(Standards, q[2]) < m)
      BY <1>4, <2>1, <2>4
    <3> QED BY <1>5, <2>2, <2>3, <3>1, <3>2 DEF Precedes
  <2>5. CASE Place(Page, q[1]) # n
    BY <1>5, <2>2, <2>3, <2>5 DEF Precedes
  <2> QED BY <2>4, <2>5
<1> HIDE DEF A, B
<1> QED BY <1>5, <1>6 DEF InHand

LEMMA StartSends ==
    ASSUME IInv, NEW T \in SUBSET Pairs,
           \A p \in T : \A f \in Fields[p[2]] : call[p][f] = "idle"
    PROVE  /\ \A p \in InHand(T) : \A f \in Fields[p[2]] : Start(T)[p][f] # "idle"
           /\ \A p \in Pairs \ InHand(T) : Start(T)[p] = call[p]
<1>1. InHand(T) \subseteq T
  BY DEF InHand
<1>2. \A p \in Pairs :
        Start(T)[p] = IF p \in InHand(T) /\ \A f \in Fields[p[2]] : call[p][f] = "idle"
                      THEN Sent(p) ELSE call[p]
  BY DEF Start
<1>3. \A p \in InHand(T) : Start(T)[p] = Sent(p)
  BY <1>1, <1>2
<1>4. \A p \in Pairs : \A f \in Fields[p[2]] : Sent(p)[f] = "sent"
  BY DEF Sent
<1> QED BY <1>1, <1>2, <1>3, <1>4

LEMMA CallsInvStep ==
    ASSUME IInv, CallsInv, [Next]_vars
    PROVE  CallsInv'
<1>1. IInv'
  BY NextIInv
<1>2. CASE UNCHANGED vars
  <2>1. UNCHANGED <<pc, object, todo, call>>
    BY <1>2 DEF vars
  <2> QED BY <2>1 DEF CallsInv, NotYet, Done, ToAnalyse, Analysed
<1>3. ASSUME NEW c \in Contracts, AnswerObject(c) PROVE CallsInv'
  <2>1. UNCHANGED <<pc, todo, call>> /\ ~Answered(object[c])
    BY <1>3, ProgressOpen DEF AnswerObject
  <2>2. pc = "fetching"
    BY <2>1 DEF IInv, Analysing, ObjectsAnswered
  <2> QED BY <2>1, <2>2 DEF CallsInv, NotYet
<1>4. ASSUME NEW p \in Pairs, NEW f \in Fields[p[2]], AnswerCall(p, f) PROVE CallsInv'
  <2>1. PICK result \in Request :
          Progress(call[p][f], result) /\ call' = [call EXCEPT ![p][f] = result]
    BY <1>4 DEF AnswerCall
  <2>2. call[p][f] # "idle" /\ result # "idle"
    BY <2>1 DEF Progress
  <2>3. UNCHANGED <<pc, todo, object>>
    BY <1>4 DEF AnswerCall
  <2>4. NotYet' = NotYet /\ InHand(todo') = InHand(todo) /\ NotYet \subseteq Pairs
        /\ InHand(todo) \subseteq Pairs
    BY <2>3 DEF NotYet, Done, ToAnalyse, Analysed, InHand, IInv, Typed
  <2>5. \A q \in Pairs : \A g \in Fields[q[2]] :
          call'[q][g] = IF q = p /\ g = f THEN result ELSE call[q][g]
    BY <2>1 DEF IInv, Typed
  <2>6. \A q \in NotYet : \A g \in Fields[q[2]] : call'[q][g] = "idle"
    BY <2>2, <2>4, <2>5 DEF CallsInv
  <2>7. \A q \in InHand(todo) : \A g \in Fields[q[2]] : call'[q][g] # "idle"
    BY <2>2, <2>4, <2>5 DEF CallsInv
  <2> QED BY <2>3, <2>4, <2>6, <2>7 DEF CallsInv
<1>5. CASE BeginAnalysis
  <2>1. /\ pc = "fetching" /\ pc' # "fetching" /\ todo' = ToAnalyse
        /\ call' = Start(ToAnalyse) /\ ToAnalyse \in SUBSET Pairs
    BY <1>5 DEF BeginAnalysis, ToAnalyse
  <2>2. \A p \in Pairs : \A f \in Fields[p[2]] : call[p][f] = "idle"
    BY <2>1 DEF CallsInv, NotYet
  <2>3. /\ \A p \in InHand(todo') : \A f \in Fields[p[2]] : call'[p][f] # "idle"
        /\ \A p \in Pairs \ InHand(todo') : call'[p] = call[p]
    BY <2>1, <2>2, StartSends
  <2>4. NotYet' \subseteq Pairs \ InHand(todo')
    BY <2>1 DEF NotYet, InHand
  <2> QED BY <2>2, <2>3, <2>4 DEF CallsInv
<1>6. ASSUME NEW p \in InHand(todo), FinishPair(p) PROVE CallsInv'
  <2>1. /\ pc = "analyzing" /\ pc' # "fetching" /\ todo' = todo \ {p}
        /\ call' = Start(todo') /\ todo \in SUBSET Pairs /\ UNCHANGED object
        /\ todo \subseteq ToAnalyse
    BY <1>6 DEF FinishPair, IInv, Typed, Analysing
  <2>2. \A q \in todo' : q \in NotYet
    BY <2>1, OneInHand DEF NotYet, Done
  <2>3. \A q \in todo' : \A f \in Fields[q[2]] : call[q][f] = "idle"
    BY <2>2 DEF CallsInv
  <2>4. /\ \A q \in InHand(todo') : \A f \in Fields[q[2]] : call'[q][f] # "idle"
        /\ \A q \in Pairs \ InHand(todo') : call'[q] = call[q]
    BY <2>1, <2>3, StartSends, ZenonT(60)
  <2>5. NotYet' \subseteq NotYet
    <3>1. ToAnalyse' = ToAnalyse
      BY <2>1 DEF ToAnalyse, Analysed
    <3>2. p \in Done'
      BY <2>1, <3>1 DEF Done, InHand
    <3> SUFFICES ASSUME NEW q \in NotYet' PROVE q \in NotYet
      OBVIOUS
    <3>3. q \in Pairs /\ q \notin Done' /\ q # p
      BY <2>1, <3>2 DEF NotYet
    <3>4. q \notin Done
      BY <2>1, <3>1, <3>3 DEF Done
    <3>5. q \notin InHand(todo)
      BY <2>1, <3>3, OneInHand
    <3> QED BY <2>1, <3>3, <3>4, <3>5 DEF NotYet
  <2>6. NotYet' \subseteq Pairs \ InHand(todo')
    BY <2>1 DEF NotYet, InHand
  <2> QED BY <2>4, <2>5, <2>6 DEF CallsInv
<1> QED BY <1>2, <1>3, <1>4, <1>5, <1>6 DEF Next, Analyse

\* Until everything is analysed the loop waits for one contract and standard, the
\* next one in order; all its calls were sent, and no other call is under way.  So
\* it never waits for an answer nobody was asked for.
WaitsForSent ==
    pc = "analyzing" =>
        \E p \in InHand(todo) :
            /\ \A f \in Fields[p[2]] : call[p][f] # "idle"
            /\ \A q \in Pairs \ {p} : \A f \in Fields[q[2]] :
                  call[q][f] \notin {"sent", "delayed"}

\* The safety half of `Returns'.
THEOREM WaitsForWhatIsSent == Spec => []WaitsForSent
<1>1. Init => CallsInv
  <2> SUFFICES ASSUME Init PROVE CallsInv
    OBVIOUS
  <2>1. todo = {} /\ pc = "fetching"
    BY DEF Init
  <2>2. \A p \in Pairs : \A f \in Fields[p[2]] : call[p][f] = "idle"
    BY DEF Init
  <2> QED BY <2>1, <2>2 DEF CallsInv, NotYet, InHand
<1>2. IInv /\ CallsInv /\ [Next]_vars => CallsInv'
  BY CallsInvStep
<1>3. IInv /\ CallsInv /\ (pc = "analyzing" => todo # {}) => WaitsForSent
  <2> SUFFICES ASSUME IInv, CallsInv, pc = "analyzing", todo # {} PROVE WaitsForSent
    BY DEF WaitsForSent
  <2>1. todo \in SUBSET Pairs
    BY DEF IInv, Typed
  <2>2. PICK p \in InHand(todo) : TRUE
    BY <2>1, SomeInHand
  <2>3. ASSUME NEW q \in Pairs \ {p}, NEW f \in Fields[q[2]]
        PROVE  call[q][f] \notin {"sent", "delayed"}
    <3>1. q \notin InHand(todo)
      BY <2>1, <2>2, <2>3, OneInHand
    <3>2. CASE q \in Done
      BY <3>2 DEF IInv, Analysing, Called, Answered
    <3>3. CASE q \notin Done
      BY <3>1, <3>3 DEF CallsInv, NotYet
    <3> QED BY <3>2, <3>3
  <2> QED BY <2>2, <2>3 DEF CallsInv, WaitsForSent
<1>4. Init => (pc = "analyzing" => todo # {})
  BY DEF Init
<1>5. (pc = "analyzing" => todo # {}) /\ [Next]_vars => (pc = "analyzing" => todo # {})'
  <2> SUFFICES ASSUME pc = "analyzing" => todo # {}, [Next]_vars, pc' = "analyzing"
               PROVE  todo' # {}
    OBVIOUS
  <2> QED BY DEF Next, Analyse, AnswerObject, AnswerCall, BeginAnalysis, FinishPair, vars
<1> QED BY <1>1, <1>2, <1>3, <1>4, <1>5, Invariance, PTL DEF Spec

-----------------------------------------------------------------------------
(***************************************************************************)
(* The array: sequences in the order of a key.                             *)
(***************************************************************************)

\* Before e in the order of the keys.
Below(S, key, e) == {d \in S : key[d] < key[e]}

Keyed(S, key) ==
    /\ IsFiniteSet(S) /\ \A e \in S : key[e] \in Int
    /\ \A d, e \in S : key[d] = key[e] => d = e

LEMMA RankType ==
    ASSUME NEW S, NEW key, Keyed(S, key), NEW e \in S
    PROVE  /\ IsFiniteSet(Below(S, key, e)) /\ Cardinality(S) \in Nat
           /\ Cardinality(Below(S, key, e)) \in 0..(Cardinality(S) - 1)
<1>1. IsFiniteSet(S) /\ Cardinality(S) \in Nat
  BY FS_CardinalityType DEF Keyed
<1>2. IsFiniteSet(S \ {e}) /\ Cardinality(S \ {e}) = Cardinality(S) - 1
  BY <1>1, FS_RemoveElement
<1>3. Below(S, key, e) \in SUBSET (S \ {e})
  BY DEF Below, Keyed
<1>4. /\ IsFiniteSet(Below(S, key, e))
      /\ Cardinality(Below(S, key, e)) <= Cardinality(S \ {e})
  BY <1>2, <1>3, FS_Subset
<1>5. Cardinality(Below(S, key, e)) \in Nat
  BY <1>4, FS_CardinalityType
<1> QED BY <1>1, <1>2, <1>4, <1>5

LEMMA RankAscends ==
    ASSUME NEW S, NEW key, Keyed(S, key), NEW d \in S, NEW e \in S, key[d] < key[e]
    PROVE  Cardinality(Below(S, key, d)) < Cardinality(Below(S, key, e))
<1> DEFINE D == Below(S, key, d)
           E == Below(S, key, e)
<1>1. IsFiniteSet(D) /\ IsFiniteSet(E) /\ Cardinality(D) \in Nat /\ Cardinality(E) \in Nat
  BY RankType, FS_CardinalityType
<1>2. D \cup {d} \in SUBSET E /\ d \notin D
  BY DEF Below, Keyed
<1> HIDE DEF D, E
<1>3. Cardinality(D \cup {d}) = Cardinality(D) + 1
  BY <1>1, <1>2, FS_AddElement
<1>4. Cardinality(D \cup {d}) <= Cardinality(E)
  BY <1>1, <1>2, FS_Subset
<1> QED BY <1>1, <1>3, <1>4 DEF D, E

\* Each element has a place of its own, and no place is empty.
LEMMA RanksTaken ==
    ASSUME NEW S, NEW key, Keyed(S, key)
    PROVE  \A n \in 1..Cardinality(S) : \E e \in S :
              /\ Cardinality(Below(S, key, e)) = n - 1
              /\ \A d \in S : Cardinality(Below(S, key, d)) = n - 1 => d = e
<1> DEFINE N == Cardinality(S)
           r == [e \in S |-> Cardinality(Below(S, key, e)) + 1]
<1>1. N \in Nat /\ IsFiniteSet(S)
  BY FS_CardinalityType DEF Keyed
<1>2. \A e \in S : Cardinality(Below(S, key, e)) \in 0..(N - 1)
  BY RankType
<1>3. r \in [S -> 1..N]
  BY <1>1, <1>2
<1>4. \A d, e \in S : r[d] = r[e] => d = e
  <2> SUFFICES ASSUME NEW d \in S, NEW e \in S, r[d] = r[e], d # e PROVE FALSE
    OBVIOUS
  <2>1. key[d] < key[e] \/ key[e] < key[d]
    BY DEF Keyed
  <2> QED BY <1>2, <2>1, RankAscends
<1>5. r \in Surjection(S, 1..N)
  <2>1. r \in Injection(S, 1..N)
    BY <1>3, <1>4 DEF Injection, IsInjective
  <2>2. IsFiniteSet(1..N) /\ Cardinality(1..N) = N
    BY <1>1, FS_Interval
  <2> HIDE DEF r
  <2> QED BY <2>1, <2>2, FS_Injection
<1>6. \A n \in 1..N : \E e \in S : r[e] = n
  BY <1>5 DEF Surjection
<1> SUFFICES ASSUME NEW n \in 1..N
             PROVE  \E e \in S :
                      /\ Cardinality(Below(S, key, e)) = n - 1
                      /\ \A d \in S : Cardinality(Below(S, key, d)) = n - 1 => d = e
  OBVIOUS
<1>7. PICK e \in S : r[e] = n
  BY <1>6
<1>8. \A d \in S : Cardinality(Below(S, key, d)) = n - 1 <=> r[d] = n
  BY <1>1, <1>2
<1> HIDE DEF r
<1> QED BY <1>4, <1>7, <1>8

\* InOrder lists each element once, ascending.
Orders(q, S, key) ==
    /\ q \in [1..Cardinality(S) -> S] /\ Cardinality(S) \in Nat
    /\ \A e \in S : \E n \in 1..Cardinality(S) : q[n] = e
    /\ \A m, n \in 1..Cardinality(S) : m < n => key[q[m]] < key[q[n]]

LEMMA InOrderOrders ==
    ASSUME NEW S, NEW key, Keyed(S, key)
    PROVE  Orders(InOrder(S, key), S, key)
<1> DEFINE N == Cardinality(S)
           q == InOrder(S, key)
           rank(e) == Cardinality(Below(S, key, e))
<1>1. N \in Nat
  BY FS_CardinalityType DEF Keyed
<1>2. q = [n \in 1..N |-> CHOOSE e \in S : rank(e) = n - 1]
  BY DEF InOrder, Below
<1>3. \A n \in 1..N : q[n] \in S /\ rank(q[n]) = n - 1
  <2> SUFFICES ASSUME NEW n \in 1..N PROVE q[n] \in S /\ rank(q[n]) = n - 1
    OBVIOUS
  <2>1. q[n] = CHOOSE e \in S : rank(e) = n - 1
    BY <1>2
  <2>2. \E e \in S : rank(e) = n - 1
    BY RanksTaken
  <2> HIDE DEF rank
  <2> QED BY <2>1, <2>2
<1>4. \A e \in S : rank(e) \in 0..(N - 1)
  BY RankType
<1>5. ASSUME NEW e \in S
      PROVE  \E n \in 1..N : q[n] = e
  <2>1. rank(e) + 1 \in 1..N /\ rank(e) = (rank(e) + 1) - 1
    BY <1>1, <1>4, <1>5
  <2>2. rank(q[rank(e) + 1]) = rank(e) /\ q[rank(e) + 1] \in S
    BY <1>3, <2>1
  <2>3. \A d \in S : key[d] < key[e] => rank(d) < rank(e)
    BY RankAscends
  <2>4. \A d \in S : key[e] < key[d] => rank(e) < rank(d)
    BY RankAscends
  <2>5. \A d \in S : rank(d) = rank(e) => d = e
    <3> SUFFICES ASSUME NEW d \in S, rank(d) = rank(e), d # e PROVE FALSE
      OBVIOUS
    <3>1. key[d] < key[e] \/ key[e] < key[d]
      BY DEF Keyed
    <3> QED BY <1>4, <2>3, <2>4, <3>1
  <2> HIDE DEF rank, q
  <2> QED BY <2>1, <2>2, <2>5
<1>6. ASSUME NEW m \in 1..N, NEW n \in 1..N, m < n
      PROVE  key[q[m]] < key[q[n]]
  <2>1. q[m] \in S /\ q[n] \in S /\ rank(q[m]) < rank(q[n])
    BY <1>3, <1>6
  <2>2. key[q[m]] \in Int /\ key[q[n]] \in Int
    BY <2>1 DEF Keyed
  <2>3. ~(key[q[n]] < key[q[m]])
    <3>1. key[q[n]] < key[q[m]] => rank(q[n]) < rank(q[m])
      BY <2>1, RankAscends
    <3>2. rank(q[m]) \in Int /\ rank(q[n]) \in Int
      BY <1>4, <2>1
    <3> HIDE DEF rank, q
    <3> QED BY <2>1, <3>1, <3>2
  <2>4. key[q[n]] # key[q[m]]
    <3>1. q[n] # q[m]
      BY <1>3, <1>6
    <3> HIDE DEF q
    <3> QED BY <2>1, <3>1 DEF Keyed
  <2> QED BY <2>2, <2>3, <2>4
<1>7. q \in [1..N -> S]
  <2>1. q = [n \in 1..N |-> q[n]]
    BY <1>2
  <2> HIDE DEF q
  <2> QED BY <1>3, <2>1
<1> HIDE DEF q
<1> QED BY <1>1, <1>5, <1>6, <1>7 DEF Orders, q

-----------------------------------------------------------------------------
(***************************************************************************)
(* Arrays.                                                                 *)
(***************************************************************************)
\* An array of the registry: of each contract one element.
IsArray(s) ==
    /\ s \in Seq(Entry(Ids))
    /\ \A j, k \in DOMAIN s : s[j].id = s[k].id => j = k

\* Ascending from each place to every later one.
Rises(s) == \A j, k \in DOMAIN s : j < k => s[j].id < s[k].id

LEMMA IdsAreNumbers == Ids \subseteq Nat \ {0} /\ IsFiniteSet(Ids)
<1>1. \A n \in Nat : 1..n \subseteq Nat \ {0} /\ IsFiniteSet(1..n)
  <2> TAKE n \in Nat
  <2>1. IsFiniteSet(1..n)
    BY FS_Interval
  <2> QED BY <2>1
<1>2. 10^9 - 1 \in Nat
  <2>1. 10^9 = 1000000000
    BY SMT
  <2> QED BY <2>1, SMT
<1> QED BY <1>1, <1>2, FS_Subset, RegistryIdsAssumption

LEMMA SeqTyped ==
    ASSUME NEW s \in Seq(Entry(Ids))
    PROVE  /\ Len(s) \in Nat /\ DOMAIN s = 1..Len(s)
           /\ \A k \in DOMAIN s : s[k] \in Entry(Ids) /\ s[k].id \in Ids /\ s[k].id \in Nat
<1>1. Len(s) \in Nat /\ DOMAIN s = 1..Len(s) /\ \A k \in DOMAIN s : s[k] \in Entry(Ids)
  OBVIOUS
<1>2. \A e \in Entry(Ids) : e.id \in Ids /\ e.id \in Nat
  BY IdsAreNumbers DEF Entry
<1> QED BY <1>1, <1>2

LEMMA AscendsRises ==
    ASSUME NEW s \in Seq(Entry(Ids))
    PROVE  Ascends(s) <=> Rises(s)
<1>1. Len(s) \in Nat /\ DOMAIN s = 1..Len(s) /\ \A k \in DOMAIN s : s[k].id \in Nat
  BY SeqTyped
<1>2. Rises(s) => Ascends(s)
  BY <1>1 DEF Rises, Ascends
<1>3. ASSUME Ascends(s) PROVE Rises(s)
  <2> DEFINE Good == {n \in Nat : \A j, k \in DOMAIN s : k = j + n /\ n # 0 => s[j].id < s[k].id}
  <2>1. 0 \in Good
    OBVIOUS
  <2>2. ASSUME NEW n \in Nat, n \in Good PROVE n + 1 \in Good
    <3> SUFFICES ASSUME NEW j \in DOMAIN s, NEW k \in DOMAIN s, k = j + (n + 1)
                 PROVE  s[j].id < s[k].id
      OBVIOUS
    <3>1. k - 1 \in 1..(Len(s) - 1) /\ k - 1 \in DOMAIN s /\ k - 1 = j + n /\ (k - 1) + 1 = k
      BY <1>1
    <3>2. s[k - 1].id < s[k].id
      BY <1>3, <3>1 DEF Ascends
    <3>3. n # 0 => s[j].id < s[k - 1].id
      BY <2>2, <3>1
    <3>4. n = 0 => k - 1 = j
      BY <1>1
    <3>5. s[j].id \in Nat /\ s[k - 1].id \in Nat /\ s[k].id \in Nat
      BY <1>1, <3>1
    <3> QED BY <3>2, <3>3, <3>4, <3>5
  <2> HIDE DEF Good
  <2>3. Nat \subseteq Good
    BY <2>1, <2>2, NumbersInduct
  <2>4. ASSUME NEW j \in DOMAIN s, NEW k \in DOMAIN s, j < k
        PROVE  s[j].id < s[k].id
    <3>1. k - j \in Nat /\ k = j + (k - j) /\ k - j # 0
      BY <1>1, <2>4
    <3>2. k - j \in Good
      BY <2>3, <3>1
    <3> QED BY <3>1, <3>2 DEF Good
  <2> QED BY <2>4 DEF Rises
<1> QED BY <1>2, <1>3

\* The elements of an array at some places.
Placed(u, q, s, kept) ==
    /\ Orders(q, kept, [k \in kept |-> k]) /\ u \in Seq(Entry(Ids))
    /\ DOMAIN u = 1..Cardinality(kept) /\ Len(u) = Cardinality(kept)
    /\ \A n \in 1..Cardinality(kept) : u[n] = s[q[n]]

LEMMA AtPlacesIs ==
    ASSUME NEW s \in Seq(Entry(Ids)), NEW kept \in SUBSET DOMAIN s
    PROVE  \E q : Placed(AtPlaces(s, kept), q, s, kept)
<1> DEFINE key == [k \in kept |-> k]
           q == InOrder(kept, key)
           N == Cardinality(kept)
           u == AtPlaces(s, kept)
<1>1. DOMAIN s = 1..Len(s) /\ Len(s) \in Nat /\ \A k \in DOMAIN s : s[k] \in Entry(Ids)
  BY SeqTyped
<1>2. IsFiniteSet(kept)
  <2>1. IsFiniteSet(1..Len(s)) /\ kept \in SUBSET (1..Len(s))
    BY <1>1, FS_Interval
  <2> QED BY <2>1, FS_Subset
<1>3. Keyed(kept, key)
  BY <1>1, <1>2 DEF Keyed
<1>4. Orders(q, kept, key)
  BY <1>3, InOrderOrders
<1>5. u = [n \in DOMAIN q |-> s[q[n]]]
  BY DEF AtPlaces
<1> HIDE DEF q, u
<1>6. N \in Nat /\ DOMAIN q = 1..N /\ \A n \in 1..N : q[n] \in DOMAIN s
  BY <1>4 DEF Orders
<1>7. u \in [1..N -> Entry(Ids)]
  BY <1>1, <1>5, <1>6
<1>8. u \in Seq(Entry(Ids)) /\ DOMAIN u = 1..N /\ Len(u) = N
  BY <1>6, <1>7
<1>9. Placed(u, q, s, kept)
  BY <1>4, <1>5, <1>6, <1>8 DEF Placed
<1> QED BY <1>9 DEF u

LEMMA AtPlacesHas ==
    ASSUME NEW s \in Seq(Entry(Ids)), NEW kept \in SUBSET DOMAIN s
    PROVE  /\ AtPlaces(s, kept) \in Seq(Entry(Ids))
           /\ ToSet(AtPlaces(s, kept)) = {s[k] : k \in kept}
           /\ Rises(AtPlaces(s, kept)) <=> \A j, k \in kept : j < k => s[j].id < s[k].id
           /\ \A m \in kept : (\A k \in kept : k <= m) => /\ AtPlaces(s, kept) # <<>>
                                                          /\ Last(AtPlaces(s, kept)) = s[m]
           /\ (\A j, k \in kept : s[j].id = s[k].id => j = k) => IsArray(AtPlaces(s, kept))
<1> DEFINE N == Cardinality(kept)
           u == AtPlaces(s, kept)
<1>0. Len(s) \in Nat /\ DOMAIN s = 1..Len(s) /\ kept \subseteq Nat
  BY SeqTyped
<1>7. PICK q : Placed(u, q, s, kept)
  BY AtPlacesIs
<1>1. /\ Orders(q, kept, [k \in kept |-> k]) /\ u \in Seq(Entry(Ids))
      /\ DOMAIN u = 1..N /\ Len(u) = N /\ \A n \in 1..N : u[n] = s[q[n]]
  BY <1>7 DEF Placed
<1>2. /\ N \in Nat /\ \A n \in 1..N : q[n] \in kept
      /\ \A k \in kept : \E n \in 1..N : q[n] = k
      /\ \A m, n \in 1..N : m < n => q[m] < q[n]
  BY <1>1 DEF Orders
<1> HIDE DEF u, N
<1>3. ToSet(u) = {s[k] : k \in kept}
  <2>1. \A n \in DOMAIN u : \E k \in kept : u[n] = s[k]
    BY <1>1, <1>2
  <2>2. \A k \in kept : \E n \in DOMAIN u : u[n] = s[k]
    BY <1>1, <1>2, SMTT(30)
  <2> QED BY <2>1, <2>2 DEF ToSet
<1>4. \A m, n \in 1..N : q[m] < q[n] => m < n
  <2> SUFFICES ASSUME NEW m \in 1..N, NEW n \in 1..N, q[m] < q[n], ~(m < n) PROVE FALSE
    OBVIOUS
  <2>1. q[m] \in Nat /\ q[n] \in Nat /\ (m = n \/ n < m)
    BY <1>0, <1>2
  <2> QED BY <1>2, <2>1
<1>5. Rises(u) <=> \A j, k \in kept : j < k => s[j].id < s[k].id
  <2>1. ASSUME Rises(u), NEW j \in kept, NEW k \in kept, j < k
        PROVE  s[j].id < s[k].id
    <3>1. PICK m \in 1..N, n \in 1..N : q[m] = j /\ q[n] = k
      BY <1>2
    <3>2. m \in DOMAIN u /\ n \in DOMAIN u /\ m < n
      BY <1>1, <1>4, <2>1, <3>1
    <3>3. u[m].id < u[n].id /\ u[m] = s[j] /\ u[n] = s[k]
      BY <1>1, <2>1, <3>1, <3>2 DEF Rises
    <3> QED BY <3>3
  <2>2. ASSUME \A j, k \in kept : j < k => s[j].id < s[k].id
        PROVE  Rises(u)
    BY <1>1, <1>2, <2>2 DEF Rises
  <2> QED BY <2>1, <2>2
<1>6. ASSUME NEW m \in kept, \A k \in kept : k <= m
      PROVE  u # <<>> /\ Last(u) = s[m]
  <2>1. PICK n \in 1..N : q[n] = m
    BY <1>2
  <2>2. n = N
    <3> SUFFICES ASSUME n < N PROVE FALSE
      BY <1>2
    <3>1. N \in 1..N /\ q[N] \in kept /\ q[n] < q[N]
      BY <1>2
    <3> QED BY <1>0, <1>6, <2>1, <3>1
  <2>3. Last(u) = s[m]
    BY <1>1, <2>1, <2>2 DEF Last
  <2> QED BY <1>1, <1>2, <2>1, <2>3
<1>8. ASSUME \A j, k \in kept : s[j].id = s[k].id => j = k
      PROVE  IsArray(u)
  <2> SUFFICES ASSUME NEW m \in 1..N, NEW n \in 1..N, u[m].id = u[n].id PROVE m = n
    BY <1>1 DEF IsArray
  <2>1. q[m] = q[n] /\ q[m] \in Nat
    BY <1>0, <1>1, <1>2, <1>8
  <2> QED BY <1>2, <2>1
<1> QED BY <1>1, <1>3, <1>5, <1>6, <1>8 DEF u

\* The entries of a set in the order of their contracts.
LEMMA ByIdIs ==
    ASSUME NEW S \in SUBSET Entry(Ids), IsFiniteSet(S),
           \A d, e \in S : d.id = e.id => d = e
    PROVE  /\ IsArray(ById(S)) /\ ToSet(ById(S)) = S /\ Rises(ById(S))
<1> DEFINE key == [e \in S |-> e.id]
           N == Cardinality(S)
           u == ById(S)
<1>1. \A e \in S : e.id \in Nat
  BY IdsAreNumbers DEF Entry
<1>2. Keyed(S, key)
  BY <1>1 DEF Keyed
<1>3. Orders(u, S, key)
  BY <1>2, InOrderOrders DEF ById
<1> HIDE DEF u
<1>4. /\ N \in Nat /\ u \in [1..N -> S] /\ \A e \in S : \E n \in 1..N : u[n] = e
      /\ \A m, n \in 1..N : m < n => u[m].id < u[n].id
  BY <1>3 DEF Orders
<1>5. u \in Seq(Entry(Ids)) /\ DOMAIN u = 1..N
  BY <1>4
<1>6. Rises(u) /\ ToSet(u) = S
  BY <1>4, <1>5 DEF Rises, ToSet
<1>7. \A j, k \in DOMAIN u : u[j].id = u[k].id => j = k
  <2> SUFFICES ASSUME NEW j \in 1..N, NEW k \in 1..N, u[j].id = u[k].id, j # k PROVE FALSE
    BY <1>5
  <2>1. u[j].id \in Nat /\ u[k].id \in Nat /\ (j < k \/ k < j)
    BY <1>1, <1>4
  <2> QED BY <1>4, <2>1
<1> QED BY <1>5, <1>6, <1>7 DEF IsArray, u

LEMMA ArrayHas ==
    ASSUME NEW s, IsArray(s)
    PROVE  /\ ToSet(s) \in SUBSET Entry(Ids) /\ IsFiniteSet(ToSet(s))
           /\ \A d, e \in ToSet(s) : d.id = e.id => d = e
           /\ s # <<>> <=> ToSet(s) # {}
<1>1. /\ Len(s) \in Nat /\ DOMAIN s = 1..Len(s) /\ \A k \in DOMAIN s : s[k] \in Entry(Ids)
      /\ s \in Seq(Entry(Ids))
  BY SeqTyped DEF IsArray
<1>2. IsFiniteSet(ToSet(s))
  <2>1. IsFiniteSet(DOMAIN s)
    BY <1>1, FS_Interval
  <2>2. s \in Surjection(DOMAIN s, ToSet(s))
    <3>1. s \in [DOMAIN s -> ToSet(s)] /\ \A e \in ToSet(s) : \E k \in DOMAIN s : s[k] = e
      BY <1>1 DEF ToSet
    <3> QED BY <3>1 DEF Surjection
  <2> QED BY <2>1, <2>2, FS_Surjection
<1>3. s # <<>> <=> ToSet(s) # {}
  BY <1>1 DEF ToSet
<1> QED BY <1>1, <1>2, <1>3 DEF IsArray, ToSet

\* The largest contract of an ascending array is the last one's.
LEMMA RisesLast ==
    ASSUME NEW s, IsArray(s), Rises(s), s # <<>>
    PROVE  /\ Last(s).id = Largest(IdsOf(ToSet(s)))
           /\ \A e \in ToSet(s) : e.id <= Last(s).id
<1>1. /\ Len(s) \in Nat /\ DOMAIN s = 1..Len(s) /\ \A k \in DOMAIN s : s[k].id \in Nat
      /\ s \in Seq(Entry(Ids))
  BY SeqTyped DEF IsArray
<1>2. Len(s) \in DOMAIN s
  BY <1>1
<1>3. Last(s) \in ToSet(s) /\ Last(s).id \in Nat
  BY <1>1, <1>2 DEF Last, ToSet
<1>4. \A e \in ToSet(s) : e.id \in Nat /\ e.id <= Last(s).id
  <2> SUFFICES ASSUME NEW k \in DOMAIN s PROVE s[k].id \in Nat /\ s[k].id <= Last(s).id
    BY DEF ToSet
  <2> QED BY <1>1, <1>2 DEF Rises, Last
<1>5. Last(s).id \in IdsOf(ToSet(s)) /\ \A i \in IdsOf(ToSet(s)) : i \in Nat /\ i <= Last(s).id
  BY <1>3, <1>4 DEF IdsOf
<1>6. \A i \in IdsOf(ToSet(s)) :
        (\A j \in IdsOf(ToSet(s)) : j <= i) => i = Last(s).id
  BY <1>5
<1> QED BY <1>4, <1>5, <1>6 DEF Largest

-----------------------------------------------------------------------------
(***************************************************************************)
(* uniqBy over what is there, followed by what is new.                     *)
(***************************************************************************)
Firsts(s) == {k \in DOMAIN s : FirstOfId(s, k)}

\* c and new joined: the places of c and behind them those of new.
Joined(s, c, new) ==
    /\ s \in Seq(Entry(Ids)) /\ Len(c) \in Nat /\ Len(new) \in Nat
    /\ DOMAIN c = 1..Len(c) /\ DOMAIN new = 1..Len(new) /\ DOMAIN s = 1..(Len(c) + Len(new))
    /\ \A k \in 1..Len(c) : s[k] = c[k]
    /\ \A j \in 1..Len(new) : s[Len(c) + j] = new[j]

LEMMA ConcatJoins ==
    ASSUME NEW c \in Seq(Entry(Ids)), NEW new \in Seq(Entry(Ids))
    PROVE  Joined(c \o new, c, new)
BY DEF Joined

\* A place behind those of c is one of new.
LEMMA JoinedPlace ==
    ASSUME NEW s, NEW c, NEW new, Joined(s, c, new), NEW k \in DOMAIN s, ~(k <= Len(c))
    PROVE  k - Len(c) \in 1..Len(new) /\ s[k] = new[k - Len(c)]
<1>1. k - Len(c) \in 1..Len(new) /\ k = Len(c) + (k - Len(c))
  BY DEF Joined
<1> QED BY <1>1 DEF Joined

LEMMA FirstPlaces ==
    ASSUME NEW s, NEW c, NEW new, IsArray(c), IsArray(new), Joined(s, c, new)
    PROVE  /\ \A k \in 1..Len(c) : k \in Firsts(s)
           /\ \A j \in 1..Len(new) :
                Len(c) + j \in Firsts(s) <=> new[j] \in Fresh(ToSet(c), ToSet(new))
<1>1. /\ Len(c) \in Nat /\ Len(new) \in Nat /\ DOMAIN s = 1..(Len(c) + Len(new))
      /\ DOMAIN c = 1..Len(c) /\ DOMAIN new = 1..Len(new)
      /\ \A k \in 1..Len(c) : s[k] = c[k]
      /\ \A j \in 1..Len(new) : s[Len(c) + j] = new[j]
  BY DEF Joined
<1>2. ASSUME NEW k \in 1..Len(c) PROVE k \in Firsts(s)
  <2> SUFFICES ASSUME NEW m \in 1..(k - 1) PROVE s[m].id # s[k].id
    BY <1>1 DEF Firsts, FirstOfId
  <2>1. m \in 1..Len(c) /\ m # k /\ s[m] = c[m] /\ s[k] = c[k]
    BY <1>1
  <2> QED BY <1>1, <2>1 DEF IsArray
<1>3. ASSUME NEW j \in 1..Len(new)
      PROVE  Len(c) + j \in Firsts(s) <=> new[j] \in Fresh(ToSet(c), ToSet(new))
  <2> DEFINE p == Len(c) + j
  <2>1. p \in DOMAIN s /\ s[p] = new[j] /\ new[j] \in ToSet(new)
    BY <1>1 DEF ToSet
  <2>2. new[j] \in Fresh(ToSet(c), ToSet(new)) <=> \A k \in 1..Len(c) : c[k].id # new[j].id
    BY <1>1, <2>1, ZenonT(40) DEF Fresh, IdsOf, ToSet
  <2>3. ASSUME \A k \in 1..Len(c) : c[k].id # new[j].id, NEW m \in 1..(p - 1)
        PROVE  s[m].id # s[p].id
    <3>1. CASE m <= Len(c)
      <4>1. m \in 1..Len(c) /\ s[m] = c[m]
        BY <1>1, <3>1
      <4> QED BY <2>1, <2>3, <4>1
    <3>2. CASE ~(m <= Len(c))
      <4>1. m \in DOMAIN s /\ m - Len(c) # j
        BY <1>1, <3>2
      <4>2. m - Len(c) \in 1..Len(new) /\ s[m] = new[m - Len(c)]
        BY <3>2, <4>1, JoinedPlace
      <4> QED BY <1>1, <2>1, <4>1, <4>2 DEF IsArray
    <3> QED BY <3>1, <3>2
  <2>4. ASSUME FirstOfId(s, p), NEW k \in 1..Len(c)
        PROVE  c[k].id # new[j].id
    <3>1. k \in 1..(p - 1)
      BY <1>1
    <3> QED BY <1>1, <2>1, <2>4, <3>1 DEF FirstOfId
  <2>5. p \in Firsts(s) <=> FirstOfId(s, p)
    BY <2>1 DEF Firsts
  <2> HIDE DEF p
  <2>6. FirstOfId(s, p) <=> \A k \in 1..Len(c) : c[k].id # new[j].id
    BY <2>3, <2>4 DEF FirstOfId
  <2> QED BY <2>2, <2>5, <2>6 DEF p
<1> QED BY <1>2, <1>3

LEMMA UniqByIs ==
    ASSUME NEW c, NEW new, IsArray(c), IsArray(new)
    PROVE  /\ IsArray(UniqBy(c \o new))
           /\ ToSet(UniqBy(c \o new)) = ToSet(c) \cup Fresh(ToSet(c), ToSet(new))
<1> DEFINE s == c \o new
           kept == Firsts(s)
<1>1. Joined(s, c, new)
  BY ConcatJoins DEF IsArray
<1>2. s \in Seq(Entry(Ids)) /\ kept \in SUBSET DOMAIN s /\ UniqBy(s) = AtPlaces(s, kept)
  BY <1>1 DEF Joined, Firsts, UniqBy
<1> HIDE DEF s
<1>3. \A j, k \in kept : s[j].id = s[k].id => j = k
  <2> SUFFICES ASSUME NEW j \in kept, NEW k \in kept, s[j].id = s[k].id, j # k PROVE FALSE
    OBVIOUS
  <2>1. j \in Nat /\ k \in Nat /\ j >= 1 /\ k >= 1 /\ FirstOfId(s, j) /\ FirstOfId(s, k)
    BY <1>2, SeqTyped DEF Firsts
  <2>2. j \in 1..(k - 1) \/ k \in 1..(j - 1)
    BY <2>1
  <2> QED BY <2>1, <2>2 DEF FirstOfId
<1>4. {s[k] : k \in kept} = ToSet(c) \cup Fresh(ToSet(c), ToSet(new))
  <2>1. ASSUME NEW k \in kept
        PROVE  s[k] \in ToSet(c) \cup Fresh(ToSet(c), ToSet(new))
    <3>1. k \in DOMAIN s
      BY <1>2
    <3>2. CASE k <= Len(c)
      <4>1. k \in DOMAIN c /\ s[k] = c[k]
        BY <1>1, <3>1, <3>2 DEF Joined
      <4> QED BY <4>1 DEF ToSet
    <3>3. CASE ~(k <= Len(c))
      <4>1. k - Len(c) \in 1..Len(new) /\ s[k] = new[k - Len(c)]
        BY <1>1, <3>1, <3>3, JoinedPlace
      <4>2. Len(c) + (k - Len(c)) = k
        BY <1>1, <3>1 DEF Joined
      <4> QED BY <1>1, <4>1, <4>2, FirstPlaces
    <3> QED BY <3>2, <3>3
  <2>2. ASSUME NEW e \in ToSet(c) PROVE \E k \in kept : s[k] = e
    <3>1. PICK k \in DOMAIN c : c[k] = e
      BY DEF ToSet
    <3>2. k \in 1..Len(c) /\ s[k] = e
      BY <1>1, <3>1 DEF Joined
    <3> QED BY <1>1, <3>2, FirstPlaces
  <2>3. ASSUME NEW e \in Fresh(ToSet(c), ToSet(new)) PROVE \E k \in kept : s[k] = e
    <3>1. PICK j \in DOMAIN new : new[j] = e
      BY DEF Fresh, ToSet
    <3>2. j \in 1..Len(new) /\ s[Len(c) + j] = e
      BY <1>1, <3>1 DEF Joined
    <3>3. Len(c) + j \in kept
      BY <1>1, <3>1, <3>2, FirstPlaces
    <3> QED BY <3>2, <3>3
  <2> QED BY <2>1, <2>2, <2>3
<1> HIDE DEF kept
<1>5. IsArray(AtPlaces(s, kept)) /\ ToSet(AtPlaces(s, kept)) = {s[k] : k \in kept}
  BY <1>2, <1>3, AtPlacesHas
<1> QED BY <1>2, <1>4, <1>5 DEF s

\* The path that does not sort.
LEMMA UniqByAppends ==
    ASSUME NEW c, NEW new, IsArray(c), IsArray(new), Rises(new), c # <<>>
    PROVE  LET u == UniqBy(c \o new)
               fresh == Fresh(ToSet(c), ToSet(new))
           IN  /\ u # <<>>
               /\ Rises(u) <=> Rises(c) /\ \A e \in fresh : Last(c).id < e.id
               /\ Last(u).id = IF fresh = {} THEN Last(c).id ELSE Largest(IdsOf(fresh))
<1> DEFINE s == c \o new
           kept == Firsts(s)
           fresh == Fresh(ToSet(c), ToSet(new))
           u == AtPlaces(s, kept)
           n == Len(c)
<1>1. Joined(s, c, new)
  BY ConcatJoins DEF IsArray
<1>2. s \in Seq(Entry(Ids)) /\ kept \in SUBSET DOMAIN s /\ UniqBy(s) = u
  BY <1>1 DEF Joined, Firsts, UniqBy
<1> HIDE DEF s
<1>3. /\ n \in Nat /\ n # 0 /\ DOMAIN c = 1..n /\ DOMAIN new = 1..Len(new)
      /\ DOMAIN s = 1..(n + Len(new)) /\ Len(new) \in Nat
      /\ \A k \in 1..n : s[k] = c[k] /\ k \in kept
      /\ \A j \in 1..Len(new) : s[n + j] = new[j] /\ (n + j \in kept <=> new[j] \in fresh)
  <2>1. n # 0
    BY DEF IsArray
  <2> QED BY <1>1, <2>1, FirstPlaces DEF Joined
<1>4. /\ \A k \in 1..n : c[k].id \in Nat
      /\ \A j \in 1..Len(new) : new[j].id \in Nat
      /\ Last(c) = c[n] /\ n \in 1..n
  <2>1. c \in Seq(Entry(Ids)) /\ new \in Seq(Entry(Ids))
    BY DEF IsArray
  <2> QED BY <1>3, <2>1, SeqTyped DEF Last
<1>5. \A e \in fresh : \E j \in 1..Len(new) : e = new[j]
  BY <1>3 DEF Fresh, ToSet
<1>6. ASSUME NEW k \in kept
      PROVE  \/ k \in 1..n /\ s[k] = c[k]
             \/ \E j \in 1..Len(new) : k = n + j /\ s[k] = new[j] /\ new[j] \in fresh
  <2>1. k \in DOMAIN s
    BY <1>2
  <2>2. CASE k <= n
    BY <1>3, <2>1, <2>2
  <2>3. CASE ~(k <= n)
    <3>1. k - n \in 1..Len(new) /\ s[k] = new[k - n] /\ k = n + (k - n)
      BY <1>1, <1>3, <2>1, <2>3, JoinedPlace
    <3> QED BY <1>3, <3>1
  <2> QED BY <2>2, <2>3
<1> HIDE DEF kept, fresh, n
<1>7. Rises(u) <=> \A j, k \in kept : j < k => s[j].id < s[k].id
  BY <1>2, AtPlacesHas
<1>8. ASSUME Rises(u)
      PROVE  Rises(c) /\ \A e \in fresh : Last(c).id < e.id
  <2>1. Rises(c)
    BY <1>3, <1>7, <1>8 DEF Rises
  <2>2. ASSUME NEW e \in fresh PROVE Last(c).id < e.id
    <3>1. PICK j \in 1..Len(new) : e = new[j]
      BY <1>5
    <3>2. n \in kept /\ n + j \in kept /\ n < n + j /\ s[n] = c[n] /\ s[n + j] = e
      BY <1>3, <1>4, <3>1
    <3> QED BY <1>4, <1>7, <1>8, <3>2
  <2> QED BY <2>1, <2>2
<1>9. ASSUME Rises(c), \A e \in fresh : Last(c).id < e.id
      PROVE  Rises(u)
  <2> SUFFICES ASSUME NEW j \in kept, NEW k \in kept, j < k PROVE s[j].id < s[k].id
    BY <1>7
  <2>1. CASE k \in 1..n /\ s[k] = c[k]
    <3>1. j \in 1..n /\ s[j] = c[j]
      BY <1>3, <1>6, <2>1
    <3> QED BY <1>3, <1>9, <2>1, <3>1 DEF Rises
  <2>2. CASE \E i \in 1..Len(new) : k = n + i /\ s[k] = new[i] /\ new[i] \in fresh
    <3>1. PICK i \in 1..Len(new) : k = n + i /\ s[k] = new[i] /\ new[i] \in fresh
      BY <2>2
    <3>2. CASE j \in 1..n /\ s[j] = c[j]
      <4>1. c[j].id <= Last(c).id
        <5>1. CASE j = n
          BY <1>4, <5>1
        <5>2. CASE j # n
          <6>1. j \in 1..n /\ n \in Nat
            BY <1>3, <3>2
          <6>2. j < n
            BY <5>2, <6>1
          <6>3. c[j].id < c[n].id
            BY <1>3, <1>4, <1>9, <6>1, <6>2 DEF Rises
          <6>4. c[j].id \in Nat /\ c[n].id \in Nat /\ Last(c) = c[n]
            BY <1>4, <6>1
          <6> QED BY <6>3, <6>4
        <5> QED BY <5>1, <5>2
      <4>2. Last(c).id < new[i].id
        BY <1>9, <3>1
      <4> QED BY <1>4, <3>1, <3>2, <4>1, <4>2
    <3>3. CASE \E h \in 1..Len(new) : j = n + h /\ s[j] = new[h] /\ new[h] \in fresh
      <4>1. PICK h \in 1..Len(new) : j = n + h /\ s[j] = new[h]
        BY <3>3
      <4>2. h < i
        BY <1>3, <3>1, <4>1
      <4> QED BY <1>3, <3>1, <4>1, <4>2 DEF Rises
    <3> QED BY <1>6, <3>2, <3>3
  <2> QED BY <1>6, <2>1, <2>2
<1>10. CASE fresh = {}
  <2>1. n \in kept /\ \A k \in kept : k <= n
    BY <1>3, <1>4, <1>6, <1>10
  <2>2. u # <<>> /\ Last(u) = s[n]
    BY <1>2, <2>1, AtPlacesHas
  <2>3. Last(u).id = Last(c).id
    BY <1>3, <1>4, <2>2
  <2> QED BY <1>2, <1>8, <1>9, <1>10, <2>2, <2>3 DEF s, fresh, kept
<1>11. CASE fresh # {}
  <2> DEFINE K == {j \in 1..Len(new) : new[j] \in fresh}
  <2>1. /\ K \in SUBSET (1..Len(new)) /\ K # {}
        /\ IsFiniteSet(1..Len(new)) /\ 1..Len(new) \subseteq Int
    <3>1. K # {}
      BY <1>5, <1>11
    <3>2. IsFiniteSet(1..Len(new)) /\ 1..Len(new) \subseteq Int
      BY <1>3, FS_Interval
    <3> QED BY <3>1, <3>2
  <2>2. PICK m \in K : \A j \in K : j <= m
    <3> HIDE DEF K
    <3> QED BY <2>1, LargestExists
  <2>3. n + m \in kept /\ s[n + m] = new[m] /\ m \in 1..Len(new) /\ new[m] \in fresh
    BY <1>3
  <2>4. \A k \in kept : k <= n + m
    <3> SUFFICES ASSUME NEW k \in kept PROVE k <= n + m
      OBVIOUS
    <3>1. CASE k \in 1..n
      BY <1>3, <2>3, <3>1
    <3>2. CASE \E j \in 1..Len(new) : k = n + j /\ new[j] \in fresh
      BY <1>3, <2>2, <2>3, <3>2
    <3> QED BY <1>6, <3>1, <3>2
  <2>5. u # <<>> /\ Last(u) = new[m]
    <3>1. u # <<>> /\ Last(u) = s[n + m]
      BY <1>2, <2>3, <2>4, AtPlacesHas
    <3> QED BY <2>3, <3>1
  <2>6. \A i \in IdsOf(fresh) : i \in Nat /\ i <= new[m].id
    <3> SUFFICES ASSUME NEW e \in fresh PROVE e.id \in Nat /\ e.id <= new[m].id
      BY DEF IdsOf
    <3>1. PICK j \in 1..Len(new) : e = new[j]
      BY <1>5
    <3>2. j \in K /\ j <= m
      BY <2>2, <3>1
    <3>3. j = m \/ new[j].id < new[m].id
      BY <1>3, <2>3, <3>2 DEF Rises
    <3> QED BY <1>4, <2>3, <3>1, <3>3
  <2>7. new[m].id \in IdsOf(fresh) /\ new[m].id \in Nat
    BY <1>4, <2>3 DEF IdsOf
  <2>8. Largest(IdsOf(fresh)) = new[m].id
    <3>1. \A i \in IdsOf(fresh) : (\A j \in IdsOf(fresh) : j <= i) => i = new[m].id
      BY <2>6, <2>7
    <3> QED BY <2>6, <2>7, <3>1 DEF Largest
  <2> QED BY <1>2, <1>8, <1>9, <1>11, <2>5, <2>8 DEF s, fresh, kept
<1> QED BY <1>10, <1>11

-----------------------------------------------------------------------------
(***************************************************************************)
(* Numerals: IdLess, by division, is the order of strings.                 *)
(***************************************************************************)
Numbers == 1..(10^9 - 1)

LEMMA Powers ==
    /\ 10^0 = 1 /\ 10^1 = 10 /\ 10^2 = 100 /\ 10^3 = 1000 /\ 10^4 = 10000
    /\ 10^5 = 100000 /\ 10^6 = 1000000 /\ 10^7 = 10000000 /\ 10^8 = 100000000
    /\ 10^9 = 1000000000
BY SMT

\* The last digit of a quotient, and the quotient before it.
Split(n, j) ==
    /\ n \div 10^j \in Nat /\ (n \div 10^j) % 10 \in 0..9
    /\ n \div 10^j = 10 * (n \div 10^(j + 1)) + ((n \div 10^j) % 10)

LEMMA SplitLow == \A n \in Nat : Split(n, 0) /\ Split(n, 1) /\ Split(n, 2)
BY Powers, SMT DEF Split

LEMMA SplitMiddle == \A n \in Nat : Split(n, 3) /\ Split(n, 4) /\ Split(n, 5)
BY Powers, SMT DEF Split

LEMMA SplitHigh == \A n \in Nat : Split(n, 6) /\ Split(n, 7) /\ Split(n, 8)
BY Powers, SMT DEF Split

LEMMA DigitsIs ==
    ASSUME NEW n \in Numbers
    PROVE  /\ Digits(n) \in 1..9 /\ n \div 10^Digits(n) = 0 /\ n \div 10^0 = n
<1>1. \E k \in 1..9 : 10^(k - 1) <= n /\ n < 10^k
  <2>1. CASE n < 1000
    BY <2>1, Powers, SMT DEF Numbers
  <2>2. CASE 1000 <= n /\ n < 1000000
    BY <2>2, Powers, SMT DEF Numbers
  <2>3. CASE 1000000 <= n
    BY <2>3, Powers, SMT DEF Numbers
  <2> QED BY <2>1, <2>2, <2>3, Powers, SMT DEF Numbers
<1>2. Digits(n) \in 1..9 /\ n < 10^Digits(n)
  BY <1>1 DEF Digits
<1>3. \A k \in 1..9 : n < 10^k => n \div 10^k = 0
  <2>1. n \in Nat
    BY Powers, SMT DEF Numbers
  <2> QED BY <2>1, Powers, SMT
<1>4. n \div 10^0 = n
  BY Powers, SMT DEF Numbers
<1> QED BY <1>2, <1>3, <1>4

\* A numeral read from the left: l[k] is the number its first k digits make.
Reads(l, c, size) ==
    /\ size \in Nat /\ l \in [0..size -> Nat] /\ l[0] = 0
    /\ \A k \in 0..(size - 1) : c[k + 1] \in 0..9 /\ l[k + 1] = 10 * l[k] + c[k + 1]

LEMMA NumeralReads ==
    ASSUME NEW n \in Numbers
    PROVE  Reads([k \in 0..Digits(n) |-> Leading(n, k)], Characters(n), Digits(n))
<1> DEFINE D == Digits(n)
<1>1. D \in 1..9 /\ n \div 10^D = 0 /\ n \div 10^0 = n
  BY DigitsIs
<1>2. n \in Nat
  BY Powers, SMT DEF Numbers
<1>3. \A j \in 0..8 : Split(n, j)
  <2>1. \A j \in 0..8 : j \in {0, 1, 2} \/ j \in {3, 4, 5} \/ j \in {6, 7, 8}
    OBVIOUS
  <2> QED BY <1>2, <2>1, SplitLow, SplitMiddle, SplitHigh
<1> HIDE DEF D
<1>4. ASSUME NEW k \in 0..(D - 1)
      PROVE  /\ Characters(n)[k + 1] \in 0..9 /\ Leading(n, k + 1) \in Nat
             /\ Leading(n, k + 1) = 10 * Leading(n, k) + Characters(n)[k + 1]
  <2> DEFINE j == D - (k + 1)
  <2>1. j \in 0..8 /\ D - k = j + 1 /\ k + 1 \in 1..D
    BY <1>1
  <2>2. Characters(n)[k + 1] = (n \div 10^j) % 10
    BY <2>1 DEF Characters, D
  <2>3. Leading(n, k + 1) = n \div 10^j /\ Leading(n, k) = n \div 10^(j + 1)
    BY <2>1 DEF Leading, D
  <2> HIDE DEF j
  <2> QED BY <1>3, <2>1, <2>2, <2>3 DEF Split
<1>5. Leading(n, 0) = 0
  <2>1. D - 0 = D
    BY <1>1
  <2> QED BY <1>1, <2>1 DEF Leading, D
<1> DEFINE l == [k \in 0..D |-> Leading(n, k)]
<1>6. \A k \in 0..D : Leading(n, k) \in Nat
  <2> SUFFICES ASSUME NEW k \in 0..D PROVE Leading(n, k) \in Nat
    OBVIOUS
  <2>1. CASE k = 0
    BY <1>5, <2>1
  <2>2. CASE k # 0
    <3>1. k - 1 \in 0..(D - 1) /\ (k - 1) + 1 = k
      BY <1>1, <2>2
    <3> QED BY <1>4, <3>1
  <2> QED BY <2>1, <2>2
<1>7. Reads(l, Characters(n), D)
  <2>1. l \in [0..D -> Nat] /\ l[0] = 0
    BY <1>1, <1>5, <1>6
  <2>2. ASSUME NEW k \in 0..(D - 1)
        PROVE  Characters(n)[k + 1] \in 0..9 /\ l[k + 1] = 10 * l[k] + Characters(n)[k + 1]
    <3>1. k \in 0..D /\ k + 1 \in 0..D
      BY <1>1
    <3> QED BY <1>4, <3>1
  <2> HIDE DEF l
  <2> QED BY <1>1, <2>1, <2>2 DEF Reads
<1> QED BY <1>7 DEF D

\* The first difference of two numerals decides between the numbers.
LEMMA PrefixOrder ==
    ASSUME NEW l, NEW c, NEW D, Reads(l, c, D), NEW m, NEW d, NEW E, Reads(m, d, E)
    PROVE  \A k \in Nat : k <= D /\ k <= E =>
             /\ l[k] = m[k] <=> \A i \in 1..k : c[i] = d[i]
             /\ l[k] < m[k] <=> \E i \in 1..k : c[i] < d[i] /\ \A h \in 1..(i - 1) : c[h] = d[h]
<1> DEFINE Same(k) == \A i \in 1..k : c[i] = d[i]
           Less(k) == \E i \in 1..k : c[i] < d[i] /\ Same(i - 1)
           Good == {k \in Nat : k <= D /\ k <= E =>
                       (l[k] = m[k] <=> Same(k)) /\ (l[k] < m[k] <=> Less(k))}
<1>1. 0 \in Good
  BY DEF Reads
<1>2. ASSUME NEW k \in Nat, k \in Good PROVE k + 1 \in Good
  <2> SUFFICES ASSUME k + 1 <= D, k + 1 <= E
               PROVE  /\ l[k + 1] = m[k + 1] <=> Same(k + 1)
                      /\ l[k + 1] < m[k + 1] <=> Less(k + 1)
    OBVIOUS
  <2>1. k \in 0..(D - 1) /\ k \in 0..(E - 1) /\ D \in Nat /\ E \in Nat
    BY DEF Reads
  <2>2. /\ l[k] \in Nat /\ m[k] \in Nat /\ c[k + 1] \in 0..9 /\ d[k + 1] \in 0..9
        /\ l[k + 1] = 10 * l[k] + c[k + 1] /\ m[k + 1] = 10 * m[k] + d[k + 1]
    BY <2>1 DEF Reads
  <2>3. Same(k + 1) <=> Same(k) /\ c[k + 1] = d[k + 1]
    <3>1. 1..(k + 1) = 1..k \cup {k + 1}
      OBVIOUS
    <3> QED BY <3>1
  <2>4. Less(k + 1) <=> Less(k) \/ (c[k + 1] < d[k + 1] /\ Same(k))
    <3>1. \A i : i \in 1..(k + 1) <=> i \in 1..k \/ i = k + 1
      OBVIOUS
    <3>2. (k + 1) - 1 = k
      OBVIOUS
    <3> HIDE DEF Same
    <3> QED BY <3>1, <3>2
  <2>5. (l[k] = m[k] <=> Same(k)) /\ (l[k] < m[k] <=> Less(k))
    BY <1>2, <2>1
  <2> HIDE DEF Same, Less
  <2> QED BY <2>2, <2>3, <2>4, <2>5
<1> HIDE DEF Good
<1>3. Nat \subseteq Good
  BY <1>1, <1>2, NumbersInduct
<1> QED BY <1>3 DEF Good

LEMMA StrictPrefix ==
    ASSUME NEW a \in Numbers, NEW b \in Numbers
    PROVE  IsStrictPrefix(Characters(a), Characters(b)) <=>
             /\ Digits(a) < Digits(b)
             /\ \A i \in 1..Digits(a) : Characters(a)[i] = Characters(b)[i]
<1> DEFINE c == Characters(a)
           d == Characters(b)
           D == Digits(a)
           E == Digits(b)
<1>1. D \in Nat /\ E \in Nat
  BY DigitsIs
<1>2. c \in Seq(Int) /\ Len(c) = D /\ DOMAIN c = 1..D
  <2>1. \A k \in 1..D : c[k] \in 0..9
    <3> SUFFICES ASSUME NEW k \in 1..D PROVE c[k] \in 0..9
      OBVIOUS
    <3>1. k - 1 \in 0..(D - 1) /\ (k - 1) + 1 = k
      BY <1>1
    <3> QED BY <3>1, NumeralReads DEF Reads
  <2>2. c = [k \in 1..D |-> c[k]]
    BY DEF Characters
  <2> HIDE DEF c, D
  <2> QED BY <1>1, <2>1, <2>2
<1>3. d \in Seq(Int) /\ Len(d) = E /\ DOMAIN d = 1..E
  <2>1. \A k \in 1..E : d[k] \in 0..9
    <3> SUFFICES ASSUME NEW k \in 1..E PROVE d[k] \in 0..9
      OBVIOUS
    <3>1. k - 1 \in 0..(E - 1) /\ (k - 1) + 1 = k
      BY <1>1
    <3> QED BY <3>1, NumeralReads DEF Reads
  <2>2. d = [k \in 1..E |-> d[k]]
    BY DEF Characters
  <2> HIDE DEF d, E
  <2> QED BY <1>1, <2>1, <2>2
<1> HIDE DEF c, d, D, E
<1>4. ASSUME D <= E
      PROVE  SubSeq(c, 1, D) = SubSeq(d, 1, D) <=> \A i \in 1..D : c[i] = d[i]
  <2>1. SubSeq(c, 1, D) = [i \in 1..D |-> c[i]] /\ SubSeq(d, 1, D) = [i \in 1..D |-> d[i]]
    BY <1>1, <1>2, <1>3, <1>4
  <2> QED BY <2>1
<1>5. IsPrefix(c, d) <=> D <= E /\ \A i \in 1..D : c[i] = d[i]
  <2>1. IsPrefix(c, d) <=> D <= E /\ SubSeq(c, 1, D) = SubSeq(d, 1, D)
    BY <1>2, <1>3 DEF IsPrefix
  <2> QED BY <1>4, <2>1
<1>6. c = d <=> D = E /\ \A i \in 1..D : c[i] = d[i]
  BY <1>2, <1>3, SMTT(30)
<1>7. IsStrictPrefix(c, d) <=> D < E /\ \A i \in 1..D : c[i] = d[i]
  BY <1>1, <1>5, <1>6 DEF IsStrictPrefix
<1> QED BY <1>7 DEF c, d, D, E

LEMMA SameOrder ==
    ASSUME NEW a \in Numbers, NEW b \in Numbers
    PROVE  StringLess(a, b) <=> IdLess(a, b)
<1> DEFINE c == Characters(a)
           d == Characters(b)
           D == Digits(a)
           E == Digits(b)
           l == [k \in 0..D |-> Leading(a, k)]
           m == [k \in 0..E |-> Leading(b, k)]
           K == IF D < E THEN D ELSE E
           Same(k) == \A i \in 1..k : c[i] = d[i]
<1>1. D \in Nat /\ E \in Nat
  BY DigitsIs
<1>2. Reads(l, c, D) /\ Reads(m, d, E)
  BY NumeralReads
<1>3. /\ K \in Nat /\ K <= D /\ K <= E
  BY <1>1
<1>4. /\ l[K] = m[K] <=> Same(K)
      /\ l[K] < m[K] <=> \E i \in 1..K : c[i] < d[i] /\ Same(i - 1)
  <2> HIDE DEF c, d, D, E, K, l, m
  <2> QED BY <1>2, <1>3, PrefixOrder
<1>5. l[K] = Leading(a, K) /\ m[K] = Leading(b, K)
  BY <1>1, <1>3
<1>6. IdLess(a, b) <=> (l[K] < m[K] \/ (l[K] = m[K] /\ D < E))
  BY <1>5 DEF IdLess
<1>7. IsStrictPrefix(c, d) <=> D < E /\ Same(D)
  BY StrictPrefix
<1>8. DOMAIN c \cap DOMAIN d = 1..K
  <2>1. DOMAIN c = 1..D /\ DOMAIN d = 1..E
    BY DEF Characters
  <2> HIDE DEF c, d, D, E
  <2> QED BY <1>1, <2>1
<1>9. StringLess(a, b) <=> \/ IsStrictPrefix(c, d)
                           \/ \E i \in 1..K : c[i] < d[i] /\ Same(i - 1)
  <2>1. StringLess(a, b) <=> Before(c, d)
    BY DEF StringLess
  <2> HIDE DEF c, d, K
  <2> QED BY <1>8, <2>1 DEF Before
<1>10. D < E => K = D
  OBVIOUS
<1> HIDE DEF c, d, D, E, l, m, K, Same
<1> QED BY <1>4, <1>6, <1>7, <1>9, <1>10

-----------------------------------------------------------------------------
(***************************************************************************)
(* A batch on the array and on its abstraction.                            *)
(***************************************************************************)
\* The abstraction a stands for the array s.
StandsFor(a, s) ==
    /\ a.ents = ToSet(s)
    /\ s # <<>> => a.last = Last(s).id
    /\ a.asc = Ascends(s)

IsBatch(new) == IsArray(new) /\ Rises(new) /\ new # <<>>

\* What the scan of some contracts found, a record for each.
Records(ids, f) == {[id |-> i, info |-> f[i]] : i \in ids}

LEMMA RecordsMakeBatch ==
    ASSUME NEW ids \in SUBSET Ids, ids # {}, NEW f \in [ids -> Info]
    PROVE  IsBatch(ById(Records(ids, f)))
<1> DEFINE g == [i \in ids |-> [id |-> i, info |-> f[i]]]
           S == Records(ids, f)
<1>1. \A i \in ids : g[i] \in Entry(Ids) /\ g[i].id = i
  BY DEF Entry
<1>2. \A e \in S : \E i \in ids : e = g[i]
  BY DEF Records
<1>3. \A i \in ids : g[i] \in S
  BY DEF Records
<1>4. g \in [ids -> S]
  BY <1>3
<1> HIDE DEF S, g
<1>5. S \in SUBSET Entry(Ids) /\ S # {} /\ \A d, e \in S : d.id = e.id => d = e
  BY <1>1, <1>2, <1>3
<1>6. IsFiniteSet(S)
  <2>1. IsFiniteSet(ids)
    BY IdsAreNumbers, FS_Subset
  <2>2. g \in Surjection(ids, S)
    BY <1>2, <1>4 DEF Surjection
  <2> QED BY <2>1, <2>2, FS_Surjection
<1>7. IsArray(ById(S)) /\ ToSet(ById(S)) = S /\ Rises(ById(S))
  BY <1>5, <1>6, ByIdIs
<1>8. ById(S) # <<>>
  BY <1>5, <1>7, ArrayHas
<1> QED BY <1>7, <1>8 DEF IsBatch, S

LEMMA BatchesAre == \A new \in Batches : IsBatch(new)
<1>1. Batches = UNION {{ById(Records(ids, f)) : f \in [ids -> Info]} :
                         ids \in (SUBSET Ids) \ {{}}}
  BY DEF Batches, Records
<1> SUFFICES ASSUME NEW new \in Batches PROVE IsBatch(new)
  OBVIOUS
<1>2. PICK ids \in (SUBSET Ids) \ {{}} : new \in {ById(Records(ids, f)) : f \in [ids -> Info]}
  BY <1>1
<1>3. PICK f \in [ids -> Info] : new = ById(Records(ids, f))
  BY <1>2
<1> QED BY <1>3, RecordsMakeBatch

\* Both look at the last element of the array and the first one of the batch.
LEMMA SamePath ==
    ASSUME NEW a, NEW c, NEW new, IsArray(c), c # <<>>, StandsFor(a, c), IsBatch(new)
    PROVE  PrecedesAsString(a, ToSet(new)) <=> StringLess(Last(c).id, Head(new).id)
<1>1. /\ Len(c) \in Nat /\ DOMAIN c = 1..Len(c) /\ \A k \in DOMAIN c : c[k].id \in Ids
      /\ c \in Seq(Entry(Ids))
  BY SeqTyped DEF IsArray
<1>2. Last(c).id \in Ids /\ a.last = Last(c).id
  BY <1>1 DEF Last, StandsFor
<1>3. /\ Len(new) \in Nat /\ DOMAIN new = 1..Len(new) /\ new \in Seq(Entry(Ids))
      /\ \A k \in DOMAIN new : new[k].id \in Ids /\ new[k].id \in Nat
  BY SeqTyped DEF IsBatch, IsArray
<1>4. Head(new) = new[1] /\ 1 \in DOMAIN new
  BY <1>3 DEF IsBatch
<1>5. \A k \in DOMAIN new : new[1].id <= new[k].id
  <2> SUFFICES ASSUME NEW k \in DOMAIN new PROVE new[1].id <= new[k].id
    OBVIOUS
  <2>1. k = 1 \/ 1 < k
    BY <1>3
  <2>2. 1 < k => new[1].id < new[k].id
    BY <1>3, <1>4 DEF IsBatch, Rises
  <2> QED BY <1>3, <1>4, <2>1, <2>2
<1>6. \A j \in DOMAIN new :
        (\A k \in DOMAIN new : new[j].id <= new[k].id) <=> new[j].id = new[1].id
  BY <1>3, <1>4, <1>5
<1>7. PrecedesAsString(a, ToSet(new)) <=>
        \E j \in DOMAIN new : /\ \A k \in DOMAIN new : new[j].id <= new[k].id
                              /\ IdLess(a.last, new[j].id)
  BY DEF PrecedesAsString, ToSet
<1>8. PrecedesAsString(a, ToSet(new)) <=> IdLess(Last(c).id, new[1].id)
  BY <1>2, <1>4, <1>6, <1>7
<1>9. StringLess(Last(c).id, new[1].id) <=> IdLess(Last(c).id, new[1].id)
  <2>1. Last(c).id \in Numbers /\ new[1].id \in Numbers
    BY <1>2, <1>3, <1>4, RegistryIdsAssumption DEF Numbers
  <2> QED BY <2>1, SameOrder
<1> QED BY <1>4, <1>8, <1>9

LEMMA AscendingStandsFor ==
    ASSUME NEW s, IsArray(s), Rises(s), s # <<>>
    PROVE  StandsFor(Ascending(ToSet(s)), s)
<1>1. Ascends(s) = TRUE
  BY AscendsRises DEF IsArray, Ascends
<1>2. Last(s).id = Largest(IdsOf(ToSet(s)))
  BY RisesLast
<1> QED BY <1>1, <1>2 DEF StandsFor, Ascending

LEMMA UpdatedStandsFor ==
    ASSUME NEW a, NEW c, NEW new, IsArray(c), StandsFor(a, c), IsBatch(new)
    PROVE  /\ IsArray(Updated(c, new)) /\ ToSet(c) \subseteq ToSet(Updated(c, new))
           /\ StandsFor(Merge(a, ToSet(new)), Updated(c, new))
<1> DEFINE u == UniqBy(c \o new)
           fresh == Fresh(ToSet(c), ToSet(new))
<1>1. /\ IsArray(new) /\ Rises(new) /\ new # <<>> /\ a.ents = ToSet(c)
      /\ a.ents = {} <=> c = <<>>
  BY ArrayHas DEF IsBatch, StandsFor
<1>2. CASE c = <<>>
  <2>1. Updated(c, new) = new /\ Merge(a, ToSet(new)) = Ascending(ToSet(new))
    BY <1>1, <1>2 DEF Updated, Merge
  <2>2. ToSet(c) = {}
    BY <1>1, <1>2
  <2> QED BY <1>1, <2>1, <2>2, AscendingStandsFor
<1>3. IsArray(u) /\ ToSet(u) = ToSet(c) \cup fresh
  BY <1>1, UniqByIs
<1>4. CASE c # <<>> /\ StringLess(Last(c).id, Head(new).id)
  <2>1. Updated(c, new) = u /\ Merge(a, ToSet(new)) = Appended(a, ToSet(new))
    BY <1>1, <1>4, SamePath DEF Updated, Merge
  <2>2. /\ u # <<>>
        /\ Rises(u) <=> Rises(c) /\ \A e \in fresh : Last(c).id < e.id
        /\ Last(u).id = IF fresh = {} THEN Last(c).id ELSE Largest(IdsOf(fresh))
    BY <1>1, <1>4, UniqByAppends
  <2>3. a.last = Last(c).id /\ a.asc = Ascends(c)
    BY <1>4 DEF StandsFor
  <2>4. (Ascends(c) <=> Rises(c)) /\ (Ascends(u) <=> Rises(u))
    BY <1>3, AscendsRises DEF IsArray
  <2> HIDE DEF u, fresh
  <2>5. Appended(a, ToSet(new)) =
          [ents |-> ToSet(c) \cup fresh,
           last |-> IF fresh = {} THEN Last(c).id ELSE Largest(IdsOf(fresh)),
           asc  |-> Ascends(c) /\ \A e \in fresh : Last(c).id < e.id]
    BY <1>1, <2>3 DEF Appended, fresh
  <2>6. Ascends(u) = (Ascends(c) /\ \A e \in fresh : Last(c).id < e.id)
    BY <2>2, <2>4 DEF Ascends
  <2>7. StandsFor(Appended(a, ToSet(new)), u)
    BY <1>3, <2>2, <2>5, <2>6 DEF StandsFor
  <2> QED BY <1>3, <2>1, <2>7
<1>5. CASE c # <<>> /\ ~StringLess(Last(c).id, Head(new).id)
  <2> DEFINE v == ById(ToSet(u))
  <2>1. /\ Updated(c, new) = v
        /\ Merge(a, ToSet(new)) = Ascending(ToSet(c) \cup fresh)
    BY <1>1, <1>5, SamePath DEF Updated, Merge, SortBy
  <2> HIDE DEF u, fresh
  <2>2. IsArray(v) /\ ToSet(v) = ToSet(u) /\ Rises(v)
    BY <1>3, ArrayHas, ByIdIs
  <2>3. v # <<>>
    BY <1>1, <1>3, <1>5, <2>2, ArrayHas
  <2>4. StandsFor(Ascending(ToSet(v)), v)
    BY <2>2, <2>3, AscendingStandsFor
  <2> HIDE DEF v
  <2> QED BY <1>3, <2>1, <2>2, <2>4
<1> QED BY <1>2, <1>4, <1>5

-----------------------------------------------------------------------------
ArrayIInv == IsArray(contracts) /\ StandsFor(merged, contracts)

LEMMA NoContractsIInv == NoContracts => ArrayIInv
<1> SUFFICES ASSUME NoContracts PROVE ArrayIInv
  OBVIOUS
<1>1. contracts \in Seq(Entry(Ids)) /\ Len(contracts) = 0 /\ DOMAIN contracts = {}
  BY DEF NoContracts
<1>2. ToSet(contracts) = {}
  BY <1>1 DEF ToSet
<1>3. Ascends(contracts) = TRUE
  BY <1>1 DEF Ascends
<1> QED BY <1>1, <1>2, <1>3 DEF ArrayIInv, IsArray, StandsFor, NoContracts, NoEntries

LEMMA UpdatesIInv ==
    ArrayIInv /\ [UpdateAny]_arrays => ArrayIInv' /\ ToSet(contracts) \subseteq ToSet(contracts')
<1> SUFFICES ASSUME ArrayIInv, [UpdateAny]_arrays
             PROVE  ArrayIInv' /\ ToSet(contracts) \subseteq ToSet(contracts')
  OBVIOUS
<1>1. CASE UNCHANGED arrays
  BY <1>1 DEF arrays, ArrayIInv, IsArray, StandsFor, Ascends
<1>2. CASE UpdateAny
  <2>1. PICK new \in Batches : UpdateRegistry(new)
    BY <1>2 DEF UpdateAny
  <2>2. /\ IsArray(Updated(contracts, new))
        /\ ToSet(contracts) \subseteq ToSet(Updated(contracts, new))
        /\ StandsFor(Merge(merged, ToSet(new)), Updated(contracts, new))
    BY BatchesAre, UpdatedStandsFor DEF ArrayIInv
  <2>3. contracts' = Updated(contracts, new) /\ merged' = Merge(merged, ToSet(new))
    BY <2>1 DEF UpdateRegistry
  <2> QED BY <2>2, <2>3 DEF ArrayIInv
<1> QED BY <1>1, <1>2

\* The array has one element of each contract and stands for what Merge made of
\* the same batches: the inductive invariant of updateRegistry().
THEOREM ArrayInvariance == Updates => []ArrayIInv
BY NoContractsIInv, UpdatesIInv, PTL DEF Updates

\* Over every sequence of batches the array in the file and Merge agree.
THEOREM MergeIsExact == Updates => []AbstractionExact
<1>1. ArrayIInv => AbstractionExact
  BY DEF ArrayIInv, IsArray, StandsFor, AbstractionExact
<1> QED BY <1>1, ArrayInvariance, PTL

\* No batch removes or rewrites a record the array has.
THEOREM FirstRecordKept == Updates => FirstRecordStays
<1>1. ArrayIInv /\ [UpdateAny]_arrays => [ToSet(contracts) \subseteq ToSet(contracts')]_arrays
  BY UpdatesIInv
<1> QED BY <1>1, ArrayInvariance, PTL DEF Updates, FirstRecordStays

-----------------------------------------------------------------------------
(***************************************************************************)
(* Where the two parts meet: what the analysis returns is a batch.         *)
(***************************************************************************)
LEMMA SizeOfInterval == \A k \in Nat : IsFiniteSet(1..k) /\ Cardinality(1..k) = k
<1> TAKE k \in Nat
<1>1. IsFiniteSet(1..k)
  BY FS_Interval
<1>2. Cardinality(1..k) = IF 1 > k THEN 0 ELSE k - 1 + 1
  BY FS_Interval
<1> QED BY <1>1, <1>2

LEMMA SizeOfStart ==
    ASSUME NEW s, IsArray(s), NEW n \in DOMAIN s
    PROVE  Cardinality({s[m] : m \in 1..(n - 1)}) = n - 1
<1> DEFINE P == 1..(n - 1)
           T == {s[m] : m \in P}
           g == [m \in P |-> s[m]]
<1>1. n \in Nat /\ n >= 1 /\ Len(s) \in Nat /\ DOMAIN s = 1..Len(s)
  BY SeqTyped DEF IsArray
<1>2. n - 1 \in Nat /\ \A m \in P : m \in DOMAIN s
  BY <1>1
<1>3. IsFiniteSet(P) /\ Cardinality(P) = n - 1
  BY <1>2, SizeOfInterval
<1>4. g \in [P -> T] /\ \A e \in T : \E m \in P : g[m] = e
  OBVIOUS
<1>5. \A j, k \in P : g[j] = g[k] => j = k
  BY <1>2 DEF IsArray
<1> HIDE DEF P, T, g
<1>6. g \in Bijection(P, T)
  BY <1>4, <1>5 DEF Bijection, Injection, Surjection, IsInjective
<1>7. Cardinality(T) = Cardinality(P)
  <2>1. IsFiniteSet(P) => Cardinality(T) = Cardinality(P)
    BY <1>6, FS_Bijection DEF ExistsBijection
  <2> QED BY <1>3, <2>1
<1> QED BY <1>3, <1>7 DEF T, P

\* An ascending array is the only one of its elements.
LEMMA RisesIsById ==
    ASSUME NEW s, IsArray(s), Rises(s)
    PROVE  s = ById(ToSet(s))
<1> DEFINE S == ToSet(s)
           key == [e \in S |-> e.id]
<1>1. /\ S \in SUBSET Entry(Ids) /\ IsFiniteSet(S)
      /\ \A d, e \in S : d.id = e.id => d = e
  BY ArrayHas
<1>2. \A e \in S : e.id \in Nat
  BY <1>1, IdsAreNumbers DEF Entry
<1>3. Keyed(S, key)
  BY <1>1, <1>2 DEF Keyed
<1>4. /\ Len(s) \in Nat /\ DOMAIN s = 1..Len(s) /\ s = [n \in 1..Len(s) |-> s[n]]
      /\ \A k \in DOMAIN s : s[k] \in S /\ s[k].id \in Nat
  <2>1. s \in Seq(Entry(Ids))
    BY DEF IsArray
  <2>2. s = [n \in 1..Len(s) |-> s[n]]
    BY <2>1
  <2> QED BY <2>1, <2>2, SeqTyped DEF ToSet
<1>5. \A e \in S : \E k \in DOMAIN s : s[k] = e
  BY DEF ToSet
<1> HIDE DEF S
<1>6. ASSUME NEW n \in DOMAIN s
      PROVE  Below(S, key, s[n]) = {s[m] : m \in 1..(n - 1)}
  <2>1. ASSUME NEW d \in S, key[d] < key[s[n]]
        PROVE  \E m \in 1..(n - 1) : d = s[m]
    <3>1. PICK m \in DOMAIN s : s[m] = d
      BY <1>5
    <3>2. s[m].id < s[n].id
      BY <1>4, <2>1, <3>1
    <3>3. ~(n < m) /\ n # m
      BY <1>4, <3>2 DEF Rises
    <3> QED BY <1>4, <3>1, <3>3
  <2>2. ASSUME NEW m \in 1..(n - 1)
        PROVE  s[m] \in S /\ key[s[m]] < key[s[n]]
    <3>1. m \in DOMAIN s /\ m < n
      BY <1>4
    <3> QED BY <1>4, <3>1 DEF Rises
  <2> HIDE DEF key
  <2> QED BY <2>1, <2>2 DEF Below
<1>7. ASSUME NEW n \in DOMAIN s
      PROVE  Cardinality(Below(S, key, s[n])) = n - 1
  BY <1>6, SizeOfStart
<1>8. Cardinality(S) = Len(s)
  <2> DEFINE g == [n \in 1..Len(s) |-> s[n]]
  <2>1. g \in [1..Len(s) -> S] /\ \A e \in S : \E m \in 1..Len(s) : g[m] = e
    BY <1>4, <1>5
  <2>2. \A j, k \in 1..Len(s) : g[j] = g[k] => j = k
    BY <1>4 DEF IsArray
  <2>3. IsFiniteSet(1..Len(s)) /\ Cardinality(1..Len(s)) = Len(s)
    BY <1>4, SizeOfInterval
  <2> HIDE DEF g
  <2>4. g \in Bijection(1..Len(s), S)
    BY <2>1, <2>2 DEF Bijection, Injection, Surjection, IsInjective
  <2>5. Cardinality(S) = Cardinality(1..Len(s))
    <3>1. IsFiniteSet(1..Len(s)) => Cardinality(S) = Cardinality(1..Len(s))
      BY <2>4, FS_Bijection DEF ExistsBijection
    <3> QED BY <2>3, <3>1
  <2> QED BY <2>3, <2>5
<1>9. ASSUME NEW n \in 1..Len(s)
      PROVE  (CHOOSE e \in S : Cardinality(Below(S, key, e)) = n - 1) = s[n]
  <2>1. PICK e \in S : \A d \in S : Cardinality(Below(S, key, d)) = n - 1 => d = e
    <3>1. n \in 1..Cardinality(S)
      BY <1>8
    <3> HIDE DEF key
    <3> QED BY <1>3, <3>1, RanksTaken
  <2>2. s[n] \in S /\ Cardinality(Below(S, key, s[n])) = n - 1
    BY <1>4, <1>7
  <2> HIDE DEF key
  <2> QED BY <2>1, <2>2
<1>10. ById(S) = [n \in 1..Len(s) |->
                    CHOOSE e \in S : Cardinality(Below(S, key, e)) = n - 1]
  BY <1>8 DEF ById, InOrder, Below
<1> HIDE DEF key
<1>11. ById(S) = [n \in 1..Len(s) |-> s[n]]
  BY <1>9, <1>10
<1> QED BY <1>4, <1>11 DEF S

LEMMA BatchIsInBatches ==
    ASSUME NEW s, IsBatch(s)
    PROVE  s \in Batches
<1> DEFINE S == ToSet(s)
           ids == IdsOf(S)
           f == [i \in ids |-> (CHOOSE e \in S : e.id = i).info]
<1>1. /\ S \in SUBSET Entry(Ids) /\ S # {}
      /\ \A d, e \in S : d.id = e.id => d = e
  BY ArrayHas DEF IsBatch
<1>2. s = ById(S)
  BY RisesIsById DEF IsBatch
<1> HIDE DEF S
<1>3. \A e \in Entry(Ids) :
        e.id \in Ids /\ e.info \in Info /\ e = [id |-> e.id, info |-> e.info]
  BY DEF Entry
<1>4. \A e \in S : e.id \in ids /\ f[e.id] = e.info
  <2> SUFFICES ASSUME NEW e \in S PROVE e.id \in ids /\ f[e.id] = e.info
    OBVIOUS
  <2>1. e.id \in ids
    BY DEF IdsOf
  <2>2. (CHOOSE d \in S : d.id = e.id) = e
    BY <1>1
  <2> QED BY <2>1, <2>2
<1>5. \A i \in ids : \E e \in S : e.id = i
  BY DEF IdsOf
<1> HIDE DEF ids, f
<1>6. ids \in SUBSET Ids /\ ids # {}
  BY <1>1, <1>3, <1>4, <1>5
<1>7. f \in [ids -> Info]
  <2>1. \A i \in ids : f[i] \in Info
    BY <1>1, <1>3, <1>4, <1>5
  <2>2. f = [i \in ids |-> f[i]]
    BY DEF f
  <2> QED BY <2>1, <2>2
<1>8. Records(ids, f) = S
  <2>1. \A e \in S : \E i \in ids : e = [id |-> i, info |-> f[i]]
    BY <1>1, <1>3, <1>4
  <2>2. \A i \in ids : [id |-> i, info |-> f[i]] \in S
    <3> SUFFICES ASSUME NEW i \in ids PROVE [id |-> i, info |-> f[i]] \in S
      OBVIOUS
    <3>1. PICK e \in S : e.id = i
      BY <1>5
    <3> QED BY <1>1, <1>3, <1>4, <3>1
  <2> QED BY <2>1, <2>2 DEF Records
<1>9. s \in {ById(Records(ids, g)) : g \in [ids -> Info]} /\ ids \in (SUBSET Ids) \ {{}}
  BY <1>2, <1>6, <1>7, <1>8
<1>10. Batches = UNION {{ById(Records(i, g)) : g \in [i -> Info]} :
                          i \in (SUBSET Ids) \ {{}}}
  BY DEF Batches, Records
<1> QED BY <1>9, <1>10

\* At every moment of the analysis a list is empty or one of the batches that
\* updateRegistry is modelled for, if the registry may get the contracts of the page.
THEOREM ListsAreBatches ==
    Contracts \subseteq Ids =>
        (Spec => [](\A s \in ToSet(Standards) : lists[s] # <<>> => lists[s] \in Batches))
<1> SUFFICES ASSUME Contracts \subseteq Ids
             PROVE  Spec => [](\A s \in ToSet(Standards) : lists[s] # <<>> => lists[s] \in Batches)
  OBVIOUS
<1>1. IInv => \A s \in ToSet(Standards) : lists[s] # <<>> => lists[s] \in Batches
  <2> SUFFICES ASSUME IInv, NEW s \in ToSet(Standards), lists[s] # <<>>
               PROVE  lists[s] \in Batches
    OBVIOUS
  <2>1. lists[s] \in Seq(Entries) /\ Rises(lists[s])
    BY DEF IInv, Typed, ListsAscend, Rises
  <2>2. Entries \subseteq Entry(Ids)
    BY DEF Entries, Entry, Info
  <2>3. lists[s] \in Seq(Entry(Ids))
    BY <2>1, <2>2
  <2>4. ASSUME NEW j \in DOMAIN lists[s], NEW k \in DOMAIN lists[s],
               lists[s][j].id = lists[s][k].id, j # k
        PROVE  FALSE
    <3>1. /\ j \in Nat /\ k \in Nat
          /\ lists[s][j].id \in Nat /\ lists[s][k].id \in Nat
      BY <2>3, SeqTyped
    <3> QED BY <2>1, <2>4, <3>1 DEF Rises
  <2>5. IsBatch(lists[s])
    BY <2>1, <2>3, <2>4 DEF IsBatch, IsArray
  <2> QED BY <2>5, BatchIsInBatches
<1> QED BY <1>1, Invariance, PTL

\* Where numerals have one length, the order of strings is that of numbers: there
\* the condition of theorem Sorted of ErcIndexer_proofs holds.
THEOREM OneLength ==
    \A a, b \in Numbers : Digits(a) = Digits(b) => (IdLess(a, b) <=> a < b)
<1> SUFFICES ASSUME NEW a \in Numbers, NEW b \in Numbers, Digits(a) = Digits(b)
             PROVE  IdLess(a, b) <=> a < b
  OBVIOUS
<1>1. /\ Digits(a) \in 1..9 /\ a \div 10^0 = a /\ b \div 10^0 = b
  BY DigitsIs
<1>2. Digits(a) - Digits(a) = 0 /\ ~(Digits(a) < Digits(a))
  BY <1>1
<1>3. Leading(a, Digits(a)) = a /\ Leading(b, Digits(a)) = b
  BY <1>1, <1>2 DEF Leading
<1> QED BY <1>2, <1>3 DEF IdLess

=============================================================================

------------------------- MODULE ErcIndexer_proofs -------------------------
(***************************************************************************)
(* Proofs about ErcIndexer for every network, page limit, starting point,  *)
(* number of standards and of failures.                                    *)
(***************************************************************************)
EXTENDS ErcIndexer, DataLemmas

-----------------------------------------------------------------------------
\* The largest element of a non-empty set of contract ids.
LEMMA LargestIsLargest ==
    ASSUME NEW T \in SUBSET Ids, T # {}
    PROVE  /\ Largest(T) \in T
           /\ \A j \in T : j <= Largest(T)
<1>1. IsFiniteSet(Ids) /\ Ids \subseteq Int
  BY IdsAssumption
<1>2. \E m \in T : \A j \in T : j <= m
  BY <1>1, LargestExists
<1> QED BY <1>2 DEF Largest

-----------------------------------------------------------------------------
(***************************************************************************)
(* What a merge keeps of its arguments.                                    *)
(***************************************************************************)
LEMMA AscendingType ==
    ASSUME NEW S \in SUBSET Entry(Ids), S # {}
    PROVE  Ascending(S) \in Array(Ids)
<1>1. IdsOf(S) \in SUBSET Ids /\ IdsOf(S) # {}
  BY DEF IdsOf, Entry
<1>2. Largest(IdsOf(S)) \in Nat
  BY <1>1, LargestIsLargest, IdsAssumption
<1>3. QED
  BY <1>2 DEF Ascending, Array

LEMMA AppendedType ==
    ASSUME NEW old \in Array(Ids), NEW new \in SUBSET Entry(Ids)
    PROVE  Appended(old, new) \in Array(Ids)
<1> DEFINE fresh == Fresh(old.ents, new)
<1>1. fresh \in SUBSET Entry(Ids)
  BY DEF Fresh
<1>2. IdsOf(fresh) \in SUBSET Ids /\ (fresh # {} => IdsOf(fresh) # {})
  BY <1>1 DEF IdsOf, Entry
<1>3. (IF fresh = {} THEN old.last ELSE Largest(IdsOf(fresh))) \in Nat
  BY <1>2, LargestIsLargest, IdsAssumption DEF Array
<1>4. old.ents \cup fresh \in SUBSET Entry(Ids)
  BY <1>1 DEF Array
<1>5. (old.asc /\ \A e \in fresh : old.last < e.id) \in BOOLEAN
  BY DEF Array
<1> HIDE DEF fresh
<1>6. QED
  BY <1>3, <1>4, <1>5 DEF Appended, Array, fresh

LEMMA MergeType ==
    ASSUME NEW old \in Array(Ids), NEW new \in SUBSET Entry(Ids), new # {}
    PROVE  Merge(old, new) \in Array(Ids)
<1>1. Ascending(new) \in Array(Ids)
  BY AscendingType
<1>2. Appended(old, new) \in Array(Ids)
  BY AppendedType
<1>3. ASSUME old.ents # {}
      PROVE  Ascending(old.ents \cup Fresh(old.ents, new)) \in Array(Ids)
  BY <1>3, AscendingType DEF Fresh, Array
<1>4. QED
  BY <1>1, <1>2, <1>3 DEF Merge

\* The entries of a merge are the old ones and the new ones of other contracts.
LEMMA MergeEntries ==
    ASSUME NEW old, NEW new
    PROVE  Merge(old, new).ents = old.ents \cup Fresh(old.ents, new)
<1>1. old.ents = {} => Fresh(old.ents, new) = new
  BY DEF Fresh, IdsOf
<1>2. QED
  BY <1>1 DEF Merge, Ascending, Appended

-----------------------------------------------------------------------------
(***************************************************************************)
(* Type correctness.                                                       *)
(***************************************************************************)
LEMMA BlankType ==
    ASSUME NEW f \in File
    PROVE  Blank(f) \in Content(f)
<1>1. NoEntries \in Array(Ids)
  BY DEF NoEntries, Array
<1>2. QED
  BY <1>1 DEF Blank, Content, Value

LEMMA FoundType ==
    ASSUME NEW s \in Std, NEW got \in SUBSET Ids, NEW unnamed
    PROVE  Found(s, got, unnamed) \in SUBSET Entry(Ids)
<1>1. \A i : InfoOf(s, i, unnamed) \in Info
  BY DEF InfoOf, Info
<1>2. QED
  BY <1>1 DEF Found, Entry

LEMMA NewJobsType ==
    ASSUME TypeOK, NEW f \in File, NEW got \in SUBSET batch, NEW unnamed
    PROVE  NewJobs(f, got, unnamed) \subseteq Job(f)
<1>1. CASE f = Ptr
  <2>1. next \in Nat /\ Value(f) = Nat
    BY <1>1 DEF TypeOK, Value
  <2>2. NewJob(next) \in Job(f)
    BY <2>1 DEF NewJob, Job
  <2>3. QED
    BY <1>1, <2>2 DEF NewJobs
<1>2. CASE f # Ptr
  <2> DEFINE new == Found(f, got, unnamed)
  <2>1. f \in Std /\ got \in SUBSET Ids
    BY <1>2 DEF File, TypeOK
  <2>2. new \in SUBSET Entry(Ids)
    BY <2>1, FoundType
  <2>3. disk[f].val \in Array(Ids) /\ next \in Nat
    BY <1>2 DEF TypeOK, Content, Value
  <2> HIDE DEF new
  <2>4. new # {} => Merge(disk[f].val, new) \in Array(Ids)
    BY <2>2, <2>3, MergeType
  <2>5. new # {} => NewJob(Merge(disk[f].val, new)) \in Job(f)
    BY <2>3, <2>4, <1>2 DEF NewJob, Job, Value
  <2>6. QED
    BY <1>2, <2>5 DEF NewJobs, new
<1>3. QED
  BY <1>1, <1>2

LEMMA PageType ==
    ASSUME TypeOK, NEW from \in Nat
    PROVE  /\ Page(from) \in SUBSET listed
           /\ Page(from) # {} => Link(Page(from)) \in Nat
<1>1. Page(from) \in SUBSET listed /\ Page(from) \in SUBSET Ids
  BY DEF Page, TypeOK
<1>2. Page(from) # {} => Largest(Page(from)) \in Nat
  BY <1>1, LargestIsLargest, IdsAssumption
<1>3. QED
  BY <1>1, <1>2 DEF Link

LEMMA OthersType ==
    ASSUME TypeOK, NEW f \in File, NEW j \in jobs[f]
    PROVE  Others(f, j) \subseteq Job(f)
<1>1. \A k \in Job(f) : [k EXCEPT !.clean = FALSE] \in Job(f)
  BY DEF Job
<1>2. jobs[f] \subseteq Job(f)
  BY DEF TypeOK
<1>3. QED
  BY <1>1, <1>2 DEF Others

LEMMA WriteStepType ==
    ASSUME TypeOK, WriteStep
    PROVE  /\ disk' = [f \in File |-> disk'[f]]
           /\ jobs' = [f \in File |-> jobs'[f]]
           /\ \A f \in File : disk'[f] \in Content(f) /\ jobs'[f] \subseteq Job(f)
<1>0. PICK f \in File : \E j \in jobs[f] :
          OpenForWrite(f, j) \/ WriteChunk(f, j) \/ WriteRest(f, j)
  BY DEF WriteStep
<1>1. PICK j \in jobs[f] :
          OpenForWrite(f, j) \/ WriteChunk(f, j) \/ WriteRest(f, j)
  BY <1>0
<1>2. j \in Job(f) /\ Others(f, j) \subseteq Job(f) /\ Blank(f) \in Content(f)
  BY OthersType, BlankType DEF TypeOK
<1>3. ASSUME NEW c \in Content(f), NEW J \in SUBSET Job(f),
             disk' = [disk EXCEPT ![f] = c], jobs' = [jobs EXCEPT ![f] = J]
      PROVE  /\ disk' = [g \in File |-> disk'[g]] /\ jobs' = [g \in File |-> jobs'[g]]
             /\ \A g \in File : disk'[g] \in Content(g) /\ jobs'[g] \subseteq Job(g)
  BY <1>3 DEF TypeOK
<1>4. CASE OpenForWrite(f, j)
  <2> DEFINE J == Others(f, j) \cup {[j EXCEPT !.ph = "open", !.clean = TRUE]}
  <2>1. [j EXCEPT !.ph = "open", !.clean = TRUE] \in Job(f)
    BY <1>2 DEF Job
  <2>2. J \in SUBSET Job(f)
    BY <1>2, <2>1
  <2>3. disk' = [disk EXCEPT ![f] = Blank(f)] /\ jobs' = [jobs EXCEPT ![f] = J]
    BY <1>4 DEF OpenForWrite
  <2> HIDE DEF J
  <2>4. QED
    BY <1>2, <1>3, <2>2, <2>3
<1>5. CASE WriteChunk(f, j)
  <2> DEFINE J == Others(f, j) \cup {[j EXCEPT !.ph = "part"]}
  <2>1. [Blank(f) EXCEPT !.torn = TRUE] \in Content(f)
    BY <1>2 DEF Content
  <2>2. [j EXCEPT !.ph = "part"] \in Job(f)
    BY <1>2 DEF Job
  <2>3. J \in SUBSET Job(f)
    BY <1>2, <2>2
  <2>4. /\ disk' = [disk EXCEPT ![f] = [Blank(f) EXCEPT !.torn = TRUE]]
        /\ jobs' = [jobs EXCEPT ![f] = J]
    BY <1>5 DEF WriteChunk
  <2> HIDE DEF J
  <2>5. QED
    BY <1>3, <2>1, <2>3, <2>4
<1>6. CASE WriteRest(f, j)
  <2>1. [Blank(f) EXCEPT !.torn = TRUE] \in Content(f)
    BY <1>2 DEF Content
  <2>2. [torn |-> FALSE, val |-> j.val] \in Content(f)
    BY <1>2 DEF Content, Job
  <2>3. QED
    BY <1>2, <1>3, <1>6, <2>1, <2>2 DEF WriteRest
<1>7. QED
  BY <1>1, <1>4, <1>5, <1>6

LEMMA ResultsType ==
    ASSUME TypeOK, NEW skipped, NEW unnamed, Results(skipped, unnamed)
    PROVE  faults' \in 0..MaxFaults
  BY NumbersAssumption DEF Results, Fault, TypeOK

LEMMA TypeStep == TypeOK /\ [Next]_vars => TypeOK'
<1> SUFFICES ASSUME TypeOK, [Next]_vars PROVE TypeOK'
  OBVIOUS
<1> USE DEF history
<1>1. CASE Deploy
  BY <1>1 DEF Deploy, TypeOK, Content, Job
<1>2. CASE StartRun
  <2>1. ResolvedStart \in Nat
    BY NumbersAssumption DEF ResolvedStart, TypeOK, File, Content, Value
  <2>2. detection' \in BOOLEAN
    BY <1>2, SwitchesAssumption DEF StartRun
  <2>3. QED
    BY <1>2, <2>1, <2>2 DEF StartRun, TypeOK, Content, Job
<1>3. CASE StartFails
  BY <1>3, NumbersAssumption DEF StartFails, Fault, TypeOK, Content, Job
<1>4. CASE ListPage
  <2>1. Page(next) \in SUBSET listed /\ (Page(next) # {} => Link(Page(next)) \in Nat)
    BY PageType DEF TypeOK
  <2>2. QED
    BY <1>4, <2>1 DEF ListPage, TypeOK, Content, Job
<1>5. CASE ListFails
  BY <1>5, NumbersAssumption DEF ListFails, Fault, TypeOK, Content, Job
<1>6. CASE RateLimited
  BY <1>6 DEF RateLimited, TypeOK, Content, Job
<1>7. CASE RetryList
  BY <1>7 DEF RetryList, TypeOK, Content, Job
<1>8. CASE Dispatch
  <2>1. PICK skipped \in SUBSET batch, unnamed \in SUBSET (Std \X batch) :
            /\ Results(skipped, unnamed)
            /\ jobs' = [f \in File |->
                          jobs[f] \cup NewJobs(f, batch \ skipped, unnamed)]
            /\ seen' = seen \cup (batch \ skipped)
    BY <1>8 DEF Dispatch
  <2>2. faults' \in 0..MaxFaults
    BY <2>1, ResultsType
  <2>3. \A f \in File : jobs'[f] \subseteq Job(f)
    BY <2>1, NewJobsType DEF TypeOK
  <2>4. jobs' = [f \in File |-> jobs'[f]]
    <3> DEFINE J(f) == jobs[f] \cup NewJobs(f, batch \ skipped, unnamed)
    <3>1. jobs' = [f \in File |-> J(f)]
      BY <2>1
    <3> HIDE DEF J
    <3>2. QED
      BY <3>1
  <2>5. /\ UNCHANGED <<listed, disk, detection, next, crashes>>
        /\ scanned' = scanned \cup batch /\ batch' = {}
        /\ pc' \in {"list", "drain"}
    BY <1>8 DEF Dispatch, Continue
  <2>6. scanned' \in SUBSET listed /\ seen' \in SUBSET scanned'
    BY <2>1, <2>5 DEF TypeOK
  <2>7. QED
    BY <2>2, <2>3, <2>4, <2>5, <2>6 DEF TypeOK, Content, Job
<1>9. CASE DispatchDies
  BY <1>9, ResultsType DEF DispatchDies, TypeOK, Content
<1>10. CASE DispatchNothing
  BY <1>10, ResultsType DEF DispatchNothing, Continue, TypeOK, Content, Job
<1>11. CASE WriteStep
  BY <1>11, WriteStepType DEF WriteStep, TypeOK, Content, Job
<1>12. CASE Exit
  BY <1>12 DEF Exit, TypeOK, Content, Job
<1>13. CASE Crash
  <2>1. detection' \in BOOLEAN
    BY <1>13 DEF Crash
  <2>2. QED
    BY <1>13, <2>1, NumbersAssumption DEF Crash, TypeOK, Content
<1>14. CASE UNCHANGED vars
  BY <1>14 DEF vars, TypeOK, Content, Job
<1>15. QED
  BY <1>1, <1>2, <1>3, <1>4, <1>5, <1>6, <1>7, <1>8, <1>9, <1>10, <1>11, <1>12,
     <1>13, <1>14 DEF Next

\* Every variable keeps its type, for every value of the constants: no array
\* on disk or on its way there holds anything but entries of contracts, and
\* the page in hand and the histories stay within what the network lists.
THEOREM TypeCorrect == Spec => []TypeOK
<1>1. Init => TypeOK
  <2>1. Init => detection \in BOOLEAN
    BY DEF Init
  <2>2. QED
    BY <2>1, BlankType, IdsAssumption, NumbersAssumption DEF Init, TypeOK
<1>2. QED
  BY <1>1, TypeStep, PTL DEF Spec

-----------------------------------------------------------------------------
(***************************************************************************)
(* Where the values of a file come from.                                   *)
(***************************************************************************)
\* A write brings no value to a file that was not on its way there, except
\* the empty one of a truncated or torn file.
LEMMA WriteStepValues ==
    ASSUME TypeOK, WriteStep, NEW g \in File
    PROVE  Values(g)' \subseteq Values(g) \cup {Blank(g).val}
<1>0. PICK f \in File : \E j \in jobs[f] :
          OpenForWrite(f, j) \/ WriteChunk(f, j) \/ WriteRest(f, j)
  BY DEF WriteStep
<1>1. PICK j \in jobs[f] :
          OpenForWrite(f, j) \/ WriteChunk(f, j) \/ WriteRest(f, j)
  BY <1>0
<1>2. jobs[f] \subseteq Job(f) /\ j \in Job(f)
  BY DEF TypeOK
<1>3. \A k \in Others(f, j) : k.val \in {i.val : i \in jobs[f]}
  BY <1>2 DEF Others, Job
<1>4. CASE g # f
  BY <1>1, <1>4 DEF OpenForWrite, WriteChunk, WriteRest, Values, TypeOK
<1>5. CASE g = f
  <2> DEFINE Opened == [j EXCEPT !.ph = "open", !.clean = TRUE]
             Begun  == [j EXCEPT !.ph = "part"]
  <2>1. Opened.val = j.val /\ Begun.val = j.val
    BY <1>2 DEF Job
  <2>2. [Blank(f) EXCEPT !.torn = TRUE].val = Blank(f).val
    BY DEF Blank
  <2>3. jobs'[f] \in {Others(f, j), Others(f, j) \cup {Opened},
                      Others(f, j) \cup {Begun}}
    BY <1>1 DEF OpenForWrite, WriteChunk, WriteRest, TypeOK
  <2>4. disk'[f].val \in {Blank(f).val, j.val}
    <3> DEFINE Torn == [Blank(f) EXCEPT !.torn = TRUE]
               Whole == [torn |-> FALSE, val |-> j.val]
    <3>1. \E c \in {Blank(f), Torn, Whole} : disk' = [disk EXCEPT ![f] = c]
      BY <1>1 DEF OpenForWrite, WriteChunk, WriteRest
    <3>2. Torn.val = Blank(f).val /\ Whole.val = j.val
      BY <2>2
    <3> HIDE DEF Torn, Whole
    <3>3. disk = [h \in File |-> disk[h]]
      BY DEF TypeOK
    <3>4. disk'[f] \in {Blank(f), Torn, Whole}
      BY <3>1, <3>3
    <3>5. QED
      BY <3>2, <3>4
  <2> HIDE DEF Opened, Begun
  <2>5. \A k \in jobs'[f] : k.val \in {i.val : i \in jobs[f]}
    BY <1>3, <2>1, <2>3
  <2>6. QED
    BY <1>5, <2>4, <2>5 DEF Values
<1>6. QED
  BY <1>4, <1>5

LEMMA OtherStepValues ==
    ASSUME TypeOK, [Next]_vars, ~Dispatch, NEW g \in File
    PROVE  /\ Values(g)' \subseteq Values(g) \cup {Blank(g).val}
           /\ scanned' = scanned /\ seen' = seen
<1>1. CASE WriteStep
  BY <1>1, WriteStepValues DEF WriteStep, history
<1>2. CASE ~WriteStep
  <2>1. /\ disk' = disk
        /\ jobs' = jobs \/ jobs' = [f \in File |-> {}]
        /\ scanned' = scanned /\ seen' = seen
    BY <1>2 DEF Next, vars, history, Deploy, StartRun, StartFails, ListPage,
         ListFails, RateLimited, RetryList, DispatchDies, DispatchNothing,
         Exit, Crash
  <2>2. QED
    BY <2>1 DEF Values
<1>3. QED
  BY <1>1, <1>2

LEMMA NewJobsValues ==
    ASSUME NEW s \in Std, NEW got, NEW unnamed
    PROVE  \A j \in NewJobs(s, got, unnamed) :
               /\ Found(s, got, unnamed) # {}
               /\ j.val = Merge(disk[s].val, Found(s, got, unnamed))
<1>1. s # Ptr
  BY StdAssumption
<1>2. QED
  BY <1>1 DEF NewJobs, NewJob

\* A dispatch adds one merge to each registry it found contracts for, and the
\* pointer of the loop to the values of the pointer file.
LEMMA DispatchValues ==
    ASSUME TypeOK, Dispatch
    PROVE  \E got \in SUBSET batch, unnamed \in SUBSET (Std \X batch) :
             /\ seen' = seen \cup got
             /\ \A s \in Std : \A a \in Values(s)' :
                  \/ a \in Values(s)
                  \/ /\ Found(s, got, unnamed) # {}
                     /\ a = Merge(disk[s].val, Found(s, got, unnamed))
             /\ Values(Ptr)' \subseteq Values(Ptr) \cup {next}
<1>1. PICK skipped \in SUBSET batch, unnamed \in SUBSET (Std \X batch) :
          /\ jobs' = [f \in File |->
                        jobs[f] \cup NewJobs(f, batch \ skipped, unnamed)]
          /\ seen' = seen \cup (batch \ skipped)
  BY DEF Dispatch
<1> DEFINE got == batch \ skipped
<1>2. disk' = disk
  BY DEF Dispatch
<1>3. ASSUME NEW s \in Std, NEW a \in Values(s)'
      PROVE  \/ a \in Values(s)
             \/ /\ Found(s, got, unnamed) # {}
                /\ a = Merge(disk[s].val, Found(s, got, unnamed))
  <2>1. s # Ptr /\ s \in File
    BY StdAssumption DEF File
  <2>2. \A j \in NewJobs(s, got, unnamed) :
            /\ Found(s, got, unnamed) # {}
            /\ j.val = Merge(disk[s].val, Found(s, got, unnamed))
    BY NewJobsValues
  <2>3. QED
    BY <1>1, <1>2, <2>1, <2>2 DEF Values
<1>4. Values(Ptr)' \subseteq Values(Ptr) \cup {next}
  <2>1. Ptr \in File
    BY DEF File
  <2>2. \A j \in NewJobs(Ptr, got, unnamed) : j.val = next
    BY DEF NewJobs, NewJob
  <2>3. QED
    BY <1>1, <1>2, <2>1, <2>2 DEF Values
<1>5. QED
  BY <1>1, <1>3, <1>4

-----------------------------------------------------------------------------
(***************************************************************************)
(* What the registries may hold.                                           *)
(***************************************************************************)
LEMMA BlankArray ==
    ASSUME NEW s \in Std
    PROVE  s \in File /\ Blank(s).val = NoEntries
  BY StdAssumption DEF File, Blank

\* For all networks, standards and failures: an entry of any registry, on disk
\* or pending, names a contract whose object was obtained and which follows
\* the standard of that registry.
THEOREM Sound == Spec => []RegistrySound
<1>1. Init => RegistrySound
  BY BlankArray DEF Init, RegistrySound, Values, NoEntries
<1>2. TypeOK /\ RegistrySound /\ [Next]_vars => RegistrySound'
  <2> SUFFICES ASSUME TypeOK, RegistrySound, [Next]_vars,
                      NEW s \in Std, NEW a \in Values(s)', NEW e \in a.ents
               PROVE  e.id \in seen' /\ s \in Kinds[e.id]
    BY DEF RegistrySound
  <2>1. CASE Dispatch
    <3>1. PICK got \in SUBSET batch, unnamed \in SUBSET (Std \X batch) :
            /\ seen' = seen \cup got
            /\ \/ a \in Values(s)
               \/ a = Merge(disk[s].val, Found(s, got, unnamed))
      BY <2>1, DispatchValues
    <3>2. CASE a \in Values(s)
      BY <3>1, <3>2 DEF RegistrySound
    <3>3. CASE a = Merge(disk[s].val, Found(s, got, unnamed))
      <4>1. a.ents \subseteq disk[s].val.ents \cup Found(s, got, unnamed)
        BY <3>3, MergeEntries DEF Fresh
      <4>2. \A d \in Found(s, got, unnamed) : d.id \in got /\ s \in Kinds[d.id]
        BY DEF Found
      <4>3. \A d \in disk[s].val.ents : d.id \in seen /\ s \in Kinds[d.id]
        BY DEF RegistrySound, Values
      <4>4. QED
        BY <3>1, <4>1, <4>2, <4>3
    <3>4. QED
      BY <3>1, <3>2, <3>3
  <2>2. CASE ~Dispatch
    <3>1. Values(s)' \subseteq Values(s) \cup {NoEntries} /\ seen' = seen
      BY <2>2, BlankArray, OtherStepValues
    <3>2. QED
      BY <3>1 DEF RegistrySound, NoEntries
  <2>3. QED
    BY <2>1, <2>2
<1>3. QED
  BY <1>1, <1>2, TypeCorrect, PTL DEF Spec

\* For all networks and failures: no registry, on disk or pending, ever holds
\* two records of one contract, however often pages are scanned again and
\* whatever token information the mirror node gave at each scan.
THEOREM Unique == Spec => []NoDuplicates
<1>1. Init => NoDuplicates
  BY BlankArray DEF Init, NoDuplicates, Values, NoEntries
<1>2. TypeOK /\ NoDuplicates /\ [Next]_vars => NoDuplicates'
  <2> SUFFICES ASSUME TypeOK, NoDuplicates, [Next]_vars,
                      NEW s \in Std, NEW a \in Values(s)',
                      NEW d \in a.ents, NEW e \in a.ents, d.id = e.id
               PROVE  d = e
    BY DEF NoDuplicates
  <2>1. CASE Dispatch
    <3>1. PICK got \in SUBSET batch, unnamed \in SUBSET (Std \X batch) :
            \/ a \in Values(s)
            \/ a = Merge(disk[s].val, Found(s, got, unnamed))
      BY <2>1, DispatchValues
    <3>2. CASE a \in Values(s)
      BY <3>2 DEF NoDuplicates
    <3>3. CASE a = Merge(disk[s].val, Found(s, got, unnamed))
      <4> DEFINE old == disk[s].val.ents
                 new == Found(s, got, unnamed)
      <4>1. a.ents = old \cup Fresh(old, new)
        BY <3>3, MergeEntries
      <4>2. \A b, c \in old : b.id = c.id => b = c
        BY DEF NoDuplicates, Values
      <4>3. \A b, c \in new : b.id = c.id => b = c
        BY DEF Found
      <4>4. \A b \in old, c \in Fresh(old, new) : b.id # c.id
        BY DEF Fresh, IdsOf
      <4>5. Fresh(old, new) \subseteq new
        BY DEF Fresh
      <4> HIDE DEF old, new
      <4>6. QED
        BY <4>1, <4>2, <4>3, <4>4, <4>5
    <3>4. QED
      BY <3>1, <3>2, <3>3
  <2>2. CASE ~Dispatch
    <3>1. Values(s)' \subseteq Values(s) \cup {NoEntries}
      BY <2>2, BlankArray, OtherStepValues
    <3>2. QED
      BY <3>1 DEF NoDuplicates, NoEntries
  <2>3. QED
    BY <2>1, <2>2
<1>3. QED
  BY <1>1, <1>2, TypeCorrect, PTL DEF Spec

\* The last number of an array is the number of one of its entries.
LastIsEntry(a) == a.ents # {} => a.last \in IdsOf(a.ents)

LEMMA AscendingLast ==
    ASSUME NEW S \in SUBSET Entry(Ids), S # {}
    PROVE  LastIsEntry(Ascending(S))
<1>1. IdsOf(S) \in SUBSET Ids /\ IdsOf(S) # {}
  BY DEF IdsOf, Entry
<1>2. QED
  BY <1>1, LargestIsLargest DEF LastIsEntry, Ascending

LEMMA MergeLast ==
    ASSUME NEW old \in Array(Ids), NEW new \in SUBSET Entry(Ids), new # {},
           LastIsEntry(old)
    PROVE  LastIsEntry(Merge(old, new))
<1> DEFINE fresh == Fresh(old.ents, new)
<1>1. old.ents \in SUBSET Entry(Ids) /\ fresh \in SUBSET Entry(Ids)
  BY DEF Array, Fresh
<1>2. CASE old.ents = {}
  BY <1>2, AscendingLast DEF Merge
<1>3. CASE old.ents # {} /\ PrecedesAsString(old, new)
  <2>1. IdsOf(fresh) \in SUBSET Ids /\ (fresh # {} => IdsOf(fresh) # {})
    BY <1>1 DEF IdsOf, Entry
  <2>2. fresh # {} => Largest(IdsOf(fresh)) \in IdsOf(fresh)
    BY <2>1, LargestIsLargest
  <2>3. IdsOf(old.ents) \cup IdsOf(fresh) = IdsOf(old.ents \cup fresh)
    BY DEF IdsOf
  <2>4. (IF fresh = {} THEN old.last ELSE Largest(IdsOf(fresh)))
          \in IdsOf(old.ents \cup fresh)
    BY <1>3, <2>2, <2>3 DEF LastIsEntry
  <2> HIDE DEF fresh
  <2>5. QED
    BY <1>3, <2>4 DEF Merge, Appended, LastIsEntry, fresh
<1>4. CASE old.ents # {} /\ ~PrecedesAsString(old, new)
  <2>1. old.ents \cup fresh # {} /\ old.ents \cup fresh \in SUBSET Entry(Ids)
    BY <1>1, <1>4
  <2>2. QED
    BY <1>4, <2>1, AscendingLast DEF Merge
<1>5. QED
  BY <1>2, <1>3, <1>4

\* Where string order is numeric order, merging into an ascending array gives
\* an ascending array.
LEMMA MergeAscends ==
    ASSUME \A i, j \in Ids : IdLess(i, j) => i < j,
           NEW old \in Array(Ids), NEW new \in SUBSET Entry(Ids),
           LastIsEntry(old), old.asc
    PROVE  Merge(old, new).asc
<1>1. CASE old.ents # {} /\ PrecedesAsString(old, new)
  <2>1. PICK first \in new : /\ \A e \in new : first.id <= e.id
                             /\ IdLess(old.last, first.id)
    BY <1>1 DEF PrecedesAsString
  <2>2. old.last \in Ids
    BY <1>1 DEF LastIsEntry, IdsOf, Array, Entry
  <2>3. \A e \in new : e.id \in Ids
    BY DEF Entry
  <2>4. old.last < first.id
    BY <2>1, <2>2, <2>3
  <2>5. Ids \subseteq Nat
    BY IdsAssumption
  <2>6. ASSUME NEW e \in new
        PROVE  old.last < e.id
    <3>1. first.id <= e.id /\ old.last < first.id
      BY <2>1, <2>4
    <3>2. e.id \in Nat /\ first.id \in Nat /\ old.last \in Nat
      BY <2>2, <2>3, <2>5
    <3> DEFINE a == old.last
               b == first.id
               c == e.id
    <3> HIDE DEF a, b, c
    <3>3. a \in Nat /\ b \in Nat /\ c \in Nat /\ a < b /\ b <= c => a < c
      OBVIOUS
    <3>4. QED
      BY <3>1, <3>2, <3>3 DEF a, b, c
  <2>7. \A e \in Fresh(old.ents, new) : old.last < e.id
    BY <2>6 DEF Fresh
  <2>8. QED
    BY <1>1, <2>7 DEF Merge, Appended
<1>2. CASE ~(old.ents # {} /\ PrecedesAsString(old, new))
  BY <1>2 DEF Merge, Ascending
<1>3. QED
  BY <1>1, <1>2

\* Among contract numbers on which the comparison of strings agrees with the
\* order of numbers, as it does for numerals of one length, every registry
\* ascends at all times: the fast path that does not sort may then be taken.
THEOREM Sorted ==
    ASSUME \A i, j \in Ids : IdLess(i, j) => i < j
    PROVE  Spec => []RegistrySorted
<1> DEFINE Lasts == \A s \in Std : \A a \in Values(s) : LastIsEntry(a)
           SortInv == RegistrySorted /\ Lasts
<1>1. Init => SortInv
  BY BlankArray DEF Init, RegistrySorted, Values, NoEntries, LastIsEntry
<1>2. TypeOK /\ SortInv /\ [Next]_vars => SortInv'
  <2> SUFFICES ASSUME TypeOK, SortInv, [Next]_vars,
                      NEW s \in Std, NEW a \in Values(s)'
               PROVE  a.asc /\ LastIsEntry(a)
    BY DEF RegistrySorted
  <2>1. CASE Dispatch
    <3>1. PICK got \in SUBSET batch, unnamed \in SUBSET (Std \X batch) :
            \/ a \in Values(s)
            \/ /\ Found(s, got, unnamed) # {}
               /\ a = Merge(disk[s].val, Found(s, got, unnamed))
      BY <2>1, DispatchValues
    <3>2. CASE a \in Values(s)
      BY <3>2 DEF RegistrySorted
    <3>3. CASE /\ Found(s, got, unnamed) # {}
               /\ a = Merge(disk[s].val, Found(s, got, unnamed))
      <4> DEFINE old == disk[s].val
                 new == Found(s, got, unnamed)
      <4>1. old \in Values(s)
        BY DEF Values
      <4>2. old.asc /\ LastIsEntry(old)
        BY <4>1 DEF RegistrySorted
      <4>3. old \in Array(Ids)
        BY BlankArray, StdAssumption DEF TypeOK, Content, Value
      <4>4. got \in SUBSET Ids
        BY DEF TypeOK
      <4>5. new \in SUBSET Entry(Ids)
        BY <4>4, FoundType
      <4> HIDE DEF old, new
      <4>6. QED
        BY <3>3, <4>2, <4>3, <4>5, MergeLast, MergeAscends DEF old, new
    <3>4. QED
      BY <3>1, <3>2, <3>3
  <2>2. CASE ~Dispatch
    <3>1. Values(s)' \subseteq Values(s) \cup {NoEntries}
      BY <2>2, BlankArray, OtherStepValues
    <3>2. NoEntries.asc /\ LastIsEntry(NoEntries)
      BY DEF NoEntries, LastIsEntry
    <3>3. QED
      BY <3>1, <3>2 DEF RegistrySorted
  <2>3. QED
    BY <2>1, <2>2
<1>3. SortInv => RegistrySorted
  OBVIOUS
<1>4. QED
  BY <1>1, <1>2, <1>3, TypeCorrect, PTL DEF Spec

-----------------------------------------------------------------------------
(***************************************************************************)
(* The pointer to resume from.  A point is safe when every listed contract *)
(* from STARTING_POINT up to it is in `done', and no contract that is yet  *)
(* to come can get a number below it.                                      *)
(***************************************************************************)
Passed(network, point, done) ==
    \A i \in network : Start <= i /\ i < point => i \in done

WithinReach(network, point) ==
    point <= Start \/ \E m \in network : point <= m + 1

Safe(network, point, done) ==
    Passed(network, point, done) /\ WithinReach(network, point)

LEMMA SafeGrows ==
    ASSUME NEW network \in SUBSET Ids, NEW point \in Nat, NEW done, NEW more,
           Safe(network, point, done), done \subseteq more,
           NEW larger \in SUBSET Ids, network \subseteq larger,
           \A i \in larger \ network : \A j \in network : j < i
    PROVE  Safe(larger, point, more)
<1>1. WithinReach(larger, point)
  BY DEF Safe, WithinReach
<1>2. ASSUME NEW i \in larger, Start <= i, i < point
      PROVE  i \in more
  <2>1. CASE i \in network
    BY <1>2, <2>1 DEF Safe, Passed
  <2>2. CASE i \notin network
    <3>1. i \in Nat /\ Start \in Nat /\ network \subseteq Nat
      BY IdsAssumption, NumbersAssumption
    <3>2. ~(point <= Start)
      BY <1>2, <3>1
    <3>3. PICK m \in network : point <= m + 1
      BY <3>2 DEF Safe, WithinReach
    <3>4. m < i
      BY <2>2
    <3>5. QED
      BY <1>2, <3>1, <3>3, <3>4
  <2>3. QED
    BY <2>1, <2>2
<1>3. QED
  BY <1>1, <1>2 DEF Safe, Passed

LEMMA SafeStart ==
    ASSUME NEW network \in SUBSET Ids, NEW done, NEW point \in {0, Start}
    PROVE  Safe(network, point, done)
<1>1. Start \in Nat /\ network \subseteq Nat
  BY NumbersAssumption, IdsAssumption
<1>2. \A i \in network : ~(Start <= i /\ i < point)
  BY <1>1
<1>3. QED
  BY <1>1, <1>2 DEF Safe, Passed, WithinReach

\* Where a page ends, nothing behind it is left out: the page has every
\* contract between the place it was asked from and its largest one.
LEMMA SafePage ==
    ASSUME TypeOK, Safe(listed, next, scanned), Page(next) # {}
    PROVE  Safe(listed, Link(Page(next)), scanned \cup Page(next))
<1> DEFINE page == Page(next)
           top  == Largest(page)
<1>1. page \in SUBSET Ids /\ listed \in SUBSET Ids /\ listed \subseteq Nat
  BY IdsAssumption DEF Page, TypeOK
<1>2. top \in page /\ top \in listed /\ top \in Nat
  BY <1>1, LargestIsLargest, IdsAssumption DEF Page
<1>3. next \in Nat /\ Start \in Nat
  BY NumbersAssumption DEF TypeOK
<1>4. ASSUME NEW i \in listed, next <= i, i <= top
      PROVE  i \in page
  <2> DEFINE Below(k) == {j \in listed : next <= j /\ j < k}
  <2>1. i \in Nat
    BY <1>1
  <2>2. Below(i) \subseteq Below(top)
    <3> SUFFICES ASSUME NEW j \in listed, j < i PROVE j < top
      OBVIOUS
    <3>1. j \in Nat /\ top \in Nat /\ i \in Nat /\ i <= top
      BY <1>1, <1>2, <1>4, <2>1
    <3> HIDE DEF top
    <3>2. QED
      BY <3>1
  <2>3. IsFiniteSet(Below(top))
    BY <1>1, IdsAssumption, FS_Subset
  <2>4. /\ IsFiniteSet(Below(i)) /\ Cardinality(Below(i)) \in Nat
        /\ Cardinality(Below(top)) \in Nat
        /\ Cardinality(Below(i)) <= Cardinality(Below(top))
    BY <2>2, <2>3, FS_Subset, FS_CardinalityType
  <2>5. Cardinality(Below(top)) < Limit
    BY <1>2 DEF Page
  <2>6. Limit \in Nat
    BY NumbersAssumption
  <2> HIDE DEF Below
  <2>7. Cardinality(Below(i)) < Limit
    BY <2>4, <2>5, <2>6
  <2>8. QED
    BY <1>4, <2>7 DEF Page, Below
<1> HIDE DEF page
<1>5. Safe(listed, top + 1, scanned \cup page)
  <2>1. ASSUME NEW i \in listed, Start <= i, i < top + 1
        PROVE  i \in scanned \cup page
    <3>1. i \in Nat /\ i <= top
      BY <1>1, <1>2, <2>1
    <3>2. CASE i < next
      BY <2>1, <3>2 DEF Safe, Passed
    <3>3. CASE next <= i
      BY <1>4, <3>1, <3>3
    <3>4. QED
      BY <1>3, <3>1, <3>2, <3>3
  <2>2. WithinReach(listed, top + 1)
    BY <1>2 DEF WithinReach
  <2>3. QED
    BY <2>1, <2>2 DEF Safe, Passed
<1>6. Safe(listed, 0, scanned \cup page)
  BY <1>1, SafeStart
<1>7. Link(page) = 0 \/ Link(page) = top + 1
  BY DEF Link, page
<1>8. QED
  BY <1>5, <1>6, <1>7 DEF page

\* The place of the loop of an updating run and every stored or pending pointer
\* are safe.  The loop of a detection-only run passes contracts that no run has
\* registered, but its pointer is never stored.
LoopSafe ==
    ~detection =>
        /\ pc \in {"list", "backoff"} => Safe(listed, next, scanned)
        /\ pc = "scan" => Safe(listed, next, scanned \cup batch)

PointersSafe == \A v \in Values(Ptr) : Safe(listed, v, scanned)

ResumeInv == LoopSafe /\ PointersSafe

LEMMA ResumeInvariance == Spec => []ResumeInv
<1>1. Init => ResumeInv
  <2> SUFFICES ASSUME Init PROVE ResumeInv
    OBVIOUS
  <2>1. Values(Ptr) = {0} /\ pc = "off"
    BY DEF Init, Values, File, Blank
  <2>2. Safe(listed, 0, scanned)
    BY SafeStart, IdsAssumption DEF Init
  <2>3. QED
    BY <2>1, <2>2 DEF ResumeInv, LoopSafe, PointersSafe
<1>2. TypeOK /\ TypeOK' /\ ResumeInv /\ [Next]_vars => ResumeInv'
  <2> SUFFICES ASSUME TypeOK, TypeOK', ResumeInv, [Next]_vars
               PROVE  LoopSafe' /\ PointersSafe'
    BY DEF ResumeInv
  <2>1. Ptr \in File /\ Blank(Ptr).val = 0
    BY DEF File, Blank
  <2>2. ASSUME ~Dispatch
        PROVE  Values(Ptr)' \subseteq Values(Ptr) \cup {0} /\ scanned' = scanned
    BY <2>1, <2>2, OtherStepValues
  <2>3. LoopSafe /\ PointersSafe
    BY DEF ResumeInv
  <2>4. /\ listed \in SUBSET Ids /\ listed' \in SUBSET Ids
        /\ next \in Nat /\ next' \in Nat
        /\ \A v \in Values(Ptr) : v \in Nat
    BY <2>1 DEF TypeOK, Values, Content, Job, Value
  <2>5. Safe(listed', 0, scanned')
    BY <2>4, SafeStart
  <2>6. ASSUME ~Dispatch, listed' = listed
        PROVE  PointersSafe'
    <3>1. \A v \in Values(Ptr)' : v \in Values(Ptr) \/ v = 0
      BY <2>2, <2>6
    <3>2. scanned' = scanned
      BY <2>2, <2>6
    <3>3. QED
      BY <2>3, <2>5, <2>6, <3>1, <3>2 DEF PointersSafe
  <2>7. ASSUME ~Dispatch, UNCHANGED <<listed, pc, detection, next, batch>>
        PROVE  LoopSafe' /\ PointersSafe'
    <3>1. scanned' = scanned
      BY <2>2, <2>7
    <3>2. QED
      BY <2>3, <2>6, <2>7, <3>1 DEF LoopSafe
  <2>8. CASE Deploy
    <3>1. /\ listed \subseteq listed'
          /\ \A i \in listed' \ listed : \A j \in listed : j < i
          /\ UNCHANGED <<disk, jobs, pc, detection, next, batch, scanned>>
      BY <2>8 DEF Deploy, history
    <3>2. ASSUME NEW point \in Nat, NEW done, Safe(listed, point, done)
          PROVE  Safe(listed', point, done)
      BY <2>4, <3>1, <3>2, SafeGrows
    <3>3. LoopSafe'
      BY <2>3, <2>4, <3>1, <3>2 DEF LoopSafe
    <3>4. Values(Ptr)' = Values(Ptr)
      BY <3>1 DEF Values
    <3>5. PointersSafe'
      BY <2>3, <2>4, <3>1, <3>2, <3>4 DEF PointersSafe
    <3>6. QED
      BY <3>3, <3>5
  <2>9. CASE StartRun
    <3>1. next' = Start \/ next' \in Values(Ptr)
      BY <2>9 DEF StartRun, ResolvedStart, Values
    <3>2. Safe(listed, next', scanned)
      BY <2>3, <2>4, <3>1, SafeStart DEF PointersSafe
    <3>3. pc' = "list" /\ UNCHANGED <<listed, scanned>> /\ ~Dispatch
      BY <2>9 DEF StartRun, Dispatch, history
    <3>4. QED
      BY <2>6, <3>2, <3>3 DEF LoopSafe
  <2>10. CASE ListPage
    <3>1. /\ pc = "list" /\ ~Dispatch
          /\ UNCHANGED <<listed, scanned, detection>>
      BY <2>10 DEF ListPage, Dispatch, history
    <3>2. CASE Page(next) = {}
      BY <2>6, <2>10, <3>1, <3>2 DEF ListPage, LoopSafe
    <3>3. CASE Page(next) # {}
      <4>1. ~detection =>
                Safe(listed, Link(Page(next)), scanned \cup Page(next))
        BY <2>3, <3>1, <3>3, SafePage DEF LoopSafe
      <4>2. /\ pc' = "scan" /\ batch' = Page(next)
            /\ next' = Link(Page(next))
        BY <2>10, <3>3 DEF ListPage
      <4>3. QED
        BY <2>6, <3>1, <4>1, <4>2 DEF LoopSafe
    <3>4. QED
      BY <3>2, <3>3
  <2>11. CASE Dispatch
    <3>1. Values(Ptr)' \subseteq Values(Ptr) \cup {next}
      BY <2>11, DispatchValues
    <3>2. /\ pc = "scan" /\ UNCHANGED <<listed, next>>
          /\ scanned' = scanned \cup batch /\ pc' # "scan" /\ ~detection
      BY <2>11 DEF Dispatch, Continue, Updates
    <3>3. Safe(listed', next', scanned')
      BY <2>3, <3>2 DEF LoopSafe
    <3>4. ASSUME NEW v \in Values(Ptr)
          PROVE  Safe(listed', v, scanned')
      <4>1. Safe(listed, v, scanned)
        BY <2>3 DEF PointersSafe
      <4>2. QED
        BY <2>4, <3>2, <4>1, SafeGrows
    <3>5. QED
      BY <3>1, <3>2, <3>3, <3>4 DEF LoopSafe, PointersSafe
  <2>12. CASE RateLimited \/ RetryList
    <3>1. /\ pc \in {"list", "backoff"} /\ pc' # "scan" /\ ~Dispatch
          /\ UNCHANGED <<listed, next, scanned, detection>>
      BY <2>12 DEF RateLimited, RetryList, Dispatch, history
    <3>2. QED
      BY <2>3, <2>6, <3>1 DEF LoopSafe
  <2>13. CASE StartFails \/ ListFails \/ DispatchDies \/ Exit \/ Crash
    <3>1. pc' \in {"off", "drain"} /\ listed' = listed
      BY <2>13 DEF StartFails, ListFails, DispatchDies, Exit, Crash
    <3>2. CASE Dispatch
      BY <2>11, <3>2
    <3>3. CASE ~Dispatch
      BY <2>6, <3>1, <3>3 DEF LoopSafe
    <3>4. QED
      BY <3>2, <3>3
  <2>14. CASE WriteStep \/ UNCHANGED vars
    <3>1. UNCHANGED <<listed, pc, detection, next, batch>>
      BY <2>14 DEF WriteStep, vars
    <3>2. CASE Dispatch
      BY <2>11, <3>2
    <3>3. CASE ~Dispatch
      BY <2>7, <3>1, <3>3
    <3>4. QED
      BY <3>2, <3>3
  <2>15. CASE DispatchNothing
    <3>1. detection' /\ listed' = listed /\ ~Dispatch
      BY <2>15 DEF DispatchNothing, Dispatch, Updates
    <3>2. QED
      BY <2>6, <3>1 DEF LoopSafe
  <2>16. QED
    BY <2>8, <2>9, <2>10, <2>11, <2>12, <2>13, <2>14, <2>15 DEF Next
<1>3. QED
  BY <1>1, <1>2, TypeCorrect, PTL DEF Spec

\* For all networks, page limits and starting points, and wherever the process
\* is interrupted: each contract between STARTING_POINT and a stored pointer
\* was on a page whose analysis was finished.
THEOREM Covered == Spec => []ResumeCovered
<1>1. ResumeInv => ResumeCovered
  <2>1. disk[Ptr].val \in Values(Ptr)
    BY DEF Values
  <2>2. QED
    BY <2>1 DEF ResumeInv, PointersSafe, Safe, Passed, ResumeCovered
<1>2. QED
  BY <1>1, ResumeInvariance, PTL

\* While a run with ENABLE_DETECTION_ONLY is on, nothing is pending, neither of
\* its own nor of a run before it, so no step changes a file.
THEOREM DetectionReadOnly == Spec => DetectionWritesNothing
<1> DEFINE Quiet == detection \/ pc = "off" => Idle
<1>1. Init => Quiet
  BY DEF Init, Idle
<1>2. Quiet /\ [Next]_vars => Quiet'
  <2> SUFFICES ASSUME Quiet, [Next]_vars, (detection \/ pc = "off")'
               PROVE  Idle'
    OBVIOUS
  <2>1. CASE DispatchDies \/ Crash
    BY <2>1 DEF DispatchDies, Crash, Idle
  <2>2. CASE Exit
    BY <2>2 DEF Exit, Idle
  <2>3. CASE StartRun \/ StartFails
    BY <2>3 DEF StartRun, StartFails, Idle
  <2>4. CASE Dispatch
    BY <2>4 DEF Dispatch, Updates, Continue
  <2>5. CASE WriteStep
    BY <2>5 DEF WriteStep, Idle
  <2>6. CASE DispatchNothing
    BY <2>6 DEF DispatchNothing, Updates, Continue, Idle
  <2>7. CASE ListPage \/ ListFails \/ RateLimited \/ RetryList
    BY <2>7 DEF ListPage, ListFails, RateLimited, RetryList, Idle
  <2>8. CASE Deploy \/ UNCHANGED vars
    BY <2>8 DEF Deploy, vars, Idle
  <2>9. QED
    BY <2>1, <2>2, <2>3, <2>4, <2>5, <2>6, <2>7, <2>8 DEF Next
<1>3. Quiet /\ [Next]_vars => [detection => disk' = disk]_vars
  <2> SUFFICES ASSUME Quiet, Next, detection PROVE disk' = disk
    BY DEF vars
  <2>1. ~WriteStep
    BY DEF WriteStep, Idle
  <2>2. QED
    BY <2>1 DEF Next, Deploy, StartRun, StartFails, ListPage, ListFails,
         RateLimited, RetryList, Dispatch, DispatchDies, DispatchNothing,
         Exit, Crash
<1>4. QED
  BY <1>1, <1>2, <1>3, PTL DEF Spec, DetectionWritesNothing

-----------------------------------------------------------------------------
(***************************************************************************)
(* Runs in which the writes of a batch are done before the next batch is   *)
(* ready and no process is interrupted: the registries miss nothing, and   *)
(* the indexer implements ErcRegistry, whatever else the network, the page *)
(* limit, the standards and the failed requests are.                       *)
(***************************************************************************)
Calm == ~SlowDisk /\ MaxCrashes = 0

\* What a reader of the finished writes finds in a file: View and ResumeView.
HeldBy(f) == IF jobs[f] = {} THEN disk[f].val
             ELSE (CHOOSE j \in jobs[f] : TRUE).val

\* A file has one writer at most, which nobody disturbed, and is torn only
\* while it has one.
OneWriter(f) ==
    /\ jobs[f] = {} => ~disk[f].torn
    /\ \A j, k \in jobs[f] : j = k
    /\ \A j \in jobs[f] : j.clean

WritersInv ==
    /\ \A f \in File : OneWriter(f)
    /\ pc = "off" => Idle
    /\ pc = "scan" => batch # {}

Complete ==
    \A s \in Std : \A i \in seen : s \in Kinds[i] => i \in IdsOf(HeldBy(s).ents)

CalmInv == WritersInv /\ Complete

-----------------------------------------------------------------------------
(***************************************************************************)
(* The value a file is about to have.                                      *)
(***************************************************************************)
LEMMA HeldByWriter ==
    ASSUME NEW f, NEW j, jobs[f] = {j}
    PROVE  HeldBy(f) = j.val
BY DEF HeldBy

\* No step of an undisturbed write changes what the file is going to hold.
LEMMA WriteStepHolds ==
    ASSUME TypeOK, \A f \in File : OneWriter(f), WriteStep, NEW g \in File
    PROVE  OneWriter(g)' /\ HeldBy(g)' = HeldBy(g)
<1> PICK f \in File : \E j \in jobs[f] :
          OpenForWrite(f, j) \/ WriteChunk(f, j) \/ WriteRest(f, j)
  BY DEF WriteStep
<1>0. PICK j \in jobs[f] :
          OpenForWrite(f, j) \/ WriteChunk(f, j) \/ WriteRest(f, j)
  OBVIOUS
<1>1. /\ jobs[f] = {j} /\ j.clean /\ Others(f, j) = {}
      /\ j \in Job(f) /\ HeldBy(f) = j.val
  <2>1. jobs[f] = {j} /\ j.clean /\ j \in Job(f)
    BY <1>0 DEF OneWriter, TypeOK
  <2> QED BY <2>1, HeldByWriter DEF Others
<1>2. CASE g # f
  <2>1. jobs'[g] = jobs[g] /\ disk'[g] = disk[g]
    BY <1>0, <1>2 DEF OpenForWrite, WriteChunk, WriteRest, TypeOK
  <2> QED BY <2>1 DEF OneWriter, HeldBy
<1>3. CASE g = f
  <2>1. ASSUME NEW k, jobs'[f] = {k}, k.clean, k.val = j.val
        PROVE  OneWriter(f)' /\ HeldBy(f)' = HeldBy(f)
    BY <1>1, <2>1 DEF OneWriter, HeldBy
  <2>2. CASE OpenForWrite(f, j)
    <3> DEFINE k == [j EXCEPT !.ph = "open", !.clean = TRUE]
    <3>1. jobs'[f] = {k}
      BY <1>1, <2>2 DEF OpenForWrite, TypeOK
    <3>2. k.clean /\ k.val = j.val
      BY <1>1 DEF Job
    <3> QED BY <1>3, <2>1, <3>1, <3>2
  <2>3. CASE WriteChunk(f, j)
    <3> DEFINE k == [j EXCEPT !.ph = "part"]
    <3>1. jobs'[f] = {k}
      BY <1>1, <2>3 DEF WriteChunk, TypeOK
    <3>2. k.clean /\ k.val = j.val
      BY <1>1 DEF Job
    <3> QED BY <1>3, <2>1, <3>1, <3>2
  <2>4. CASE WriteRest(f, j)
    <3>1. jobs'[f] = {}
      BY <1>1, <2>4 DEF WriteRest, TypeOK
    <3>2. disk'[f] = [torn |-> FALSE, val |-> j.val]
      BY <1>1, <2>4 DEF WriteRest, MayTear, TypeOK
    <3> QED BY <1>1, <1>3, <3>1, <3>2 DEF OneWriter, HeldBy
  <2> QED BY <1>0, <2>2, <2>3, <2>4
<1> QED BY <1>2, <1>3

\* A dispatched batch is what the files are going to hold from then on.
LEMMA DispatchHolds ==
    ASSUME TypeOK, Calm, \A f \in File : OneWriter(f), Dispatch
    PROVE  \E got \in SUBSET batch, unnamed \in SUBSET (Std \X batch) :
             /\ seen' = seen \cup got
             /\ \A f \in File : OneWriter(f)'
             /\ \A s \in Std :
                  HeldBy(s)'.ents = HeldBy(s).ents
                    \cup Fresh(HeldBy(s).ents, Found(s, got, unnamed))
             /\ HeldBy(Ptr)' \in {HeldBy(Ptr), next}
             /\ HeldBy(Ptr)' # HeldBy(Ptr) => HeldBy(Ptr)' \in Values(Ptr)'
<1>1. PICK skipped \in SUBSET batch, unnamed \in SUBSET (Std \X batch) :
        /\ jobs' = [f \in File |->
                      jobs[f] \cup NewJobs(f, batch \ skipped, unnamed)]
        /\ seen' = seen \cup (batch \ skipped)
  BY DEF Dispatch
<1> DEFINE got == batch \ skipped
<1>2. /\ \A f \in File : jobs[f] = {} /\ ~disk[f].torn
      /\ disk' = disk
  BY DEF Dispatch, DiskKeepsUp, Calm, Idle, OneWriter
<1>3. \A f \in File : jobs'[f] = NewJobs(f, got, unnamed)
  BY <1>1, <1>2
<1>4. ASSUME NEW v PROVE NewJob(v).clean /\ NewJob(v).val = v
  BY DEF NewJob
<1>5. \A f \in File : OneWriter(f)'
  <2> SUFFICES ASSUME NEW f \in File PROVE OneWriter(f)' OBVIOUS
  <2>1. jobs'[f] = {} \/ \E v : jobs'[f] = {NewJob(v)}
    BY <1>3 DEF NewJobs
  <2>2. CASE jobs'[f] = {} BY <1>2, <2>2 DEF OneWriter
  <2>3. CASE \E v : jobs'[f] = {NewJob(v)}
    BY <1>4, <2>3 DEF OneWriter
  <2> QED BY <2>1, <2>2, <2>3
<1>6. ASSUME NEW f \in File, NEW v, jobs'[f] = {NewJob(v)}
      PROVE  HeldBy(f)' = v /\ v \in Values(f)'
  <2>1. HeldBy(f)' = NewJob(v).val
    BY <1>6 DEF HeldBy
  <2> QED BY <1>4, <1>6, <2>1 DEF Values
<1>7. ASSUME NEW f \in File, jobs'[f] = {}
      PROVE  HeldBy(f)' = HeldBy(f)
  BY <1>2, <1>7 DEF HeldBy
<1>8. ASSUME NEW s \in Std
      PROVE  HeldBy(s)'.ents = HeldBy(s).ents
               \cup Fresh(HeldBy(s).ents, Found(s, got, unnamed))
  <2> DEFINE new == Found(s, got, unnamed)
  <2>1. s \in File /\ s # Ptr /\ HeldBy(s) = disk[s].val
    BY <1>2, StdAssumption DEF File, HeldBy
  <2>2. jobs'[s] = IF new = {} THEN {} ELSE {NewJob(Merge(disk[s].val, new))}
    BY <1>3, <2>1 DEF NewJobs
  <2> HIDE DEF new
  <2>3. CASE new = {}
    BY <1>7, <2>1, <2>2, <2>3 DEF Fresh, new
  <2>4. CASE new # {}
    <3>1. HeldBy(s)' = Merge(disk[s].val, new)
      BY <1>6, <2>1, <2>2, <2>4
    <3> QED BY <2>1, <3>1, MergeEntries DEF new
  <2> QED BY <2>3, <2>4
<1>9. /\ HeldBy(Ptr)' \in {HeldBy(Ptr), next}
      /\ HeldBy(Ptr)' # HeldBy(Ptr) => HeldBy(Ptr)' \in Values(Ptr)'
  <2>1. Ptr \in File /\ jobs'[Ptr] = IF next = 0 THEN {} ELSE {NewJob(next)}
    BY <1>3 DEF NewJobs, File
  <2> QED BY <1>6, <1>7, <2>1
<1>10. got \in SUBSET batch /\ seen' = seen \cup got
  BY <1>1
<1> HIDE DEF got
<1> QED BY <1>5, <1>8, <1>9, <1>10

-----------------------------------------------------------------------------
(***************************************************************************)
(* The invariant.                                                          *)
(***************************************************************************)
\* Apart from Dispatch and WriteStep nothing is written or dropped.
LEMMA OthersHold ==
    ASSUME TypeOK, Calm, CalmInv, [Next]_vars, ~Dispatch, ~WriteStep
    PROVE  UNCHANGED <<disk, jobs, scanned, seen>>
<1>1. ~Crash
  BY NumbersAssumption DEF Calm, Crash, TypeOK
<1>2. ~DispatchDies
  <2>1. DiskKeepsUp => \A s \in Std : ~disk[s].torn
    BY DEF DiskKeepsUp, Idle, Calm, CalmInv, WritersInv, OneWriter, File
  <2> QED BY <2>1 DEF DispatchDies, ReadsTorn
<1>3. CASE UNCHANGED vars BY <1>3 DEF vars, history
<1>4. CASE Deploy \/ StartRun \/ StartFails
  BY <1>4 DEF Deploy, StartRun, StartFails, history
<1>5. CASE ListPage \/ ListFails \/ RateLimited \/ RetryList
  BY <1>5 DEF ListPage, ListFails, RateLimited, RetryList, history
<1>6. CASE DispatchNothing \/ Exit
  BY <1>6 DEF DispatchNothing, Exit, history
<1> QED BY <1>1, <1>2, <1>3, <1>4, <1>5, <1>6 DEF Next

LEMMA PlaceStep ==
    ASSUME CalmInv, [Next]_vars, ~Dispatch, ~WriteStep, UNCHANGED jobs
    PROVE  (pc = "off" => Idle)' /\ (pc = "scan" => batch # {})'
<1>1. Idle' <=> Idle
  BY DEF Idle
<1>2. CASE UNCHANGED vars \/ Deploy
  BY <1>1, <1>2 DEF vars, Deploy, CalmInv, WritersInv
<1>3. CASE StartRun \/ StartFails \/ ListFails \/ RateLimited \/ RetryList
  BY <1>3 DEF StartRun, StartFails, ListFails, RateLimited, RetryList
<1>4. CASE ListPage
  BY <1>4 DEF ListPage
<1>5. CASE DispatchDies \/ Crash
  BY <1>5 DEF DispatchDies, Crash, Idle
<1>6. CASE DispatchNothing
  BY <1>6 DEF DispatchNothing, Continue
<1>7. CASE Exit
  BY <1>1, <1>7 DEF Exit
<1> QED BY <1>2, <1>3, <1>4, <1>5, <1>6, <1>7 DEF Next

LEMMA FoundIds ==
    ASSUME NEW s, NEW got, NEW unnamed
    PROVE  /\ IdsOf(Found(s, got, unnamed)) = {i \in got : s \in Kinds[i]}
           /\ \A d, e \in Found(s, got, unnamed) : d.id = e.id => d = e
<1> DEFINE Match == {i \in got : s \in Kinds[i]}
           Rec(i) == [id |-> i, info |-> InfoOf(s, i, unnamed)]
<1>1. Found(s, got, unnamed) = {Rec(i) : i \in Match} /\ \A i : Rec(i).id = i
  BY DEF Found
<1> HIDE DEF Match, Rec
<1>2. /\ IdsOf(Found(s, got, unnamed)) = Match
      /\ \A d, e \in Found(s, got, unnamed) : d.id = e.id => d = e
  BY <1>1 DEF IdsOf
<1> QED BY <1>2 DEF Match

LEMMA CalmStep ==
    ASSUME TypeOK, Calm, CalmInv, [Next]_vars
    PROVE  CalmInv'
<1>0. WritersInv /\ Complete
  BY DEF CalmInv
<1>1. CASE Dispatch
  <2>1. PICK got \in SUBSET batch, unnamed \in SUBSET (Std \X batch) :
          /\ seen' = seen \cup got
          /\ \A f \in File : OneWriter(f)'
          /\ \A s \in Std :
               HeldBy(s)'.ents = HeldBy(s).ents
                 \cup Fresh(HeldBy(s).ents, Found(s, got, unnamed))
    BY <1>0, <1>1, DispatchHolds DEF WritersInv
  <2>2. ASSUME NEW s \in Std, NEW i \in seen', s \in Kinds[i]
        PROVE  i \in IdsOf(HeldBy(s)'.ents)
    <3>1. CASE i \in seen
      BY <1>0, <2>1, <2>2, <3>1 DEF Complete, IdsOf
    <3>2. CASE i \in got
      <4>1. i \in IdsOf(Found(s, got, unnamed))
        BY <2>2, <3>2, FoundIds
      <4> QED BY <2>1, <4>1 DEF Fresh, IdsOf
    <3> QED BY <2>1, <3>1, <3>2
  <2>3. pc' \in {"drain", "list"}
    BY <1>1 DEF Dispatch, Continue
  <2> QED BY <2>1, <2>2, <2>3 DEF CalmInv, WritersInv, Complete
<1>2. CASE WriteStep
  <2>1. \A f \in File : OneWriter(f)' /\ HeldBy(f)' = HeldBy(f)
    BY <1>0, <1>2, WriteStepHolds DEF WritersInv
  <2>2. pc' = pc /\ batch' = batch /\ seen' = seen /\ ~Idle
    BY <1>2 DEF WriteStep, history, Idle
  <2> QED BY <1>0, <2>1, <2>2 DEF CalmInv, WritersInv, Complete, File
<1>3. CASE ~Dispatch /\ ~WriteStep
  <2>1. UNCHANGED <<disk, jobs, scanned, seen>>
    BY <1>3, OthersHold
  <2>2. (pc = "off" => Idle)' /\ (pc = "scan" => batch # {})'
    BY <1>3, <2>1, PlaceStep
  <2>3. \A f \in File : OneWriter(f)'
    BY <1>0, <2>1 DEF WritersInv, OneWriter
  <2>4. Complete'
    BY <1>0, <2>1 DEF Complete, HeldBy
  <2> QED BY <2>2, <2>3, <2>4 DEF CalmInv, WritersInv
<1> QED BY <1>1, <1>2, <1>3

LEMMA CalmInvariance ==
    ASSUME Calm
    PROVE  Spec => []CalmInv
<1>1. Init => CalmInv
  BY DEF Init, CalmInv, WritersInv, Complete, OneWriter, Idle, Blank, File
<1>2. TypeOK /\ CalmInv /\ [Next]_vars => CalmInv'
  BY CalmStep
<1> QED BY <1>1, <1>2, TypeCorrect, PTL DEF Spec

\* If the disk keeps up and nothing is interrupted, every contract obtained is in
\* its registries or on its way there, and between runs all files can be read.
THEOREM NothingIsLost ==
    ASSUME ~SlowDisk, MaxCrashes = 0
    PROVE  Spec => []RegistryComplete
<1>1. CalmInv => RegistryComplete
  BY DEF CalmInv, WritersInv, Complete, OneWriter, Idle,
         RegistryComplete, View, HeldBy
<1> QED BY <1>1, CalmInvariance, PTL DEF Calm

-----------------------------------------------------------------------------
(***************************************************************************)
(* The refinement: a dispatched batch is a Commit of its page, a deployed  *)
(* contract a Grow, and every other step leaves ErcRegistry where it is.   *)
(***************************************************************************)
LEMMA ViewIsHeld ==
    /\ \A s \in Std : View(s) = HeldBy(s)
    /\ ResumeView = HeldBy(Ptr)
BY DEF View, ResumeView, HeldBy

\* What is new in a registry: an entry for each contract of the batch that it
\* did not have.
LEMMA FreshRegisters ==
    ASSUME NEW s, NEW got, NEW unnamed, NEW old
    PROVE  LET all   == old \cup Fresh(old, Found(s, got, unnamed))
               added == all \ old
           IN  /\ IdsOf(added) = {i \in got : s \in Kinds[i]} \ IdsOf(old)
               /\ \A d, e \in added : d.id = e.id => d = e
<1> DEFINE new == Found(s, got, unnamed)
           added == Fresh(old, new)
<1>1. (old \cup added) \ old = added
  BY DEF Fresh, IdsOf
<1>2. added = {e \in new : e.id \notin IdsOf(old)}
  BY DEF Fresh
<1>3. IdsOf(new) = {i \in got : s \in Kinds[i]} /\ \A d, e \in new : d.id = e.id => d = e
  BY FoundIds
<1> HIDE DEF new, added
<1>4. IdsOf(added) = IdsOf(new) \ IdsOf(old)
  BY <1>2 DEF IdsOf
<1>5. \A d, e \in added : d.id = e.id => d = e
  BY <1>2, <1>3
<1> QED BY <1>1, <1>3, <1>4, <1>5 DEF added, new

LEMMA DispatchCommits ==
    ASSUME TypeOK, TypeOK', Calm, CalmInv, ResumeInv', Dispatch
    PROVE  Registry!Commit
<1>1. PICK got \in SUBSET batch, unnamed \in SUBSET (Std \X batch) :
        /\ \A s \in Std :
             HeldBy(s)'.ents = HeldBy(s).ents
               \cup Fresh(HeldBy(s).ents, Found(s, got, unnamed))
        /\ HeldBy(Ptr)' \in {HeldBy(Ptr), next}
        /\ HeldBy(Ptr)' # HeldBy(Ptr) => HeldBy(Ptr)' \in Values(Ptr)'
  BY DispatchHolds DEF CalmInv, WritersInv
<1>2. /\ batch \in SUBSET listed /\ batch # {} /\ listed' = listed
      /\ scanned' = scanned \cup batch
  BY DEF Dispatch, CalmInv, WritersInv, TypeOK
<1>3. ASSUME NEW s \in Std PROVE Registry!Registers(s, got)
  <2>1. /\ View(s).ents = HeldBy(s).ents
        /\ View(s)'.ents = HeldBy(s).ents
             \cup Fresh(HeldBy(s).ents, Found(s, got, unnamed))
    BY <1>1, ViewIsHeld DEF View, HeldBy
  <2>2. LET added == View(s)'.ents \ View(s).ents
        IN  /\ View(s).ents \subseteq View(s)'.ents
            /\ IdsOf(added) = {i \in got : s \in Kinds[i]} \ IdsOf(View(s).ents)
            /\ \A d, e \in added : d.id = e.id => d = e
    BY <2>1, FreshRegisters
  <2> QED BY <2>2 DEF Registry!Registers, Registry!IdsOf, IdsOf
<1>4. ResumeView' = ResumeView \/ Registry!Covers(ResumeView')
  <2>1. ResumeView = HeldBy(Ptr) /\ ResumeView' = HeldBy(Ptr)'
    BY DEF ResumeView, HeldBy
  <2>2. CASE HeldBy(Ptr)' = HeldBy(Ptr) BY <2>1, <2>2
  <2>3. CASE HeldBy(Ptr)' # HeldBy(Ptr)
    <3>1. Safe(listed', ResumeView', scanned')
      BY <1>1, <2>1, <2>3 DEF ResumeInv, PointersSafe
    <3> QED BY <1>2, <3>1 DEF Safe, Passed, Registry!Covers
  <2> QED BY <2>2, <2>3
<1> QED BY <1>2, <1>3, <1>4 DEF Registry!Commit

LEMMA StepRefines ==
    ASSUME TypeOK, TypeOK', Calm, CalmInv, ResumeInv', [Next]_vars
    PROVE  [Registry!ANext]_(Registry!avars)
<1>1. ASSUME UNCHANGED <<listed, scanned>>,
             \A f \in File : HeldBy(f)' = HeldBy(f)
      PROVE  UNCHANGED Registry!avars
  <2>1. \A s \in Std : View(s)' = View(s)
    BY <1>1 DEF View, HeldBy, File
  <2>2. ResumeView' = ResumeView
    BY <1>1 DEF ResumeView, HeldBy, File
  <2> QED BY <1>1, <2>1, <2>2 DEF Registry!avars
<1>2. CASE Dispatch
  BY <1>2, DispatchCommits DEF Registry!ANext
<1>3. CASE WriteStep
  <2>1. UNCHANGED <<listed, scanned>>
    BY <1>3 DEF WriteStep, history
  <2> QED BY <1>1, <1>3, <2>1, WriteStepHolds DEF CalmInv, WritersInv
<1>4. CASE ~Dispatch /\ ~WriteStep
  <2>1. UNCHANGED <<disk, jobs, scanned>>
    BY <1>4, OthersHold
  <2>2. \A f \in File : HeldBy(f)' = HeldBy(f)
    BY <2>1 DEF HeldBy
  <2>3. CASE Deploy
    <3>1. \A s \in Std : View(s)' = View(s)
      BY <2>1 DEF View
    <3>2. ResumeView' = ResumeView
      BY <2>1 DEF ResumeView
    <3>3. \E i \in Ids : (\A j \in listed : j < i) /\ listed' = listed \cup {i}
      BY <2>3 DEF Deploy
    <3>4. Registry!Grow
      BY <2>1, <3>1, <3>2, <3>3 DEF Registry!Grow
    <3> QED BY <3>4 DEF Registry!ANext
  <2>4. CASE ~Deploy
    <3>1. listed' = listed
      BY <1>4, <2>4 DEF Next, vars, StartRun, StartFails, ListPage, ListFails,
           RateLimited, RetryList, DispatchDies, DispatchNothing, Exit, Crash
    <3> QED BY <1>1, <2>1, <2>2, <3>1
  <2> QED BY <2>3, <2>4
<1> QED BY <1>2, <1>3, <1>4

\* If the disk keeps up and nothing is interrupted, the indexer implements
\* ErcRegistry: whatever fails, each page is committed at once, no entry is lost
\* or replaced and the point to resume from never passes an unscanned contract.
THEOREM Implements ==
    ASSUME ~SlowDisk, MaxCrashes = 0
    PROVE  Spec => ImplementsRegistry
<1>1. Init => Registry!AInit
  <2> SUFFICES ASSUME Init PROVE Registry!AInit OBVIOUS
  <2>1. \A s \in Std : View(s).ents = {}
    BY StdAssumption DEF Init, View, Blank, NoEntries, File
  <2>2. ResumeView = 0
    BY DEF Init, ResumeView, Blank, File
  <2> QED BY <2>1, <2>2 DEF Init, Registry!AInit
<1>2. TypeOK /\ TypeOK' /\ CalmInv /\ ResumeInv' /\ [Next]_vars
        => [Registry!ANext]_(Registry!avars)
  BY StepRefines DEF Calm
<1>3. Spec => []CalmInv
  BY CalmInvariance DEF Calm
<1> QED
  BY <1>1, <1>2, <1>3, TypeCorrect, ResumeInvariance, PTL
     DEF Spec, ImplementsRegistry, Registry!ASpec
=============================================================================

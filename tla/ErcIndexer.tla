----------------------------- MODULE ErcIndexer -----------------------------
(***************************************************************************)
(* The ERC contract indexer: runner.ts and the services it drives, over    *)
(* its files on disk, the mirror node it reads and the crashes and         *)
(* restarts of its process.                                                *)
(*                                                                         *)
(* One run is a loop: list a page of contracts, await the analysis of      *)
(* every contract of the page, start the writes of the registries and of   *)
(* the next pointer WITHOUT awaiting them, go on.  The pending writes are  *)
(* the jobs; they and the loop interleave freely.                          *)
(***************************************************************************)
EXTENDS RegistryArray, FiniteSets

CONSTANTS
    Std,            \* the token standards, one registry file each
    Ids,            \* numbers of the contracts the network may ever have
    Kinds,          \* Kinds[i]: the standards a scan finds contract i to follow
    Initial,        \* the contracts listed at first
    Limit,          \* SCAN_CONTRACT_LIMIT
    Start,          \* STARTING_POINT as a first number; 0 when it is not set
    Detections,     \* the values ENABLE_DETECTION_ONLY may have in a run
    BigFiles,       \* files too long for a single chunk of fs.writeFile
    SlowDisk,       \* writes may still be pending when the next batch is ready
    MaxFaults,      \* bound on failed requests (other than status 429)
    MaxCrashes      \* bound on interruptions of the process

Ptr == "next-pointer"

File == Std \cup {Ptr}

ASSUME StdAssumption == Ptr \notin Std
ASSUME IdsAssumption ==
    Ids \subseteq Nat \ {0} /\ IsFiniteSet(Ids) /\ Initial \subseteq Ids
ASSUME KindsAssumption == Kinds \in [Ids -> SUBSET Std]
ASSUME NumbersAssumption ==
    /\ Limit \in 1..100
    /\ {Start, MaxFaults, MaxCrashes} \subseteq Nat
ASSUME SwitchesAssumption ==
    /\ Detections \subseteq BOOLEAN /\ SlowDisk \in BOOLEAN
    /\ BigFiles \subseteq Std

VARIABLES
    listed,   \* contracts the mirror node lists
    disk,     \* disk[f]: what file f holds
    jobs,     \* jobs[f]: writes of file f that are pending in the process
    pc,       \* where the run is: off, list, backoff, scan or drain
    detection,\* ENABLE_DETECTION_ONLY of the present run, or of the last one
    next,     \* the `next' pointer of the loop; 0 is null
    batch,    \* the page under analysis
    scanned,  \* history: contracts of every page whose results were dispatched
    seen,     \* history: those of them whose contract object was obtained
    faults, crashes

vars == <<listed, disk, jobs, pc, detection, next, batch, scanned, seen,
          faults, crashes>>

history == <<scanned, seen>>

(***************************************************************************)
(* Files.  A file that is missing or empty reads as '', as null for the    *)
(* pointer and as [] for a registry; a torn one is not JSON.               *)
(***************************************************************************)
Value(f) == IF f = Ptr THEN Nat ELSE Array(Ids)

Blank(f) == [torn |-> FALSE, val |-> IF f = Ptr THEN 0 ELSE NoEntries]

Content(f) == [torn : BOOLEAN, val : Value(f)]

Job(f) == [n : Nat, val : Value(f), ph : {"queued", "open", "part"},
           clean : BOOLEAN]

\* The jobs of a batch are told apart from those of the other batches of the
\* run by the `next' pointer the batch came with.
NewJob(value) == [n |-> next, val |-> value, ph |-> "queued", clean |-> TRUE]

Idle == \A f \in File : jobs[f] = {}

\* The types of the state; the page in hand and the histories are listed.
TypeOK ==
    /\ listed \in SUBSET Ids
    /\ disk = [f \in File |-> disk[f]] /\ jobs = [f \in File |-> jobs[f]]
    /\ \A f \in File : disk[f] \in Content(f) /\ jobs[f] \subseteq Job(f)
    /\ pc \in {"off", "list", "backoff", "scan", "drain"}
    /\ detection \in BOOLEAN /\ next \in Nat
    /\ batch \in SUBSET listed
    /\ scanned \in SUBSET listed /\ seen \in SUBSET scanned
    /\ faults \in 0..MaxFaults /\ crashes \in 0..MaxCrashes

Init ==
    /\ listed = Initial
    /\ disk = [f \in File |-> Blank(f)]
    /\ jobs = [f \in File |-> {}]
    /\ pc = "off" /\ detection = FALSE /\ next = 0 /\ batch = {}
    /\ scanned = {} /\ seen = {}
    /\ faults = 0 /\ crashes = 0

-----------------------------------------------------------------------------
(***************************************************************************)
(* The mirror node.  A page holds the first Limit contracts numbered from  *)
(* `from' on (order=asc); links.next continues after a full page and is    *)
(* null after a short one.  New contracts get larger numbers.              *)
(***************************************************************************)
Page(from) ==
    {i \in listed : /\ from <= i
                    /\ Cardinality({j \in listed : from <= j /\ j < i}) < Limit}

Link(page) == IF Cardinality(page) < Limit THEN 0 ELSE Largest(page) + 1

Deploy ==
    /\ \E i \in Ids :
          /\ \A j \in listed : j < i
          /\ listed' = listed \cup {i}
    /\ UNCHANGED <<disk, jobs, pc, detection, next, batch, history,
                   faults, crashes>>

Fault ==
    /\ faults < MaxFaults
    /\ faults' = faults + 1

-----------------------------------------------------------------------------
(***************************************************************************)
(* The start of a run: resolveStartingPoint.  A configured STARTING_POINT  *)
(* wins over the stored pointer; an EVM address that the mirror node does  *)
(* not resolve, or a stored pointer that does not parse, throws, and the   *)
(* runner logs the error and returns.                                      *)
(***************************************************************************)
ResolvedStart == IF Start # 0 THEN Start ELSE disk[Ptr].val

StartRun ==
    /\ pc = "off"
    /\ Start # 0 \/ ~disk[Ptr].torn
    /\ pc' = "list" /\ next' = ResolvedStart /\ detection' \in Detections
    /\ UNCHANGED <<listed, disk, jobs, batch, history, faults, crashes>>

StartFails ==
    /\ pc = "off"
    /\ \/ Start = 0 /\ disk[Ptr].torn /\ faults' = faults
       \/ Start # 0 /\ Fault
    /\ pc' = "drain"
    /\ UNCHANGED <<listed, disk, jobs, next, batch, detection, history, crashes>>

(***************************************************************************)
(* fetchContracts.  Status 429 waits and asks again; any other failure     *)
(* gives null, which ends the run exactly like an empty page does.         *)
(***************************************************************************)
\* Mutant: the pointer is saved when the page arrives, not after its analysis.
ListPageSavesPointer ==
    /\ pc = "list" /\ Page(next) # {}
    /\ pc' = "scan" /\ batch' = Page(next) /\ next' = Link(Page(next))
    /\ jobs' = [jobs EXCEPT ![Ptr] =
                   @ \cup IF next' = 0 THEN {}
                          ELSE {[NewJob(next') EXCEPT !.n = next']}]
    /\ UNCHANGED <<listed, disk, detection, history, faults, crashes>>

\* Mutant: `while (next) do' for `do while (next)'.
ListPageWhileNext ==
    /\ pc = "list"
    /\ LET page == Page(next)
       IN  IF page = {} \/ Link(page) = 0
           THEN pc' = "drain" /\ UNCHANGED <<next, batch>>
           ELSE pc' = "scan" /\ batch' = page /\ next' = Link(page)
    /\ UNCHANGED <<listed, disk, jobs, detection, history, faults, crashes>>

ListPage ==
    /\ pc = "list"
    /\ LET page == Page(next)
       IN  IF page = {}
           THEN pc' = "drain" /\ UNCHANGED <<next, batch>>
           ELSE pc' = "scan" /\ batch' = page /\ next' = Link(page)
    /\ UNCHANGED <<listed, disk, jobs, detection, history, faults, crashes>>

ListFails ==
    /\ pc = "list" /\ Fault
    /\ pc' = "drain"
    /\ UNCHANGED <<listed, disk, jobs, next, batch, detection, history, crashes>>

RateLimited ==
    /\ pc = "list"
    /\ pc' = "backoff"
    /\ UNCHANGED <<listed, disk, jobs, next, batch, detection, history,
                   faults, crashes>>

RetryList ==
    /\ pc = "backoff"
    /\ pc' = "list"
    /\ UNCHANGED <<listed, disk, jobs, next, batch, detection, history,
                   faults, crashes>>

-----------------------------------------------------------------------------
(***************************************************************************)
(* categorizeERCContracts returns, and the loop dispatches its results in  *)
(* the same turn of the event loop: it reads the registry files, computes  *)
(* their new arrays and starts the writes.  skipped are the contracts      *)
(* whose object did not arrive; unnamed the standards and contracts for    *)
(* which a token call returned null.  What the analysis does between its   *)
(* first request and its return is in module ByteCodeAnalyzer.             *)
(***************************************************************************)
InfoOf(s, i, unnamed) == IF <<s, i>> \in unnamed THEN "null" ELSE "full"

\* Mutant: isErc takes any bytecode for this standard.
FoundAnything(s, got, unnamed) ==
    {[id |-> i, info |-> InfoOf(s, i, unnamed)] : i \in got}

\* Mutant: the test for missing data is gone, so the entry of a contract that
\* did not arrive has no contract number.
FoundUnchecked(s, got, unnamed) ==
    {[id |-> IF i \in got THEN i ELSE 0, info |-> "full"] :
        i \in {j \in batch : s \in Kinds[j]}}

Found(s, got, unnamed) ==
    {[id |-> i, info |-> InfoOf(s, i, unnamed)] :
        i \in {j \in got : s \in Kinds[j]}}

Results(skipped, unnamed) ==
    /\ skipped \in SUBSET batch
    /\ unnamed \subseteq Std \X (batch \ skipped)
    /\ IF skipped = {} /\ unnamed = {} THEN faults' = faults ELSE Fault

DiskKeepsUp == SlowDisk \/ Idle

\* A registry that must be read does not parse: JSON.parse throws inside the
\* promise nobody awaits.
ReadsTorn(got) ==
    \E s \in Std : disk[s].torn /\ \E i \in got : s \in Kinds[i]

\* Mutant: detectionOnly is not looked at.
UpdatesAlways == TRUE

\* The registries are only updated if detectionOnly is off.
Updates == ~detection

\* Mutant: `while (true)'.
ContinueAlways == pc' = "list"

Continue == pc' = IF next = 0 THEN "drain" ELSE "list"

\* Pending writes of file f after generateErcRegistry and updateNextPointer.
NewJobs(f, got, unnamed) ==
    IF f = Ptr
    THEN IF next = 0 THEN {} ELSE {NewJob(next)}
    ELSE LET new == Found(f, got, unnamed)
         IN  IF new = {} THEN {} ELSE {NewJob(Merge(disk[f].val, new))}

Dispatch ==
    /\ pc = "scan" /\ Updates /\ DiskKeepsUp
    /\ \E skipped \in SUBSET batch, unnamed \in SUBSET (Std \X batch) :
          /\ Results(skipped, unnamed)
          /\ ~ReadsTorn(batch \ skipped)
          /\ jobs' = [f \in File |->
                        jobs[f] \cup NewJobs(f, batch \ skipped, unnamed)]
          /\ seen' = seen \cup (batch \ skipped)
    /\ scanned' = scanned \cup batch
    /\ batch' = {}
    /\ Continue
    /\ UNCHANGED <<listed, disk, detection, next, crashes>>

\* The rejected promise is not handled: Node ends the process, and with it
\* every write it has pending.
DispatchDies ==
    /\ pc = "scan" /\ Updates /\ DiskKeepsUp
    /\ \E skipped \in SUBSET batch, unnamed \in SUBSET (Std \X batch) :
          /\ Results(skipped, unnamed)
          /\ ReadsTorn(batch \ skipped)
    /\ jobs' = [f \in File |-> {}]
    /\ pc' = "off" /\ batch' = {} /\ next' = 0
    /\ detection' = FALSE
    /\ UNCHANGED <<listed, disk, history, crashes>>

DispatchNothing ==
    /\ pc = "scan" /\ ~Updates
    /\ \E skipped \in SUBSET batch, unnamed \in SUBSET (Std \X batch) :
          Results(skipped, unnamed)
    /\ batch' = {}
    /\ Continue
    /\ UNCHANGED <<listed, disk, jobs, next, detection, history, crashes>>

-----------------------------------------------------------------------------
(***************************************************************************)
(* The pending writes: fs.promises.mkdir, then fs.promises.writeFile,      *)
(* which opens the file and truncates it, and writes it in chunks.  Two    *)
(* writers that have the file open at once write over each other from the  *)
(* start of the file: what is left is the text of the last one, or that    *)
(* text followed by the tail of a longer one.  `clean' says that no other  *)
(* writer opened or wrote the file since this one opened it.               *)
(***************************************************************************)
Others(f, j) == {[k EXCEPT !.clean = FALSE] : k \in jobs[f] \ {j}}

OpenForWrite(f, j) ==
    /\ j.ph = "queued"
    /\ disk' = [disk EXCEPT ![f] = Blank(f)]
    /\ jobs' = [jobs EXCEPT ![f] = Others(f, j) \cup
                   {[j EXCEPT !.ph = "open", !.clean = TRUE]}]

WriteChunk(f, j) ==
    /\ j.ph = "open" /\ f \in BigFiles
    /\ disk' = [disk EXCEPT ![f] = [Blank(f) EXCEPT !.torn = TRUE]]
    /\ jobs' = [jobs EXCEPT ![f] = Others(f, j) \cup {[j EXCEPT !.ph = "part"]}]

MayTear(f, j) == ~j.clean /\ ~(j.ph = "open" /\ disk[f] = Blank(f))

WriteRest(f, j) ==
    /\ j.ph \in {"open", "part"}
    /\ \E torn \in BOOLEAN :
          /\ torn => MayTear(f, j)
          /\ disk' = [disk EXCEPT ![f] =
                        IF torn THEN [Blank(f) EXCEPT !.torn = TRUE]
                        ELSE [torn |-> FALSE, val |-> j.val]]
    /\ jobs' = [jobs EXCEPT ![f] = Others(f, j)]

WriteStep ==
    /\ \E f \in File : \E j \in jobs[f] :
          OpenForWrite(f, j) \/ WriteChunk(f, j) \/ WriteRest(f, j)
    /\ UNCHANGED <<listed, pc, detection, next, batch, history,
                   faults, crashes>>

-----------------------------------------------------------------------------
\* The event loop is empty: the process exits.
Exit ==
    /\ pc = "drain" /\ Idle
    /\ pc' = "off" /\ batch' = {} /\ next' = 0
    /\ detection' = FALSE
    /\ UNCHANGED <<listed, disk, jobs, history, faults, crashes>>

\* The process is interrupted; what it wrote stays, what it had pending not.
Crash ==
    /\ pc # "off" /\ crashes < MaxCrashes
    /\ crashes' = crashes + 1
    /\ pc' = "off" /\ batch' = {} /\ next' = 0
    /\ jobs' = [f \in File |-> {}]
    /\ detection' = FALSE
    /\ UNCHANGED <<listed, disk, history, faults>>

Next ==
    \/ Deploy
    \/ StartRun \/ StartFails
    \/ ListPage \/ ListFails \/ RateLimited \/ RetryList
    \/ Dispatch \/ DispatchDies \/ DispatchNothing
    \/ WriteStep
    \/ Exit \/ Crash

Spec == Init /\ [][Next]_vars

(***************************************************************************)
(* Fairness.  The event loop runs whatever is ready (WF).  Rate limits     *)
(* come back but do not last: listing a page is retried every nine         *)
(* seconds and succeeds in the end (SF).  Somebody starts the next run.    *)
(***************************************************************************)
Fairness ==
    /\ SF_vars(ListPage)
    /\ WF_vars(RetryList)
    /\ WF_vars(Dispatch \/ DispatchDies \/ DispatchNothing)
    /\ WF_vars(WriteStep) /\ WF_vars(Exit)

FairSpec == Spec /\ Fairness

RepeatedSpec == FairSpec /\ WF_vars(StartRun)

-----------------------------------------------------------------------------
(***************************************************************************)
(* What holds however slow the disk is and wherever the process stops.     *)
(***************************************************************************)
\* Every value of file f that is on disk or on its way there.
Values(f) == {disk[f].val} \cup {j.val : j \in jobs[f]}

\* The registry of a standard lists only contracts whose object some run
\* obtained and that follow this standard: no merge, race, torn write or
\* restart moves an entry into the wrong file or invents one.
RegistrySound ==
    \A s \in Std : \A a \in Values(s) : \A e \in a.ents :
        e.id \in seen /\ s \in Kinds[e.id]

\* "Free of duplicates" (registryGenerator.ts:113): no registry has two
\* records of one contract, also after a page was scanned again and gave the
\* contract other token information.
NoDuplicates ==
    \A s \in Std : \A a \in Values(s) : \A d, e \in a.ents :
        d.id = e.id => d = e

\* A pointer that a run may resume from leaves nothing behind unscanned: each
\* contract from STARTING_POINT up to it was on a page some run finished.
ResumeCovered ==
    ~disk[Ptr].torn =>
        \A i \in listed : Start <= i /\ i < disk[Ptr].val => i \in scanned

\* Every registry ascends by contract number.  Only for contract numbers whose
\* numerals are of one length, on which string order is numeric order.
RegistrySorted == \A s \in Std : \A a \in Values(s) : a.asc

\* While a run with ENABLE_DETECTION_ONLY is on, no file changes: it writes
\* none itself, and no write of an updating run before it is left.
DetectionWritesNothing == [][detection => disk' = disk]_vars

(***************************************************************************)
(* What holds when the writes of a batch are done before the next batch is *)
(* ready (~SlowDisk) and no process is interrupted (MaxCrashes = 0).       *)
(***************************************************************************)
\* The array a reader of the finished writes finds in the registry of s.
View(s) == IF jobs[s] = {} THEN disk[s].val
           ELSE (CHOOSE j \in jobs[s] : TRUE).val

\* Every contract whose object was obtained is in the registry of each of its
\* standards, or in the write of it that is pending; and when no process runs,
\* the next one can read all files.
RegistryComplete ==
    /\ pc = "off" => \A f \in File : ~disk[f].torn
    /\ \A s \in Std : \A i \in seen :
          s \in Kinds[i] => i \in IdsOf(View(s).ents)

\* The pointer a run would resume from once the pending write is done.
ResumeView == IF jobs[Ptr] = {} THEN disk[Ptr].val
              ELSE (CHOOSE j \in jobs[Ptr] : TRUE).val

Registry == INSTANCE ErcRegistry WITH
    registry <- [s \in Std |-> View(s).ents], resume <- ResumeView

\* The indexer implements ErcRegistry: seen through its pending writes, each
\* dispatch commits one page to the registries and the pointer at once, no
\* entry is lost or replaced, and the pointer never passes an unscanned
\* contract.
ImplementsRegistry == Registry!ASpec

\* A run ends: whatever the mirror node answers, the loop stops after the
\* last page and the process exits once its writes are done.
RunEnds == pc # "off" ~> pc = "off"

\* If runs are repeated and no request fails, every contract the network gets is
\* registered in the end, those deployed behind the last full page included.
\* A failed request may leave its contract out for good.
EventuallyRegistered ==
    \A s \in Std : \A i \in Ids :
        i \in listed /\ s \in Kinds[i] ~>
            i \in IdsOf(disk[s].val.ents) \/ faults > 0

(***************************************************************************)
(* What the repository says and the code does not do.                      *)
(***************************************************************************)
\* registry_design.md:126: the stored pointer allows "the indexing process to
\* resume from the last recorded point if interrupted".  A run resumes there
\* without loss only if what the scanned contracts before it contributed is on
\* disk already.
ResumesWithoutLoss ==
    pc = "off" /\ ~disk[Ptr].torn =>
        \A s \in Std : \A i \in seen :
            i < disk[Ptr].val /\ s \in Kinds[i] =>
                i \in IdsOf(disk[s].val.ents)

\* registryGenerator.ts:112: updateRegistry updates a registry "by merging
\* them with existing contracts": after an uninterrupted run that ended, the
\* registries hold what its batches found.
RunKeepsEveryBatch ==
    pc = "off" => \A s \in Std : \A i \in seen :
        s \in Kinds[i] => i \in IdsOf(disk[s].val.ents)
=============================================================================

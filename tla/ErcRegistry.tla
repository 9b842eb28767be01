---------------------------- MODULE ErcRegistry ----------------------------
(***************************************************************************)
(* What the indexer promises, without processes, files or writes: each     *)
(* page of contracts is committed in one step, which adds the contracts it *)
(* found to the registries and may move the point to resume from.  An      *)
(* entry once registered stays as it is.                                   *)
(***************************************************************************)
EXTENDS RegistryArray

CONSTANTS Std, Ids, Kinds, Initial, Start

VARIABLES listed,    \* the contracts of the network
          scanned,   \* those on a committed page
          registry,  \* registry[s]: the entries of standard s
          resume     \* where the next run resumes; 0 at the beginning

avars == <<listed, scanned, registry, resume>>

AInit ==
    /\ listed = Initial /\ scanned = {}
    /\ registry = [s \in Std |-> {}]
    /\ resume = 0

Grow ==
    /\ \E i \in Ids : (\A j \in listed : j < i) /\ listed' = listed \cup {i}
    /\ UNCHANGED <<scanned, registry, resume>>

\* Of a page, the contracts `got' were obtained: those of standard s that its
\* registry misses get one entry each.
Registers(s, got) ==
    LET added == registry'[s] \ registry[s]
    IN  /\ registry[s] \subseteq registry'[s]
        /\ IdsOf(added) =
             {i \in got : s \in Kinds[i]} \ IdsOf(registry[s])
        /\ \A d, e \in added : d.id = e.id => d = e

\* The loop keeps its place or moves to where nothing before is unscanned.
Covers(point) ==
    \A i \in listed : Start <= i /\ i < point => i \in scanned'

Commit ==
    /\ \E page \in SUBSET listed :
          /\ page # {}
          /\ scanned' = scanned \cup page
          /\ \E got \in SUBSET page : \A s \in Std : Registers(s, got)
    /\ resume' = resume \/ Covers(resume')
    /\ UNCHANGED listed

ANext == Grow \/ Commit

ASpec == AInit /\ [][ANext]_avars
=============================================================================

--------------------------- MODULE RegistryArray ---------------------------
(***************************************************************************)
(* The array a registry file (erc-20.json, erc-721.json, erc-1155.json)    *)
(* holds, and the merge that `updateRegistry' of registryGenerator.ts      *)
(* computes from the array on disk and one batch of new contracts.         *)
(*                                                                         *)
(* An entry keeps the contract number N of its contractId "0.0.N" and      *)
(* whether its token information was obtained ("full") or came back null   *)
(* ("null").  Of the order of an array the merge looks at the last element *)
(* only, and a reader at whether the array ascends, so an array is the set *)
(* of its entries, its last number and whether it ascends.  Module         *)
(* UpdateRegistry runs the merge on sequences, element by element, next to *)
(* this one and checks that the two agree.                                 *)
(***************************************************************************)
EXTENDS Naturals

(***************************************************************************)
(* contractId values are strings and `<' compares them character by        *)
(* character; with the common prefix "0.0." that compares the decimal      *)
(* numerals from the left: "0.0.10" < "0.0.9".  Nine digits are enough for *)
(* the numbers of a TLC instance.                                          *)
(***************************************************************************)
Digits(n) == CHOOSE k \in 1..9 : 10^(k - 1) <= n /\ n < 10^k

Leading(n, k) == n \div 10^(Digits(n) - k)

IdLess(a, b) ==
    LET k == IF Digits(a) < Digits(b) THEN Digits(a) ELSE Digits(b)
    IN  \/ Leading(a, k) < Leading(b, k)
        \/ Leading(a, k) = Leading(b, k) /\ Digits(a) < Digits(b)

Info == {"full", "null"}

Entry(ids) == [id : ids, info : Info]

IdsOf(entries) == {e.id : e \in entries}

Array(ids) == [ents : SUBSET Entry(ids), last : Nat, asc : BOOLEAN]

\* What a missing file, an empty file and the array [] have in common.
NoEntries == [ents |-> {}, last |-> 0, asc |-> TRUE]

Largest(ids) == CHOOSE i \in ids : \A j \in ids : j <= i

\* An array whose elements, the given entries, ascend by number.
Ascending(entries) ==
    [ents |-> entries, last |-> Largest(IdsOf(entries)), asc |-> TRUE]

\* Mutant: uniqBy is forgotten.
FreshDuplicates(old, new) == new

\* uniqBy('contractId') over old followed by new: the first occurrence stays.
Fresh(old, new) == {e \in new : e.id \notin IdsOf(old)}

\* The last element of old sorts, as a string, before the first one of new.
PrecedesAsString(old, new) ==
    \E first \in new : /\ \A e \in new : first.id <= e.id
                       /\ IdLess(old.last, first.id)

\* Fast path of updateRegistry: concatenate, drop duplicates, do not sort.
Appended(old, new) ==
    LET fresh == Fresh(old.ents, new)
    IN  [ents |-> old.ents \cup fresh,
         last |-> IF fresh = {} THEN old.last ELSE Largest(IdsOf(fresh)),
         asc  |-> old.asc /\ \A e \in fresh : old.last < e.id]

\* Mutant: the batch replaces the array.
MergeReplaces(old, new) == Ascending(new)

\* Mutant: of two records of one contract the later one stays.
MergeLastWins(old, new) ==
    Ascending({e \in old.ents : e.id \notin IdsOf(new)} \cup new)

\* Mutant: the fast path is taken always.
MergeNeverSorts(old, new) ==
    IF old.ents = {} THEN Ascending(new) ELSE Appended(old, new)

\* updateRegistry: new is the ascending, non-empty batch of one standard.
Merge(old, new) ==
    IF old.ents = {} THEN Ascending(new)
    ELSE IF PrecedesAsString(old, new) THEN Appended(old, new)
    ELSE Ascending(old.ents \cup Fresh(old.ents, new))
=============================================================================

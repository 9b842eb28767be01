--------------------------- MODULE UpdateRegistry ---------------------------
(***************************************************************************)
(* `updateRegistry' of registryGenerator.ts on the arrays themselves: the  *)
(* registry of one standard through any number of batches, in the order    *)
(* the code keeps its elements in.  Beside it runs Merge of RegistryArray, *)
(* the abstraction that module ErcIndexer is built on.                     *)
(***************************************************************************)
EXTENDS RegistryArray, SequencesExt, FiniteSets

CONSTANT Ids   \* numbers of the contracts the registry may get

\* Numbers of at most nine digits, all that Digits can count.
ASSUME RegistryIdsAssumption == Ids \subseteq 1..(10^9 - 1)

VARIABLES
    contracts,   \* existingContracts: the array in the file
    merged       \* what Merge has made of the same batches

arrays == <<contracts, merged>>

-----------------------------------------------------------------------------
(***************************************************************************)
(* Strings.  `Characters' are the decimal digits of a contract number and  *)
(* Before the order `<' has on strings, by its definition: the first       *)
(* difference decides, and a proper prefix comes first.                    *)
(***************************************************************************)
Characters(n) ==
    [k \in 1..Digits(n) |-> (n \div 10^(Digits(n) - k)) % 10]

Before(s, t) ==
    \/ IsStrictPrefix(s, t)
    \/ \E k \in DOMAIN s \cap DOMAIN t :
          /\ s[k] < t[k]
          /\ \A m \in 1..(k - 1) : s[m] = t[m]

StringLess(a, b) == Before(Characters(a), Characters(b))

(***************************************************************************)
(* lodash.  uniqBy keeps the first element of each contractId where it     *)
(* is; sortBy, applied to elements of distinct contracts, orders them.     *)
(***************************************************************************)
FirstOfId(s, k) == \A m \in 1..(k - 1) : s[m].id # s[k].id

\* The elements of a set, none of which have the same key, in the order of their
\* keys: before the n-th one come n - 1 others.
InOrder(S, key) ==
    [n \in 1..Cardinality(S) |->
        CHOOSE e \in S : Cardinality({d \in S : key[d] < key[e]}) = n - 1]

ById(S) == InOrder(S, [e \in S |-> e.id])

AtPlaces(s, kept) ==
    LET places == InOrder(kept, [k \in kept |-> k])
    IN  [n \in DOMAIN places |-> s[places[n]]]

\* Mutant: of the elements of one contract, uniqBy keeps the last one.
UniqByLast(s) ==
    AtPlaces(s, {k \in DOMAIN s : \A m \in (k + 1)..Len(s) : s[m].id # s[k].id})

UniqBy(s) == AtPlaces(s, {k \in DOMAIN s : FirstOfId(s, k)})

SortBy(s) == ById(ToSet(s))

\* Mutant: the first element of existing is compared, not the last one.
UpdatedHead(existing, new) ==
    IF existing = <<>> THEN new
    ELSE IF StringLess(Head(existing).id, Head(new).id)
         THEN UniqBy(existing \o new)
    ELSE SortBy(UniqBy(existing \o new))

Updated(existing, new) ==
    IF existing = <<>> THEN new
    ELSE IF StringLess(Last(existing).id, Head(new).id)
         THEN UniqBy(existing \o new)
    ELSE SortBy(UniqBy(existing \o new))

-----------------------------------------------------------------------------
\* Batches: results of one page, ascending, of one standard, at least one.
Batches ==
    UNION {{ById({[id |-> i, info |-> f[i]] : i \in ids}) : f \in [ids -> Info]} :
              ids \in (SUBSET Ids) \ {{}}}

NoContracts == contracts = <<>> /\ merged = NoEntries

UpdateRegistry(new) ==
    /\ contracts' = Updated(contracts, new)
    /\ merged' = Merge(merged, ToSet(new))

UpdateAny == \E new \in Batches : UpdateRegistry(new)

Updates == NoContracts /\ [][UpdateAny]_arrays

-----------------------------------------------------------------------------
Ascends(s) == \A k \in 1..(Len(s) - 1) : s[k].id < s[k + 1].id

\* Merge and the array it stands for never drift apart: the same entries, the
\* same last contract number and the same answer to whether they ascend, over
\* every sequence of batches, with numerals of any length; and a set is enough,
\* since no contract has two places, on the path that sorts and on the other.
AbstractionExact ==
    /\ \A j, k \in DOMAIN contracts : contracts[j].id = contracts[k].id => j = k
    /\ merged.ents = ToSet(contracts)
    /\ contracts # <<>> => merged.last = Last(contracts).id
    /\ merged.asc = Ascends(contracts)

\* A record stays what it was first written as: when a contract is scanned
\* again, its new token information is not taken, on either path.
FirstRecordStays ==
    [][ToSet(contracts) \subseteq ToSet(contracts')]_arrays

=============================================================================

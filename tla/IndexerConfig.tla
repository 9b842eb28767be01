---------------------------- MODULE IndexerConfig ----------------------------
(***************************************************************************)
(* The configuration of an indexer run: ConfigService of config.ts from    *)
(* the environment to the first place of the loop, and the URLs of the     *)
(* loop that Helper.buildUrl makes.                                        *)
(*                                                                         *)
(* Of the strings the model keeps what the regular expressions of          *)
(* constants.ts tell apart.  A `next' pointer is a record of its limit,    *)
(* its comparison (gt, gte or none) and its contract number.               *)
(***************************************************************************)
EXTENDS Naturals

CONSTANTS
    Numbers,   \* contract numbers
    Limits     \* the limits that pointers may carry

ASSUME ConfigAssumption ==
    /\ Numbers \subseteq Nat \ {0} /\ Limits \subseteq 1..100 /\ 100 \in Limits

None == [kind |-> "none"]

Pointer(limit, op, n) ==
    [kind |-> "pointer", limit |-> limit, op |-> op, from |-> n]

Pointers == {Pointer(l, op, n) : l \in Limits, op \in {"gt", "gte"}, n \in Numbers}

\* What a mirror node puts in links.next (as in the checked-in
\* next-pointer.json files): continue after the last contract of the page.
NodePointers == {p \in Pointers : p.op = "gt"}

StartingPoints ==
    {None, [kind |-> "other"]}
        \cup Pointers
        \cup {[kind |-> k, from |-> n] : k \in {"id", "address"}, n \in Numbers}

Networks == {"", "local-node", "previewnet", "testnet", "mainnet", "other"}

\* SCAN_CONTRACT_LIMIT after parseInt; 0 stands for NaN too, which is refused
\* with the numbers below 1.
ScanLimits == {0, 1, 50, 100, 101}

VARIABLES
    network, url,     \* HEDERA_NETWORK; whether MIRROR_NODE_URL matches
    startingPoint,    \* STARTING_POINT
    scanLimit,        \* SCAN_CONTRACT_LIMIT, 100 when absent
    stored,           \* the pointer in next-pointer.json, None without one
    pc,               \* new, valid, list or stopped
    next,             \* the place of the loop
    requested         \* the query of the last listing request, or None

env == <<network, url, startingPoint, scanLimit, stored>>

vars == <<env, pc, next, requested>>

Init ==
    /\ network \in Networks /\ url \in BOOLEAN
    /\ startingPoint \in StartingPoints
    /\ scanLimit \in ScanLimits
    /\ stored \in {None} \cup NodePointers
    /\ pc = "new" /\ next = None /\ requested = None

-----------------------------------------------------------------------------
\* GET_CONTRACTS_LISTS_NEXT_REGEX
IsListPointer(sp) == sp.kind = "pointer" /\ sp.limit = 100 /\ sp.op = "gte"

\* Mutant: the pointers a mirror node gives are accepted, but here only.
MatchesWithGt(sp) ==
    \/ sp.kind \in {"address", "id"}
    \/ sp.kind = "pointer" /\ sp.limit = 100

\* STARTING_POINT_REGEX
MatchesStartingPoint(sp) == sp.kind \in {"address", "id"} \/ IsListPointer(sp)

\* validateConfigs
ValidLimit == scanLimit \in 1..100

Valid ==
    /\ network \in Networks \ {"", "other"}
    /\ network \in {"previewnet", "testnet", "mainnet"} => url
    /\ startingPoint # None => MatchesStartingPoint(startingPoint)
    /\ ValidLimit

Validate ==
    /\ pc = "new"
    /\ pc' = IF Valid THEN "valid" ELSE "stopped"
    /\ UNCHANGED <<env, next, requested>>

\* Helper.buildStartingPoint
StartAt(n) == Pointer(100, "gte", n)

\* What resolveStartingPoint returns; the stored pointer is not matched
\* against anything.
Resolved ==
    IF IsListPointer(startingPoint) THEN startingPoint
    ELSE IF startingPoint.kind \in {"id", "address"}
    THEN StartAt(startingPoint.from)
    ELSE stored

Resolve ==
    /\ pc = "valid"
    /\ pc' = "list" /\ next' = Resolved
    /\ UNCHANGED <<env, requested>>

\* resolveFromEvmAddress: the mirror node does not give the contract.
NotFound ==
    /\ pc = "valid" /\ startingPoint.kind = "address"
    /\ pc' = "stopped"
    /\ UNCHANGED <<env, next, requested>>

\* Helper.buildUrl
BuildUrl(place) ==
    IF place = None THEN [Pointer(scanLimit, "none", 0) EXCEPT !.kind = "query"]
    ELSE [place EXCEPT !.kind = "query", !.limit = scanLimit]

\* One listing of the loop.  links.next repeats the limit of the request and
\* continues after the page, or is null.
List ==
    /\ pc = "list"
    /\ requested' = BuildUrl(next)
    /\ \/ \E n \in Numbers :
             /\ n > requested'.from
             /\ next' = Pointer(requested'.limit, "gt", n) /\ pc' = "list"
       \/ next' = None /\ pc' = "stopped"
    /\ UNCHANGED env

Stopped == pc = "stopped" /\ UNCHANGED vars

Next == Validate \/ Resolve \/ NotFound \/ List \/ Stopped

Spec == Init /\ [][Next]_vars

-----------------------------------------------------------------------------
\* Every page asked for has the configured size, which the mirror node can
\* serve, whatever pointer the run continues from; and the first one begins where
\* the run was told to: at STARTING_POINT if that was accepted, however many
\* regular expressions it went through, without one at the stored pointer, and
\* only without both at genesis (README.md:63 of the indexer).
ListsAsConfigured ==
    [][pc = "list" =>
         /\ requested'.limit = scanLimit /\ scanLimit \in 1..100
         /\ requested = None =>
              IF startingPoint # None
              THEN requested'.op = "gte" /\ requested'.from = startingPoint.from
              ELSE IF stored # None
              THEN requested'.op = stored.op /\ requested'.from = stored.from
              ELSE requested'.op = "none"]_vars
=============================================================================

-------------------------- MODULE ByteCodeAnalyzer --------------------------
(***************************************************************************)
(* `categorizeERCContracts' of byteCodeAnalyzer.ts for one page, request   *)
(* by request, over the retries of contractScanner.ts.                     *)
(*                                                                         *)
(* The objects of all contracts of the page are requested at once and      *)
(* awaited together; then the contracts are analysed one after another,    *)
(* in the order of the page, with the token calls of one standard in       *)
(* flight together.  Answers come in any order; status 429 delays a        *)
(* request and repeats it, any other failure makes its answer null.        *)
(***************************************************************************)
EXTENDS Naturals, Sequences, SequencesExt

CONSTANTS
    Page,         \* the contracts of the page: a sequence of numbers
    Standards,    \* the standards, in the order isErc asks about them
    Fields,       \* Fields[s]: what is called for a contract of standard s
    Matches,      \* Matches[c]: the standards whose signatures c has
    Incomplete,   \* contracts whose object lacks data or has no bytecode
    Undecodable,  \* <<contract, standard>> whose answers do not decode
    MaxFaults     \* bound on failed requests (other than status 429)

Contracts == ToSet(Page)

\* The page is asked for in ascending order (order=asc).
ASSUME PageAssumption ==
    /\ Page \in Seq(Nat)
    /\ \A j, k \in DOMAIN Page : j < k => Page[j] < Page[k]
ASSUME AnalyzerAssumption ==
    /\ Standards \in Seq(STRING)
    /\ \A j, k \in DOMAIN Standards : Standards[j] = Standards[k] => j = k
    /\ Matches \in [Contracts -> SUBSET ToSet(Standards)]
    /\ Incomplete \subseteq Contracts
    /\ Undecodable \subseteq Contracts \X ToSet(Standards)
    /\ MaxFaults \in Nat

VARIABLES
    pc,       \* fetching, analyzing or returned
    object,   \* object[c]: the request of the object of contract c
    todo,     \* the <<contract, standard>> pairs still to be analysed
    call,     \* call[p][f]: the token call of field f for the pair p
    lists,    \* lists[s]: erc20Contracts, erc721Contracts, erc1155Contracts
    faults

vars == <<pc, object, todo, call, lists, faults>>

Request == {"idle", "sent", "delayed", "value", "null"}

Answered(r) == r \in {"value", "null"}

Pairs == Contracts \X ToSet(Standards)

Init ==
    /\ pc = "fetching"
    /\ object = [c \in Contracts |-> "sent"]
    /\ todo = {}
    /\ call = [p \in Pairs |-> [f \in Fields[p[2]] |-> "idle"]]
    /\ lists = [s \in ToSet(Standards) |-> <<>>]
    /\ faults = 0

-----------------------------------------------------------------------------
(***************************************************************************)
(* A request of contractScanner.ts: fetchContractObject and                *)
(* contractCallRequest differ in what they ask only.                       *)
(***************************************************************************)
\* What an outstanding request r may become: answered, failed, delayed by
\* status 429, or sent again once the delay is over.
Progress(r, result) ==
    \/ r = "sent" /\ result \in {"value", "delayed"} /\ faults' = faults
    \/ /\ r = "sent" /\ result = "null"
       /\ faults < MaxFaults /\ faults' = faults + 1
    \/ r = "delayed" /\ result = "sent" /\ faults' = faults

AnswerObject(c) ==
    /\ \E result \in Request :
          /\ Progress(object[c], result)
          /\ object' = [object EXCEPT ![c] = result]
    /\ UNCHANGED <<pc, todo, call, lists>>

AnswerCall(p, f) ==
    /\ \E result \in Request :
          /\ Progress(call[p][f], result)
          /\ call' = [call EXCEPT ![p][f] = result]
    /\ UNCHANGED <<pc, object, todo, lists>>

-----------------------------------------------------------------------------
(***************************************************************************)
(* The analysis.  Between two awaits the loop passes over every contract   *)
(* and standard that needs no request.                                     *)
(***************************************************************************)
\* Mutant: the analysis does not test whether the object has its data.
AnalysedUnchecked(c, s) == s \in Matches[c]

Analysed(c, s) ==
    object[c] = "value" /\ c \notin Incomplete /\ s \in Matches[c]

ToAnalyse == {p \in Pairs : Analysed(p[1], p[2])}

Place(s, e) == CHOOSE k \in DOMAIN s : s[k] = e

\* Contract by contract in the order of the page, and for each contract
\* standard by standard.
Precedes(p, q) ==
    \/ Place(Page, p[1]) < Place(Page, q[1])
    \/ p[1] = q[1] /\ Place(Standards, p[2]) < Place(Standards, q[2])

Sent(p) == [f \in Fields[p[2]] |-> "sent"]

\* Mutant: `contractResponses.map(async ...)' for `for ... of' with await: the
\* analyses of all contracts run at once, each with its own calls in flight.
InHandAll(pairs) == pairs

\* The pairs whose calls are in flight: the first one of those to analyse.
InHand(pairs) == {p \in pairs : \A q \in pairs \ {p} : Precedes(p, q)}

Start(pairs) ==
    [p \in Pairs |->
        IF p \in InHand(pairs) /\ \A f \in Fields[p[2]] : call[p][f] = "idle"
        THEN Sent(p) ELSE call[p]]

\* Mutant: the objects are awaited until every one has arrived.
ObjectsArrived == \A c \in Contracts : object[c] = "value"

ObjectsAnswered == \A c \in Contracts : Answered(object[c])

BeginAnalysis ==
    /\ pc = "fetching" /\ ObjectsAnswered
    /\ pc' = IF ToAnalyse = {} THEN "returned" ELSE "analyzing"
    /\ todo' = ToAnalyse
    /\ call' = Start(ToAnalyse)
    /\ UNCHANGED <<object, lists, faults>>

\* All calls of the pair are answered: its entry is appended unless a value
\* does not decode; a null answer becomes a null field.
InfoOf(p) == IF \E f \in Fields[p[2]] : call[p][f] = "null" THEN "null" ELSE "full"

Decodes(p) == p \notin Undecodable \/ \A f \in Fields[p[2]] : call[p][f] = "null"

FinishPair(p) ==
    /\ pc = "analyzing"
    /\ \A f \in Fields[p[2]] : Answered(call[p][f])
    /\ lists' = IF Decodes(p)
                THEN [lists EXCEPT ![p[2]] = Append(@, [id |-> p[1], info |-> InfoOf(p)])]
                ELSE lists
    /\ todo' = todo \ {p}
    /\ call' = Start(todo')
    /\ pc' = IF todo' = {} THEN "returned" ELSE "analyzing"
    /\ UNCHANGED <<object, faults>>

Analyse == BeginAnalysis \/ \E p \in InHand(todo) : FinishPair(p)

Next ==
    \/ \E c \in Contracts : AnswerObject(c)
    \/ \E p \in Pairs : \E f \in Fields[p[2]] : AnswerCall(p, f)
    \/ Analyse

Spec == Init /\ [][Next]_vars

(***************************************************************************)
(* Fairness.  Of the requests in flight some one gets on, and some one is  *)
(* answered if the mirror node has infinitely many occasions to: it does   *)
(* not send status 429 for ever.  The loop goes on when what it awaits is  *)
(* there.                                                                  *)
(***************************************************************************)
Repeated ==
    \/ \E c \in Contracts : AnswerObject(c)
    \/ \E p \in Pairs : \E f \in Fields[p[2]] : AnswerCall(p, f)

Arrived ==
    \/ \E c \in Contracts : AnswerObject(c) /\ Answered(object'[c])
    \/ \E p \in Pairs : \E f \in Fields[p[2]] :
          AnswerCall(p, f) /\ Answered(call'[p][f])

Fairness == WF_vars(Analyse) /\ WF_vars(Repeated) /\ SF_vars(Arrived)

FairSpec == Spec /\ Fairness

-----------------------------------------------------------------------------
\* "Since both arrays are sorted" (registryGenerator.ts:134): the contracts of
\* one standard ascend at every moment, in whatever order the mirror node
\* answers and whichever requests it delays.
ListsAscend ==
    \A s \in ToSet(Standards) : \A j, k \in DOMAIN lists[s] :
        j < k => lists[s][j].id < lists[s][k].id

\* What is returned is what ErcIndexer says of a scan: for each standard the
\* contracts whose object arrived complete, that match it and decode, once
\* each, with null information exactly when a call for this standard failed.
ReturnsWhatArrived ==
    pc = "returned" =>
        \A s \in ToSet(Standards) :
            ToSet(lists[s]) =
              {[id |-> c,
                info |-> IF \E f \in Fields[s] : call[<<c, s>>][f] = "null"
                         THEN "null" ELSE "full"] :
                 c \in {d \in Contracts :
                          /\ object[d] = "value" /\ d \notin Incomplete
                          /\ s \in Matches[d]
                          /\ \/ <<d, s>> \notin Undecodable
                             \/ \A f \in Fields[s] :
                                   call[<<d, s>>][f] = "null"}}

\* The analysis of a page comes to its end, whatever fails and however often
\* a request is delayed: the loop of the runner is never left waiting.
Returns == <>(pc = "returned")
=============================================================================

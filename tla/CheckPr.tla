------------------------------ MODULE CheckPr ------------------------------
(***************************************************************************)
(* The pull request check of src/.github/scripts/check-pr.js: one run of   *)
(* the script against GitHub, whose issues and pull requests people edit   *)
(* meanwhile.  Every request is a step of its own and answers what the     *)
(* repository holds at that moment, "not found", or another error.         *)
(*                                                                         *)
(* A description is the sequence of the references in it.  The regular     *)
(* expressions tell three forms apart: the URL of an issue, the URL of a   *)
(* pull request, and "#n" or "owner/repo#n", which may name either.        *)
(***************************************************************************)
EXTENDS Integers, Sequences

CONSTANTS Numbers,      \* of issues and pull requests, which share them
          GITHUB_PR_NUMBER,
          Bodies,       \* the descriptions
          NoBody,       \* null, for a pull request without a description
          Authors, Bots,
          Listed,       \* the contributors on the first page of the list
          NotFound,
          Repositories, \* what GitHub may hold when the run begins
          MaxEdits, MaxFaults

References == [form : {"plain", "issueUrl", "prUrl"}, own : BOOLEAN,
               inside : {"text", "tag", "code"}, number : Numbers]

Items == [kind : {"issue", "pr"}, labels : BOOLEAN, milestone : BOOLEAN,
          author : Authors, body : Bodies \cup {NoBody}]

ASSUME PrAssumption ==
  /\ GITHUB_PR_NUMBER \in Numbers
  /\ Bodies \subseteq Seq(References) /\ NoBody \notin Bodies
  /\ Bots \subseteq Authors /\ Listed \subseteq Authors
  /\ NotFound \notin Items
  /\ Repositories \subseteq [Numbers -> Items \cup {NotFound}]
  /\ MaxEdits \in Nat /\ MaxFaults \in Nat

----------------------------------------------------------------------------
(* The references of a description, as the set of their positions.         *)

stripHTMLTags(r) == r.inside # "tag"
removeCodeBlocks(r) == r.inside # "code"
cleanText(r) == stripHTMLTags(r) /\ removeCodeBlocks(r)

extractIssueReferences(b) == {i \in DOMAIN b : cleanText(b[i]) /\ b[i].form # "prUrl"}
extractPRReferences(b) == {i \in DOMAIN b : cleanText(b[i]) /\ b[i].form # "issueUrl"}

\* Those to another repository are skipped.
OwnIssueRefs(b) == {i \in extractIssueReferences(b) : b[i].own}
OwnPRRefs(b) == {i \in extractPRReferences(b) : b[i].own}

IsNext(i, refs) == \A k \in refs : i <= k

\* Mutant: the regular expressions lack their flag g, so that exec finds the
\* first reference again and again.
RestNoFlag(i, refs) == refs

Rest(i, refs) == refs \ {i}

----------------------------------------------------------------------------
VARIABLES
  remote,       \* what GitHub holds under each number
  pc,           \* what the script does next, or its verdict
  pr,           \* the pull request as first fetched
  body,         \* the description whose issues are being checked
  issueRefs,    \* of body, still to check
  prRefs,       \* of the description of pr, still to check
  contributors, \* as fetched
  edits, faults,
  wasFine       \* numbers without an incomplete item at some moment of the run

environment == <<remote, edits, faults, wasFine>>
vars == <<remote, pc, pr, body, issueRefs, prRefs, contributors, edits, faults, wasFine>>

HasLabelsAndMilestone(item) == item.labels /\ item.milestone
Fine(n) == remote[n] = NotFound \/ HasLabelsAndMilestone(remote[n])

Init ==
  /\ remote \in Repositories
  /\ pc = "pr" /\ pr = NotFound /\ body = NoBody /\ issueRefs = {} /\ prRefs = {}
  /\ contributors = {}
  /\ edits = 0 /\ faults = 0
  /\ wasFine = {n \in Numbers : Fine(n)}

----------------------------------------------------------------------------
(* The requests.  The pulls API has no issues, the issues API has both.    *)

getPRDetails(n) ==
  IF remote[n] # NotFound /\ remote[n].kind = "pr" THEN remote[n] ELSE NotFound
getIssueDetails(n) == remote[n]

\* Mutant: a contributor without an account is on the list.
getContributorsNull == Listed \cup {NotFound}
getContributors == Listed

isDependabotOrSnykPR(item) == item.author \in Bots

\* An error ends the run with exit code 1.
Fail == pc' = "red" /\ UNCHANGED <<pr, body, issueRefs, prRefs, contributors>>

\* run, up to its first request for an issue.  cleanText of null throws.
run ==
  /\ pc = "pr"
  /\ LET item == getPRDetails(GITHUB_PR_NUMBER)
     IN IF item = NotFound \/ ~HasLabelsAndMilestone(item)
        THEN Fail
        ELSE IF isDependabotOrSnykPR(item)
        THEN /\ pc' = "green" /\ pr' = item
             /\ UNCHANGED <<body, issueRefs, prRefs, contributors>>
        ELSE IF item.body = NoBody \/ OwnIssueRefs(item.body) = {}
        THEN Fail
        ELSE /\ pc' = "issues" /\ pr' = item /\ body' = item.body
             /\ issueRefs' = OwnIssueRefs(item.body)
             /\ UNCHANGED <<prRefs, contributors>>
  /\ UNCHANGED environment

\* The next issue is fetched.  One that does not exist is skipped.
CheckIssue ==
  /\ \E i \in issueRefs :
       /\ IsNext(i, issueRefs)
       /\ LET item == getIssueDetails(body[i].number)
          IN IF item # NotFound /\ ~HasLabelsAndMilestone(item)
             THEN Fail
             ELSE /\ issueRefs' = Rest(i, issueRefs)
                  /\ UNCHANGED <<pc, pr, body, prRefs, contributors>>
  /\ UNCHANGED environment

processIssueReferencesInText == pc = "issues" /\ CheckIssue

\* Mutant: the pull request is fetched again for the second half.
FetchContributorsAndPR ==
  /\ pc = "issues" /\ issueRefs = {}
  /\ contributors' = getContributors
  /\ pr' = IF remote[GITHUB_PR_NUMBER].body = NoBody THEN pr ELSE remote[GITHUB_PR_NUMBER]
  /\ prRefs' = OwnPRRefs(pr'.body)
  /\ pc' = "prs"
  /\ UNCHANGED <<body, issueRefs, environment>>

FetchContributors ==
  /\ pc = "issues" /\ issueRefs = {}
  /\ contributors' = getContributors
  /\ prRefs' = OwnPRRefs(pr.body)
  /\ pc' = "prs"
  /\ UNCHANGED <<pr, body, issueRefs, environment>>

\* The next pull request is fetched.  It is skipped if there is none under that
\* number, or its author is not on the list; else its issues are next.
processPRReferencesInText ==
  /\ pc = "prs"
  /\ \E i \in prRefs :
       /\ IsNext(i, prRefs)
       /\ LET item == getPRDetails(pr.body[i].number)
          IN IF item = NotFound \/ item.author \notin contributors
             THEN /\ prRefs' = Rest(i, prRefs)
                  /\ UNCHANGED <<pc, pr, body, issueRefs, contributors>>
             ELSE IF item.body = NoBody
             THEN Fail
             ELSE /\ pc' = "refIssues" /\ prRefs' = Rest(i, prRefs)
                  /\ body' = item.body /\ issueRefs' = OwnIssueRefs(item.body)
                  /\ UNCHANGED <<pr, contributors>>
  /\ UNCHANGED environment

\* Mutant: the run ends after the first pull request referred to.
processReferencedPRLast ==
  /\ pc = "refIssues"
  /\ \/ CheckIssue
     \/ /\ issueRefs = {} /\ pc' = "green"
        /\ UNCHANGED <<pr, body, issueRefs, prRefs, contributors, environment>>

processReferencedPR ==
  /\ pc = "refIssues"
  /\ \/ CheckIssue
     \/ /\ issueRefs = {} /\ pc' = "prs"
        /\ UNCHANGED <<pr, body, issueRefs, prRefs, contributors, environment>>

AllChecksCompleted ==
  /\ pc = "prs" /\ prRefs = {}
  /\ pc' = "green"
  /\ UNCHANGED <<pr, body, issueRefs, prRefs, contributors, environment>>

Requests == \/ pc \in {"pr", "issues"}
            \/ pc = "refIssues" /\ issueRefs # {}
            \/ pc = "prs" /\ prRefs # {}

\* A request that fails otherwise than with "not found" ends the run.
RequestFails ==
  /\ Requests
  /\ faults < MaxFaults /\ faults' = faults + 1
  /\ Fail
  /\ UNCHANGED <<remote, edits, wasFine>>

\* People edit the labels, the milestone or the description of an item.
Edit(n) ==
  /\ edits < MaxEdits /\ edits' = edits + 1
  /\ pc \notin {"green", "red"} /\ remote[n] # NotFound
  /\ \/ remote' = [remote EXCEPT ![n].labels = ~@]
     \/ remote' = [remote EXCEPT ![n].milestone = ~@]
     \/ \E b \in Bodies : remote' = [remote EXCEPT ![n].body = b]
  /\ wasFine' = wasFine \cup {k \in Numbers : Fine(k)'}
  /\ UNCHANGED <<pc, pr, body, issueRefs, prRefs, contributors, faults>>

ScriptStep ==
  \/ run
  \/ processIssueReferencesInText
  \/ FetchContributors
  \/ processPRReferencesInText
  \/ processReferencedPR
  \/ AllChecksCompleted

Next == \/ ScriptStep
        \/ RequestFails
        \/ \E n \in Numbers : Edit(n)

Spec == Init /\ [][Next]_vars

\* Every request is answered, or fails, in the end.
FairSpec == Spec /\ WF_vars(ScriptStep)

----------------------------------------------------------------------------
TypeOK ==
  /\ remote \in [Numbers -> Items \cup {NotFound}]
  /\ pc \in {"pr", "issues", "prs", "refIssues", "green", "red"}
  /\ pr \in Items \cup {NotFound} /\ body \in Bodies \cup {NoBody}
  /\ issueRefs \subseteq Nat /\ prRefs \subseteq Nat
  /\ contributors \subseteq Authors
  /\ edits \in 0 .. MaxEdits /\ faults \in 0 .. MaxFaults
  /\ wasFine \subseteq Numbers

\* What the check stands for, said of one state of the repository: the pull
\* request has labels and a milestone and, unless a bot wrote it, refers to
\* issues, which have both as well, and so have those of the pull requests of
\* listed contributors it refers to.
IssuesOf(b) == {b[i].number : i \in OwnIssueRefs(b)}

Follows(n) == remote[n] # NotFound /\ remote[n].kind = "pr" /\ remote[n].author \in Listed

Passes ==
  LET me == getPRDetails(GITHUB_PR_NUMBER)
  IN /\ me # NotFound /\ HasLabelsAndMilestone(me)
     /\ \/ me.author \in Bots
        \/ /\ me.body # NoBody
           /\ IssuesOf(me.body) # {}
           /\ \A n \in IssuesOf(me.body) : Fine(n)
           /\ \A i \in OwnPRRefs(me.body) :
                LET n == me.body[i].number
                IN Follows(n) => /\ remote[n].body # NoBody
                                 /\ \A k \in IssuesOf(remote[n].body) : Fine(k)

\* Of a repository nobody edits meanwhile, and with every request answered, the
\* run's verdict is the right one.
VerdictIsRight ==
  edits = 0 /\ faults = 0 /\ pc \in {"green", "red"} => (pc = "green" <=> Passes)

\* Whatever people edit during the run, it passes only if nothing it asked for
\* failed, and each issue that the description referred to was in order, or
\* absent, at some moment of the run.
GreenWasFine ==
  pc = "green" =>
    /\ faults = 0
    /\ pr.author \notin Bots => IssuesOf(pr.body) \subseteq wasFine

\* The run comes to a verdict.
Ends == <>(pc \in {"green", "red"})
=============================================================================

--------------------------- MODULE CheckPr_proofs ---------------------------
(***************************************************************************)
(* The verdict of the pull request check, for every repository, every      *)
(* description and any number of edits and failures.                       *)
(***************************************************************************)
EXTENDS CheckPr, TLAPS

Checking == pc \in {"issues", "prs", "refIssues"}

\* What the script has in hand between its requests.
InHand ==
  /\ Checking => /\ pr \in Items /\ pr.body \in Bodies /\ pr.author \notin Bots
  /\ pc = "issues" => body = pr.body
  /\ pc = "refIssues" => body \in Bodies
  /\ pc \in {"issues", "refIssues"} => issueRefs \subseteq OwnIssueRefs(body)
  /\ pc \in {"prs", "refIssues"} => /\ prRefs \subseteq OwnPRRefs(pr.body)
                                    /\ contributors = Listed

\* An issue that was found in order is remembered.
FineRemembered ==
  /\ \A n \in Numbers : Fine(n) => n \in wasFine
  /\ pc = "issues" =>
       \A i \in OwnIssueRefs(pr.body) \ issueRefs : pr.body[i].number \in wasFine
  /\ pc \in {"prs", "refIssues"} => IssuesOf(pr.body) \subseteq wasFine

FailedIsRed == faults > 0 => pc = "red"

\* A pass without a failed request is one on issues that were in order.
PassedOnFine ==
  pc = "green" /\ pr.author \notin Bots => IssuesOf(pr.body) \subseteq wasFine

\* The pull request that the reference at i names is in order, or not followed.
Answered(i) ==
  LET n == pr.body[i].number
  IN Follows(n) => /\ remote[n].body # NoBody
                   /\ \A k \in IssuesOf(remote[n].body) : Fine(k)

\* Of a repository nobody edits: what was checked so far is in order, and only
\* what is not turns the verdict red.
Checked ==
  edits = 0 /\ faults = 0 =>
    /\ Checking => /\ pr = remote[GITHUB_PR_NUMBER] /\ pr.kind = "pr"
                   /\ HasLabelsAndMilestone(pr) /\ IssuesOf(pr.body) # {}
    /\ pc = "issues" =>
         \A i \in OwnIssueRefs(pr.body) \ issueRefs : Fine(pr.body[i].number)
    /\ pc \in {"prs", "refIssues"} =>
         /\ \A n \in IssuesOf(pr.body) : Fine(n)
         /\ \A i \in OwnPRRefs(pr.body) \ prRefs :
              \/ Answered(i)
              \/ pc = "refIssues" /\ remote[pr.body[i].number].body = body
    /\ pc = "refIssues" =>
         /\ \E i \in OwnPRRefs(pr.body) : /\ Follows(pr.body[i].number)
                                          /\ remote[pr.body[i].number].body = body
         /\ \A j \in OwnIssueRefs(body) \ issueRefs : Fine(body[j].number)
    /\ pc = "green" => Passes
    /\ pc = "red" => ~Passes

IInv == TypeOK /\ InHand /\ FineRemembered /\ PassedOnFine /\ FailedIsRed /\ Checked

----------------------------------------------------------------------------
\* The references of a description are positions in it, and name numbers.
LEMMA RefsOf ==
  ASSUME NEW b \in Bodies
  PROVE  /\ OwnIssueRefs(b) \subseteq Nat /\ OwnPRRefs(b) \subseteq Nat
         /\ \A i \in OwnIssueRefs(b) \cup OwnPRRefs(b) : b[i].number \in Numbers
         /\ IssuesOf(b) \subseteq Numbers
<1>1. b \in Seq(References)
  BY PrAssumption
<1>2. DOMAIN b \subseteq Nat /\ \A i \in DOMAIN b : b[i].number \in Numbers
  <2>1. DOMAIN b = 1 .. Len(b) /\ Len(b) \in Nat
    BY <1>1
  <2>2. \A i \in DOMAIN b : b[i] \in References
    BY <1>1, <2>1
  <2>3. \A r \in References : r.number \in Numbers
    BY DEF References
  <2> QED BY <2>1, <2>2, <2>3
<1> QED BY <1>2 DEF OwnIssueRefs, OwnPRRefs, extractIssueReferences,
                    extractPRReferences, IssuesOf

LEMMA InitIInv == Init => IInv
<1> SUFFICES ASSUME Init PROVE IInv OBVIOUS
<1> USE PrAssumption
<1>1. TypeOK BY DEF Init, TypeOK
<1>2. InHand /\ FailedIsRed /\ Checked
  BY DEF Init, InHand, FailedIsRed, Checked, Checking
<1>3. FineRemembered /\ PassedOnFine BY DEF Init, FineRemembered, PassedOnFine
<1> QED BY <1>1, <1>2, <1>3 DEF IInv

\* A script step leaves the environment alone.
LEMMA EnvironmentFrame ==
  ASSUME UNCHANGED environment
  PROVE  /\ \A n : Fine(n)' <=> Fine(n)
         /\ \A n : Follows(n)' <=> Follows(n)
         /\ Passes' <=> Passes
         /\ remote' = remote /\ edits' = edits /\ faults' = faults /\ wasFine' = wasFine
<1>1. /\ remote' = remote /\ edits' = edits /\ faults' = faults /\ wasFine' = wasFine
  BY DEF environment
<1>2. \A n : (Fine(n)' <=> Fine(n)) /\ (Follows(n)' <=> Follows(n))
  BY <1>1 DEF Fine, Follows
<1>3. Passes' <=> Passes
  BY <1>1 DEF Passes, getPRDetails, Fine, Follows
<1> QED BY <1>1, <1>2, <1>3

\* A step that fails ends red: what is left is to see that it is right to.
LEMMA FailStep ==
  ASSUME IInv, Fail, UNCHANGED environment, edits = 0 /\ faults = 0 => ~Passes
  PROVE  IInv'
<1>1. TypeOK'
  BY EnvironmentFrame DEF IInv, TypeOK, Fail
<1>2. InHand' /\ PassedOnFine' /\ FailedIsRed' /\ Checked'
  BY EnvironmentFrame DEF Fail, InHand, Checking, PassedOnFine, FailedIsRed, Checked
<1>3. FineRemembered'
  BY EnvironmentFrame DEF Fail, IInv, FineRemembered
<1> QED BY <1>1, <1>2, <1>3 DEF IInv

LEMMA RunStep == ASSUME IInv, run PROVE IInv'
<1> USE PrAssumption
<1> DEFINE item == getPRDetails(GITHUB_PR_NUMBER)
<1>1. item \in Items \cup {NotFound}
  BY DEF getPRDetails, IInv, TypeOK
<1>2. faults = 0 \/ pc = "red"
  BY DEF IInv, FailedIsRed, TypeOK
<1>3. UNCHANGED environment /\ pc = "pr"
  BY DEF run
<1>4. CASE item = NotFound \/ ~HasLabelsAndMilestone(item)
  <2>1. ~Passes BY <1>4 DEF Passes
  <2> QED BY <1>3, <1>4, <2>1, FailStep DEF run
<1>5. CASE /\ item # NotFound /\ HasLabelsAndMilestone(item)
           /\ isDependabotOrSnykPR(item)
  <2>1. /\ pc' = "green" /\ pr' = item
        /\ UNCHANGED <<body, issueRefs, prRefs, contributors>>
    BY <1>5 DEF run
  <2>2. Passes BY <1>5 DEF Passes, isDependabotOrSnykPR
  <2>3. TypeOK' BY <1>1, <1>3, <2>1, EnvironmentFrame DEF IInv, TypeOK
  <2>4. InHand' /\ FailedIsRed' /\ Checked'
    BY <1>2, <1>3, <2>1, <2>2, EnvironmentFrame
       DEF InHand, Checking, FailedIsRed, Checked
  <2>5. FineRemembered' /\ PassedOnFine'
    BY <1>3, <1>5, <2>1, EnvironmentFrame
       DEF IInv, FineRemembered, PassedOnFine, isDependabotOrSnykPR
  <2> QED BY <2>3, <2>4, <2>5 DEF IInv
<1>6. CASE /\ item # NotFound /\ HasLabelsAndMilestone(item)
           /\ ~isDependabotOrSnykPR(item)
           /\ item.body = NoBody \/ OwnIssueRefs(item.body) = {}
  <2>1. ~Passes BY <1>6 DEF Passes, isDependabotOrSnykPR, IssuesOf
  <2> QED BY <1>3, <1>6, <2>1, FailStep DEF run
<1>7. CASE /\ item # NotFound /\ HasLabelsAndMilestone(item)
           /\ ~isDependabotOrSnykPR(item)
           /\ ~(item.body = NoBody \/ OwnIssueRefs(item.body) = {})
  <2>1. /\ pc' = "issues" /\ pr' = item /\ body' = item.body
        /\ issueRefs' = OwnIssueRefs(item.body)
        /\ UNCHANGED <<prRefs, contributors>>
    BY <1>7 DEF run
  <2>2. /\ item \in Items /\ item.body \in Bodies /\ item.author \notin Bots
        /\ item = remote[GITHUB_PR_NUMBER] /\ item.kind = "pr"
    BY <1>1, <1>7 DEF Items, isDependabotOrSnykPR, getPRDetails
  <2>3. TypeOK'
    BY <1>3, <2>1, <2>2, RefsOf, EnvironmentFrame DEF IInv, TypeOK
  <2>4. InHand' /\ FailedIsRed'
    BY <1>2, <1>3, <2>1, <2>2, EnvironmentFrame DEF InHand, Checking, FailedIsRed
  <2>5. FineRemembered' /\ PassedOnFine'
    BY <1>3, <2>1, EnvironmentFrame DEF IInv, FineRemembered, PassedOnFine
  <2>6. IssuesOf(pr'.body) # {}
    BY <1>7, <2>1, ZenonT(60) DEF IssuesOf
  <2>7. Checked'
    BY <1>3, <1>7, <2>1, <2>2, <2>6, EnvironmentFrame DEF Checked, Checking
  <2> QED BY <2>3, <2>4, <2>5, <2>7 DEF IInv
<1> QED BY <1>4, <1>5, <1>6, <1>7

\* The next issue of the description in hand: if it fails the run the pull
\* request is not in order, and else that issue is.
LEMMA CheckIssueStep ==
  ASSUME IInv, CheckIssue, pc \in {"issues", "refIssues"}
  PROVE  IInv'
<1> USE PrAssumption
<1>1. PICK i \in issueRefs :
        LET item == getIssueDetails(body[i].number)
        IN IF item # NotFound /\ ~HasLabelsAndMilestone(item)
           THEN Fail
           ELSE /\ issueRefs' = Rest(i, issueRefs)
                /\ UNCHANGED <<pc, pr, body, prRefs, contributors>>
  BY DEF CheckIssue
<1>2. UNCHANGED environment
  BY DEF CheckIssue
<1> DEFINE n == body[i].number
<1>3. /\ body \in Bodies /\ i \in OwnIssueRefs(body) /\ n \in IssuesOf(body)
      /\ n \in Numbers /\ pr.body \in Bodies /\ pr.author \notin Bots
  <2>1. body \in Bodies /\ i \in OwnIssueRefs(body) /\ pr.body \in Bodies /\ pr.author \notin Bots
    BY <1>1 DEF IInv, InHand, Checking
  <2> QED BY <2>1, RefsOf DEF IssuesOf
<1>4. CASE ~Fine(n)
  <2>1. Fail
    BY <1>1, <1>4 DEF Fine, getIssueDetails
  <2>2. ASSUME edits = 0 /\ faults = 0 PROVE ~Passes
    <3>1. /\ pr = remote[GITHUB_PR_NUMBER] /\ pr = getPRDetails(GITHUB_PR_NUMBER)
          /\ pr # NotFound
      BY <2>2 DEF IInv, InHand, Checked, Checking, getPRDetails
    <3>2. CASE pc = "issues"
      BY <1>3, <1>4, <3>1, <3>2 DEF Passes, IInv, InHand
    <3>3. CASE pc = "refIssues"
      <4>1. PICK k \in OwnPRRefs(pr.body) : /\ Follows(pr.body[k].number)
                                            /\ remote[pr.body[k].number].body = body
        BY <2>2, <3>3 DEF IInv, Checked
      <4> QED BY <1>3, <1>4, <3>1, <4>1 DEF Passes
    <3> QED BY <3>2, <3>3
  <2> QED BY <1>2, <2>1, <2>2, FailStep
<1>5. CASE Fine(n)
  <2>1. /\ issueRefs' = issueRefs \ {i}
        /\ UNCHANGED <<pc, pr, body, prRefs, contributors>>
    BY <1>1, <1>5 DEF Fine, getIssueDetails, Rest
  <2>2. TypeOK'
    BY <1>2, <2>1, EnvironmentFrame DEF IInv, TypeOK
  <2>3. InHand' /\ FailedIsRed' /\ PassedOnFine'
    BY <1>2, <2>1, EnvironmentFrame
       DEF IInv, InHand, Checking, FailedIsRed, PassedOnFine
  <2>4. FineRemembered'
    BY <1>2, <1>3, <1>5, <2>1, EnvironmentFrame DEF IInv, InHand, FineRemembered
  <2>5. Checked'
    <3> SUFFICES ASSUME edits = 0, faults = 0 PROVE Checked'
      BY <1>2, EnvironmentFrame DEF Checked
    <3>1. CASE pc = "issues"
      BY <1>2, <1>5, <2>1, <3>1, EnvironmentFrame DEF IInv, InHand, Checked, Checking
    <3>2. CASE pc = "refIssues"
      BY <1>2, <1>5, <2>1, <3>2, EnvironmentFrame DEF IInv, Checked, Checking, Answered
    <3> QED BY <3>1, <3>2
  <2> QED BY <2>2, <2>3, <2>4, <2>5 DEF IInv
<1> QED BY <1>4, <1>5

LEMMA FetchContributorsStep == ASSUME IInv, FetchContributors PROVE IInv'
<1> USE PrAssumption
<1>1. UNCHANGED environment
  BY DEF FetchContributors
<1>2. /\ pc = "issues" /\ issueRefs = {} /\ contributors' = Listed
      /\ prRefs' = OwnPRRefs(pr.body) /\ pc' = "prs"
      /\ UNCHANGED <<pr, body, issueRefs>>
  BY DEF FetchContributors, getContributors
<1>3. pr.body \in Bodies /\ body = pr.body
  BY <1>2 DEF IInv, InHand, Checking
<1>4. TypeOK'
  BY <1>1, <1>2, <1>3, RefsOf, EnvironmentFrame DEF IInv, TypeOK
<1>5. InHand' /\ FailedIsRed' /\ PassedOnFine'
  BY <1>1, <1>2, EnvironmentFrame
     DEF IInv, InHand, Checking, FailedIsRed, PassedOnFine
<1>6. FineRemembered'
  BY <1>1, <1>2, EnvironmentFrame DEF IInv, FineRemembered, IssuesOf
<1>7. Checked'
  BY <1>1, <1>2, EnvironmentFrame DEF IInv, Checked, Checking, IssuesOf
<1> QED BY <1>4, <1>5, <1>6, <1>7 DEF IInv

\* The next pull request referred to.
LEMMA ReferencedStep == ASSUME IInv, processPRReferencesInText PROVE IInv'
<1> USE PrAssumption
<1>1. PICK i \in prRefs :
        LET item == getPRDetails(pr.body[i].number)
        IN IF item = NotFound \/ item.author \notin contributors
           THEN /\ prRefs' = Rest(i, prRefs)
                /\ UNCHANGED <<pc, pr, body, issueRefs, contributors>>
           ELSE IF item.body = NoBody
           THEN Fail
           ELSE /\ pc' = "refIssues" /\ prRefs' = Rest(i, prRefs)
                /\ body' = item.body /\ issueRefs' = OwnIssueRefs(item.body)
                /\ UNCHANGED <<pr, contributors>>
  BY DEF processPRReferencesInText
<1>2. UNCHANGED environment /\ pc = "prs"
  BY DEF processPRReferencesInText
<1> DEFINE n == pr.body[i].number
           item == getPRDetails(n)
<1>3. /\ pr.body \in Bodies /\ pr.author \notin Bots /\ contributors = Listed
      /\ i \in OwnPRRefs(pr.body) /\ n \in Numbers
  <2>1. /\ pr.body \in Bodies /\ pr.author \notin Bots /\ contributors = Listed
        /\ i \in OwnPRRefs(pr.body)
    BY <1>1, <1>2 DEF IInv, InHand, Checking
  <2> QED BY <2>1, RefsOf
<1>4. CASE item = NotFound \/ item.author \notin contributors
  <2>1. /\ prRefs' = prRefs \ {i}
        /\ UNCHANGED <<pc, pr, body, issueRefs, contributors>>
    BY <1>1, <1>4 DEF Rest
  <2>2. Answered(i)
    BY <1>3, <1>4 DEF Answered, Follows, getPRDetails
  <2>3. TypeOK'
    BY <1>2, <2>1, EnvironmentFrame DEF IInv, TypeOK
  <2>4. InHand' /\ FailedIsRed' /\ PassedOnFine' /\ FineRemembered'
    BY <1>2, <2>1, EnvironmentFrame
       DEF IInv, InHand, Checking, FailedIsRed, PassedOnFine, FineRemembered
  <2>5. Checked'
    BY <1>2, <2>1, <2>2, EnvironmentFrame DEF IInv, Checked, Checking, Answered
  <2> QED BY <2>3, <2>4, <2>5 DEF IInv
<1>5. CASE ~(item = NotFound \/ item.author \notin contributors) /\ item.body = NoBody
  <2>1. Fail
    BY <1>1, <1>5
  <2>2. ASSUME edits = 0 /\ faults = 0 PROVE ~Passes
    <3>1. pr = getPRDetails(GITHUB_PR_NUMBER)
      BY <1>2, <2>2 DEF IInv, InHand, Checked, Checking, getPRDetails
    <3>2. Follows(n) /\ remote[n].body = NoBody
      BY <1>3, <1>5 DEF Follows, getPRDetails
    <3> QED BY <1>3, <3>1, <3>2 DEF Passes
  <2> QED BY <1>2, <2>1, <2>2, FailStep
<1>6. CASE ~(item = NotFound \/ item.author \notin contributors) /\ item.body # NoBody
  <2>1. /\ pc' = "refIssues" /\ prRefs' = prRefs \ {i}
        /\ body' = item.body /\ issueRefs' = OwnIssueRefs(item.body)
        /\ UNCHANGED <<pr, contributors>>
    BY <1>1, <1>6 DEF Rest
  <2>2. item = remote[n] /\ Follows(n) /\ item \in Items
    BY <1>3, <1>6 DEF Follows, getPRDetails, IInv, TypeOK
  <2>3. item.body \in Bodies
    BY <1>6, <2>2 DEF Items
  <2>4. TypeOK'
    BY <1>2, <2>1, <2>3, RefsOf, EnvironmentFrame DEF IInv, TypeOK
  <2>5. InHand' /\ FailedIsRed' /\ PassedOnFine' /\ FineRemembered'
    BY <1>2, <2>1, <2>3, EnvironmentFrame
       DEF IInv, InHand, Checking, FailedIsRed, PassedOnFine, FineRemembered
  <2>6. Checked'
    BY <1>2, <1>3, <2>1, <2>2, EnvironmentFrame
       DEF IInv, Checked, Checking, Answered
  <2> QED BY <2>4, <2>5, <2>6 DEF IInv
<1> QED BY <1>4, <1>5, <1>6

LEMMA ReferencedDoneStep ==
  ASSUME IInv, processReferencedPR, ~CheckIssue
  PROVE  IInv'
<1> USE PrAssumption
<1>1. /\ UNCHANGED environment /\ pc = "refIssues" /\ issueRefs = {} /\ pc' = "prs"
      /\ UNCHANGED <<pr, body, issueRefs, prRefs, contributors>>
  BY DEF processReferencedPR
<1>2. TypeOK' BY <1>1, EnvironmentFrame DEF IInv, TypeOK
<1>3. InHand' /\ FailedIsRed' /\ PassedOnFine' /\ FineRemembered'
  BY <1>1, EnvironmentFrame
     DEF IInv, InHand, Checking, FailedIsRed, PassedOnFine, FineRemembered
<1>4. Checked'
  <2> SUFFICES ASSUME edits = 0, faults = 0 PROVE Checked'
    BY <1>1, EnvironmentFrame DEF Checked
  <2>1. body \in Bodies /\ body # NoBody /\ \A k \in IssuesOf(body) : Fine(k)
    BY <1>1 DEF IInv, InHand, Checked, IssuesOf
  <2>2. \A i \in OwnPRRefs(pr.body) \ prRefs : Answered(i)
    BY <1>1, <2>1 DEF IInv, Checked, Answered
  <2>3. \A i : Answered(i)' <=> Answered(i)
    BY <1>1, EnvironmentFrame DEF Answered
  <2> QED BY <1>1, <2>2, <2>3, EnvironmentFrame DEF IInv, Checked, Checking
<1> QED BY <1>2, <1>3, <1>4 DEF IInv

LEMMA CompletedStep == ASSUME IInv, AllChecksCompleted PROVE IInv'
<1> USE PrAssumption
<1>1. /\ UNCHANGED environment /\ pc = "prs" /\ prRefs = {} /\ pc' = "green"
      /\ UNCHANGED <<pr, body, issueRefs, prRefs, contributors>>
  BY DEF AllChecksCompleted
<1>2. TypeOK' BY <1>1, EnvironmentFrame DEF IInv, TypeOK
<1>3. InHand' /\ FailedIsRed' /\ PassedOnFine' /\ FineRemembered'
  BY <1>1, EnvironmentFrame
     DEF IInv, TypeOK, InHand, Checking, FailedIsRed, PassedOnFine, FineRemembered
<1>4. Checked'
  <2> SUFFICES ASSUME edits = 0, faults = 0 PROVE Passes
    BY <1>1, EnvironmentFrame DEF Checked, Checking
  <2>1. /\ pr = getPRDetails(GITHUB_PR_NUMBER) /\ pr # NotFound /\ pr.body # NoBody
    BY <1>1 DEF IInv, InHand, Checked, Checking, getPRDetails
  <2>2. \A i \in OwnPRRefs(pr.body) : Answered(i)
    BY <1>1 DEF IInv, Checked
  <2> QED BY <1>1, <2>1, <2>2 DEF IInv, Checked, Checking, Passes, Answered
<1> QED BY <1>2, <1>3, <1>4 DEF IInv

LEMMA RequestFailsStep == ASSUME IInv, RequestFails PROVE IInv'
<1>1. /\ pc' = "red" /\ faults' = faults + 1 /\ faults < MaxFaults
      /\ UNCHANGED <<pr, body, issueRefs, prRefs, contributors, remote, edits, wasFine>>
  BY DEF RequestFails, Fail
<1>2. TypeOK' BY <1>1, PrAssumption DEF IInv, TypeOK
<1>3. faults' # 0 BY <1>1, PrAssumption DEF IInv, TypeOK
<1>4. InHand' /\ PassedOnFine' /\ FailedIsRed' /\ Checked'
  BY <1>1, <1>3 DEF InHand, Checking, PassedOnFine, FailedIsRed, Checked
<1>5. FineRemembered' BY <1>1 DEF IInv, FineRemembered, Fine
<1> QED BY <1>2, <1>4, <1>5 DEF IInv

\* An edit leaves the verdict open; what the script has in hand is a copy.
LEMMA EditStep == ASSUME IInv, NEW n \in Numbers, Edit(n) PROVE IInv'
<1> USE PrAssumption
<1>1. /\ edits < MaxEdits /\ edits' = edits + 1 /\ remote[n] # NotFound
      /\ wasFine' = wasFine \cup {k \in Numbers : Fine(k)'}
      /\ pc # "green"
      /\ UNCHANGED <<pc, pr, body, issueRefs, prRefs, contributors, faults>>
  BY DEF Edit
<1>2. edits' # 0 /\ edits' \in 0 .. MaxEdits
  BY <1>1 DEF IInv, TypeOK
<1>3. remote' \in [Numbers -> Items \cup {NotFound}]
  <2>1. /\ remote \in [Numbers -> Items \cup {NotFound}] /\ remote[n] \in Items
    BY <1>1 DEF IInv, TypeOK
  <2>2. /\ [remote[n] EXCEPT !.labels = ~@] \in Items
        /\ [remote[n] EXCEPT !.milestone = ~@] \in Items
        /\ \A b \in Bodies : [remote[n] EXCEPT !.body = b] \in Items
    BY <2>1 DEF Items
  <2>3. \E v \in Items : remote' = [remote EXCEPT ![n] = v]
    BY <2>2 DEF Edit
  <2> QED BY <2>1, <2>3
<1>4. TypeOK' BY <1>1, <1>2, <1>3 DEF IInv, TypeOK
<1>5. InHand' /\ PassedOnFine' /\ FailedIsRed' /\ Checked'
  BY <1>1, <1>2 DEF IInv, InHand, Checking, PassedOnFine, FailedIsRed, Checked
<1>6. FineRemembered' BY <1>1 DEF IInv, FineRemembered
<1> QED BY <1>4, <1>5, <1>6 DEF IInv

THEOREM Invariance == Spec => []IInv
<1>1. Init => IInv
  BY InitIInv
<1>2. IInv /\ [Next]_vars => IInv'
  <2> SUFFICES ASSUME IInv, [Next]_vars PROVE IInv' OBVIOUS
  <2>1. CASE run BY <2>1, RunStep
  <2>2. CASE processIssueReferencesInText
    BY <2>2, CheckIssueStep DEF processIssueReferencesInText
  <2>3. CASE FetchContributors BY <2>3, FetchContributorsStep
  <2>4. CASE processPRReferencesInText BY <2>4, ReferencedStep
  <2>5. CASE processReferencedPR
    BY <2>5, CheckIssueStep, ReferencedDoneStep DEF processReferencedPR
  <2>6. CASE AllChecksCompleted BY <2>6, CompletedStep
  <2>7. CASE RequestFails BY <2>7, RequestFailsStep
  <2>8. CASE \E n \in Numbers : Edit(n) BY <2>8, EditStep
  <2>9. CASE UNCHANGED vars
    <3>1. UNCHANGED environment BY <2>9 DEF vars, environment
    <3>2. UNCHANGED <<pc, pr, body, issueRefs, prRefs, contributors>>
      BY <2>9 DEF vars
    <3>3. Checked' BY <3>1, <3>2, EnvironmentFrame
                      DEF IInv, Checked, Checking, Answered
    <3>4. TypeOK' /\ InHand' /\ FailedIsRed'
      BY <3>1, <3>2, EnvironmentFrame DEF IInv, TypeOK, InHand, Checking, FailedIsRed
    <3>5. FineRemembered' /\ PassedOnFine'
      BY <3>1, <3>2, EnvironmentFrame DEF IInv, FineRemembered, PassedOnFine
    <3> QED BY <3>3, <3>4, <3>5 DEF IInv
  <2> QED BY <2>1, <2>2, <2>3, <2>4, <2>5, <2>6, <2>7, <2>8, <2>9 DEF Next, ScriptStep
<1> QED BY <1>1, <1>2, PTL DEF Spec

\* Type correctness of the script and of GitHub.
THEOREM TypeCorrect == Spec => []TypeOK
BY Invariance, PTL DEF IInv

\* Of a repository nobody edits meanwhile the verdict is the right one.
THEOREM RightVerdict == Spec => []VerdictIsRight
<1>1. IInv => VerdictIsRight
  BY DEF IInv, Checked, VerdictIsRight
<1> QED BY <1>1, Invariance, PTL

\* Whatever is edited meanwhile, a run passes only if no request failed, and on
\* issues each of which was in order at some moment of it.
THEOREM PassesOnFineIssues == Spec => []GreenWasFine
<1>1. IInv => GreenWasFine
  BY DEF IInv, TypeOK, FailedIsRed, PassedOnFine, GreenWasFine
<1> QED BY <1>1, Invariance, PTL
=============================================================================

----------------------------- MODULE MCCheckPr -----------------------------
(* An instance of CheckPr for TLC: pull request 1 is checked, and may refer to
   itself, to 2 and to 3. *)
EXTENDS CheckPr

Ref(form, own, inside, n) == [form |-> form, own |-> own, inside |-> inside, number |-> n]
Hash(n) == Ref("plain", TRUE, "text", n)

SomeBodies ==
  { <<>>,
    <<Hash(1)>>, <<Hash(2)>>, <<Hash(3)>>,
    <<Hash(3), Hash(2)>>,
    <<Ref("issueUrl", TRUE, "text", 2), Ref("prUrl", TRUE, "text", 3)>>,
    <<Ref("prUrl", TRUE, "text", 2)>>,
    <<Ref("plain", FALSE, "text", 2), Ref("plain", TRUE, "code", 3)>>,
    <<Ref("issueUrl", TRUE, "tag", 3), Hash(1)>> }

Item(kind, labels, milestone, author, text) ==
  [kind |-> kind, labels |-> labels, milestone |-> milestone, author |-> author,
   body |-> text]

Checked ==
  {NotFound} \cup
  {Item("pr", l, m, a, b) : l \in BOOLEAN, m \in BOOLEAN, a \in {"ann", "bot"},
                            b \in SomeBodies \cup {NoBody}}

Referenced ==
  {NotFound, Item("issue", TRUE, TRUE, "bob", <<>>), Item("issue", TRUE, FALSE, "bob", <<>>),
   Item("issue", FALSE, TRUE, "ann", <<>>), Item("pr", TRUE, TRUE, "ann", NoBody)}
  \cup {Item("pr", TRUE, TRUE, a, <<Hash(3)>>) : a \in {"ann", "bob"}}
  \cup {Item("pr", FALSE, TRUE, "ann", <<Hash(1)>>)}

SomeRepositories ==
  {[n \in Numbers |-> CASE n = 1 -> a [] n = 2 -> b [] n = 3 -> c] :
     a \in Checked, b \in Referenced, c \in Referenced}
=============================================================================

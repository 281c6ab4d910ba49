---------------------------- MODULE MCWorkloads ----------------------------
(***************************************************************************)
(* Instances of Workloads for TLC.                                         *)
(***************************************************************************)
EXTENDS Workloads, TLC

CONSTANTS p1, p2, p3, s1, s2, i1, i2, g1, g2, acme, beta

\* Nothing, one page, a cycle and two orders, a link given twice.
MCLinkLists == {<< >>, <<p3>>, <<p3, p1, p2>>, <<p2, p2, p3>>}

NoMishap == [p \in Pages |-> "none"]
MCMishaps == {NoMishap} \cup {[NoMishap EXCEPT ![p] = m] : p \in Pages, m \in {"load", "late", "link"}}

MCExclusions == {{}, {p3}}
\* The whole site, a page, a page and its links; another negative depth is a page too.
MCDepths == {WholeSite, 0 - 2, 0, 1}

\* The second chunk of s1 has the id of the first one of s2, as the eleventh of
\* /post/1 has that of the first of /post/11.
MCIndexJobs == {i1, i2}
\* A crawl of the whole site and one that starts and ends at its second page.
MCSites == (i1 :> {{s1, s2}}) @@ (i2 :> {{s2}})
MCChunkCounts == (s1 :> {2}) @@ (s2 :> {1})
MCRecordId == [k \in {s1, s2} \X {0, 1} |-> IF k = <<s1, 1>> THEN <<s2, 0>> ELSE k]

\* A local model, the cloud model of the exception and one in the United States.
MCModelFacts ==
  "qwen" :> [location |-> "local", provider |-> "ollama", region |-> "local"]
  @@ "gemini-pro" :> [location |-> "cloud", provider |-> "vertex", region |-> "us-central1"]
  @@ "gpt" :> [location |-> "cloud", provider |-> "openai", region |-> "us"]

\* The local model falls back to a cloud that the table does not know, then to one it knows.
MCFallbacks == "qwen" :> <<"haiku", "gpt">>

MCGroups == {g1, g2}
MCNames == {acme, beta}
\* No name is used again after its group was deleted.
FreshNames == (g1 :> acme) @@ (g2 :> beta)
=============================================================================

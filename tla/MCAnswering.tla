------------------------------ MODULE MCAnswering ------------------------------
(* A small instance of Answering for TLC. *)
EXTENDS Answering

CONSTANTS a, b, blank, s1, s2, s3, f1, f2, f3, f4, f5, d1, d2, d3, d4, d5

MCLines    == {a, b, blank}
MCSnippets == {<<a>>, <<b>>, <<a, b>>, <<blank, a>>}

MCServers   == {s1, s2, s3}
MCServerHas ==
  [s \in MCServers |->
     CASE s = s1 -> [embedder |-> "hugot", retriever |-> "redis", generative |-> "hugot"]
       [] s = s2 -> [embedder |-> "google-genai", retriever |-> "redis", generative |-> "google-genai"]
       [] s = s3 -> [embedder |-> "google-genai", retriever |-> "weaviate", generative |-> "google-genai"]]

\* Two files of s1, one of each other server, and one without documents.
MCFiles      == {f1, f2, f3, f4, f5}
MCUploadedBy == (f1 :> s1) @@ (f2 :> s1) @@ (f3 :> s2) @@ (f4 :> s3) @@ (f5 :> s3)
MCDocs       == {d1, d2, d3, d4, d5}
MCFileOf     == (d1 :> f1) @@ (d2 :> f1) @@ (d3 :> f2) @@ (d4 :> f3) @@ (d5 :> f4)

\* The documents of f1 contain any lines, the others both.
MCContents ==
  {c \in [MCDocs -> SUBSET {a, b}] : \A d \in {d3, d4, d5} : c[d] = {a, b}}
===============================================================================

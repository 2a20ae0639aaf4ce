------------------------------- MODULE Answering -------------------------------
(***************************************************************************)
(* How one screening is answered when the servers need not have the same     *)
(* adapters: CreateScreening (screening.go) on any server, the claim by any   *)
(* other, and answwerQuestion (screening_processings.go) with the embedder,   *)
(* retriever and generative model of the server that claimed it.            *)
(*                                                                         *)
(* The files of a screening are looked up again and again, each time in a    *)
(* transaction of its own and through the partial of the server that looks:   *)
(* a file uploaded through other adapters is not found.  Meanwhile a sweep    *)
(* may set a processed file to failed (FileProcessing).                     *)
(*                                                                         *)
(* One worker has the screening (ScreeningProcessing!ClaimsExclusive), so the *)
(* program state is one for the screening.  The matching of snippets is that  *)
(* of SnippetMatching, step by step.                                        *)
(***************************************************************************)
EXTENDS SnippetMatching

CONSTANTS
  Servers, Files, Docs,
  FileOf,       \* the file of each document
  ServerHas,    \* per server the names of its embedder, retriever and generative
  UploadedBy,   \* the server each file was uploaded through and processed by
  Contents,     \* the possible contents of the documents
  QuestionCount,
  MaxFaults     \* bound: failed calls in a behaviour

\* The adapters a server can be started with.
Embedders   == {"hugot", "google-genai"}
Retrievers  == {"redis", "weaviate"}
Generatives == {"hugot", "google-genai"}

ASSUME AnsweringAssumption ==
  /\ FileOf \in [Docs -> Files]
  /\ UploadedBy \in [Files -> Servers]
  /\ ServerHas \in
       [Servers -> [embedder : Embedders, retriever : Retrievers, generative : Generatives]]
  /\ Contents \subseteq [Docs -> SUBSET (Lines \ {Blank})]
  /\ QuestionCount \in Nat \ {0}
  /\ MaxFaults \in Nat

PROCESSED_SUCCESSFULLY == "PROCESSED_SUCCESSFULLY"
PROCESSING_FAILED      == "PROCESSING_FAILED"

NoServer == "no server"

VARIABLES
  fileStatus, \* "file"."status"; other statuses are as good as no file here
  content,    \* the lines that each document contains
  stage,      \* where the screening, and the worker that has it, has come to
  asked,      \* the rows of "screening_file"
  server,     \* the server that has claimed the screening
  loaded,     \* aScreening.FileIDs() in its memory
  question,   \* the question it answers
  found,      \* what SearchDocuments returned, nearest first
  reply,      \* the form of a reply that was not understood
  evidence,   \* the documents that the answers saved so far name
  faults

answerVars == <<fileStatus, content, stage, asked, server, loaded, question, found, reply,
                evidence, faults>>
allVars    == <<matchVars, answerVars>>

Stages == {"none", "checked", "requested", "checking", "embedding", "searching",
           "generating", "matching", "completed", "failed"}
Replies == {"json", "fenced", "prose"}

TypeOK ==
  /\ MatchTypeOK
  /\ fileStatus \in [Files -> {PROCESSED_SUCCESSFULLY, PROCESSING_FAILED}]
  /\ content \in Contents
  /\ stage \in Stages
  /\ asked \in SUBSET Files
  /\ server \in Servers \cup {NoServer}
  /\ loaded \in SUBSET Files
  /\ question \in 1..QuestionCount
  /\ found \in Seq(Docs) /\ Len(found) <= MaxDocuments
  /\ reply \in Replies
  /\ evidence \in SUBSET Docs
  /\ faults \in 0..MaxFaults

Init ==
  /\ MatchInit
  /\ fileStatus = [f \in Files |-> PROCESSED_SUCCESSFULLY]
  /\ content \in Contents
  /\ stage = "none"
  /\ asked = {} /\ server = NoServer /\ loaded = {}
  /\ question = 1 /\ found = <<>> /\ reply = "json" /\ evidence = {}
  /\ faults = 0

-------------------------------------------------------------------------------
(* filePpartial: the names of the file's embedder and retriever must be those  *)
(* of the server that looks.                                               *)
VisibleAny(s, f) == TRUE

Visible(s, f) ==
  /\ ServerHas[UploadedBy[f]].embedder = ServerHas[s].embedder
  /\ ServerHas[UploadedBy[f]].retriever = ServerHas[s].retriever

(* Every file is found and has been processed; looking up none finds all. *)
ProcessedFiles(s, F) ==
  \A f \in F : Visible(s, f) /\ fileStatus[f] = PROCESSED_SUCCESSFULLY

(* The claim lists screenings, and each one's files, without a partial. *)
FilesVisible(s) == {f \in asked : Visible(s, f)}

FilesLoaded(s) == asked

(* The documents in the index of the retriever of s. *)
Indexed(s) ==
  {d \in Docs : ServerHas[UploadedBy[FileOf[d]]].retriever = ServerHas[s].retriever}

(* The filter of a search: the query of redis is "*" without ids, weaviate has  *)
(* no where clause then.                                                    *)
Escaped(F) == {}

Filter(F) == F

RedisQuery(s, F) ==
  IF F = {} THEN Indexed(s) ELSE {d \in Indexed(s) : FileOf[d] \in Filter(F)}

WeaviateWhere(s, F) ==
  {d \in Indexed(s) : F # {} => FileOf[d] \in Filter(F)}

Candidates(s, F) ==
  CASE ServerHas[s].retriever = "redis"    -> RedisQuery(s, F)
    [] ServerHas[s].retriever = "weaviate" -> WeaviateWhere(s, F)

(* The nearest ones of D, at most the limit, in the order of their distance. *)
Nearest(D) ==
  {r \in BoundedSeq(D, MaxDocuments) :
     /\ \A i, j \in DOMAIN r : r[i] = r[j] => i = j
     /\ Len(r) = MaxDocuments \/ Range(r) = D}

(* The replies that unmarshal: hugot takes off a code fence first. *)
Understood(s) ==
  IF ServerHas[s].generative = "hugot" THEN {"json", "fenced"} ELSE {"json"}

Fault == faults < MaxFaults /\ faults' = faults + 1

-------------------------------------------------------------------------------
(* A request to server s: every file is checked, each on its own, before the   *)
(* transaction that saves the screening.  A list that names a file twice is     *)
(* refused, so the files are a set.                                        *)
CreateScreening(s, F) ==
  /\ stage = "none"
  /\ F # {} /\ ProcessedFiles(s, F)
  /\ stage' = "checked"
  /\ asked' = F
  /\ UNCHANGED <<matchVars, fileStatus, content, server, loaded, question, found, reply, evidence, faults>>

SaveScreening ==
  /\ stage = "checked"
  /\ stage' = "requested"
  /\ UNCHANGED <<matchVars, fileStatus, content, asked, server, loaded, question, found, reply,
                 evidence, faults>>

ScreeningNotSaved ==
  /\ stage = "checked"
  /\ Fault
  /\ stage' = "none" /\ asked' = {}
  /\ UNCHANGED <<matchVars, fileStatus, content, server, loaded, question, found, reply, evidence>>

(* A sweep or a late worker overwrites the outcome of a file; of other files  *)
(* than those asked about nothing is looked at.                            *)
FileFails(f) ==
  /\ f \in asked /\ fileStatus[f] = PROCESSED_SUCCESSFULLY
  /\ stage \notin {"completed", "failed"}
  /\ fileStatus' = [fileStatus EXCEPT ![f] = PROCESSING_FAILED]
  /\ UNCHANGED <<matchVars, content, stage, asked, server, loaded, question, found, reply,
                 evidence, faults>>

ClaimScreening(s) ==
  /\ stage = "requested"
  /\ stage' = "checking"
  /\ server' = s
  /\ loaded' = FilesLoaded(s)
  /\ UNCHANGED <<matchVars, fileStatus, content, asked, question, found, reply, evidence, faults>>

ScreeningFails ==
  /\ stage' = "failed"
  /\ UNCHANGED <<matchVars, fileStatus, content, asked, server, loaded, question, found, evidence>>

CheckFiles ==
  /\ stage = "checking"
  /\ ProcessedFiles(server, loaded)
  /\ stage' = "embedding"
  /\ UNCHANGED <<matchVars, fileStatus, content, asked, server, loaded, question, found, reply,
                 evidence, faults>>

FilesRefused ==
  /\ stage = "checking"
  /\ ~ProcessedFiles(server, loaded)
  /\ ScreeningFails
  /\ UNCHANGED <<reply, faults>>

EmbedContent ==
  /\ stage = "embedding"
  /\ stage' = "searching"
  /\ UNCHANGED <<matchVars, fileStatus, content, asked, server, loaded, question, found, reply,
                 evidence, faults>>

SearchDocuments ==
  /\ stage = "searching"
  /\ found' \in Nearest(Candidates(server, loaded))
  /\ found' # <<>>
  /\ stage' = "generating"
  /\ UNCHANGED <<matchVars, fileStatus, content, asked, server, loaded, question, reply,
                 evidence, faults>>

NoDocumentsFound ==
  /\ stage = "searching"
  /\ Candidates(server, loaded) = {}
  /\ ScreeningFails
  /\ UNCHANGED <<reply, faults>>

(* The one candidate of the model is unmarshalled, its snippets are matched. *)
Generate(form, p) ==
  /\ stage = "generating"
  /\ form \in Understood(server)
  /\ MatchSnippetsToDocuments(p, [i \in DOMAIN found |-> content[found[i]]])
  /\ stage' = "matching"
  /\ UNCHANGED <<fileStatus, content, asked, server, loaded, question, found, reply, evidence, faults>>

ReplyNotUnderstood(form) ==
  /\ stage = "generating"
  /\ form \notin Understood(server)
  /\ reply' = form
  /\ ScreeningFails
  /\ UNCHANGED faults

Match == stage = "matching" /\ MatchStep /\ UNCHANGED answerVars

(* The answer is saved with the matched documents; after the last one the     *)
(* screening is completed.                                                 *)
SaveAnswer ==
  /\ stage = "matching" /\ pc = "done"
  /\ evidence' = evidence \cup {found[matched[k]] : k \in DOMAIN matched}
  /\ IF question = QuestionCount
       THEN stage' = "completed" /\ UNCHANGED question
       ELSE stage' = "checking" /\ question' = question + 1
  /\ found' = <<>>
  /\ MatchReturned
  /\ UNCHANGED <<fileStatus, content, asked, server, loaded, reply, faults>>

(* Any call errs, the deadline passes, or the worker's server has stopped and  *)
(* the sweep of another one ends the screening.                             *)
CallFails ==
  /\ \/ stage \in {"checking", "embedding", "searching", "generating"}
     \/ stage = "matching" /\ pc = "done"
  /\ Fault
  /\ ScreeningFails
  /\ UNCHANGED reply

Next ==
  \/ \E s \in Servers, F \in SUBSET Files : CreateScreening(s, F)
  \/ SaveScreening \/ ScreeningNotSaved
  \/ \E f \in Files : FileFails(f)
  \/ \E s \in Servers : ClaimScreening(s)
  \/ CheckFiles \/ FilesRefused \/ EmbedContent \/ SearchDocuments \/ NoDocumentsFound
  \/ \E form \in Replies, p \in BoundedSeq(Snippets, MaxSnippets) : Generate(form, p)
  \/ \E form \in Replies : ReplyNotUnderstood(form)
  \/ Match \/ SaveAnswer \/ CallFails

Spec == Init /\ [][Next]_allVars

-------------------------------------------------------------------------------
(* README: the answer comes with "list of evidences (files)".  Whatever server  *)
(* answers, the evidence of every answer is from the files of the screening.  *)
EvidenceOfItsFiles ==
  \A d \in evidence : FileOf[d] \in asked

(* A question's vector is compared with those of its own embedder only: what is *)
(* found was embedded by an embedder of the same name.                      *)
SameEmbedder ==
  \A i \in DOMAIN found :
    ServerHas[UploadedBy[FileOf[found[i]]]].embedder = ServerHas[server].embedder

(* A screening fails for a reason: a call failed, a reply could not be read,  *)
(* a file's outcome was overwritten, there is nothing in its files, or it was  *)
(* claimed by a server of other adapters, which nothing keeps from claiming.  *)
FailsForReason ==
  stage = "failed" =>
    \/ faults > 0
    \/ reply \notin Understood(server)
    \/ \E f \in asked : fileStatus[f] = PROCESSING_FAILED
    \/ \A d \in Docs : FileOf[d] \notin asked
    \/ \E f \in asked : ~Visible(server, f)
===============================================================================

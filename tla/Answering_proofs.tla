----------------------------- MODULE Answering_proofs -----------------------------
(***************************************************************************)
(* Proofs about Answering for any servers and adapters, files, documents and *)
(* contents, any limits and any number of questions.                        *)
(***************************************************************************)
EXTENDS Answering, SnippetMatching_proofs

(* The types of what the matching does not own. *)
Types ==
  /\ fileStatus \in [Files -> {PROCESSED_SUCCESSFULLY, PROCESSING_FAILED}]
  /\ content \in Contents
  /\ stage \in Stages
  /\ asked \in SUBSET Files
  /\ server \in Servers \cup {NoServer}
  /\ loaded \in SUBSET Files
  /\ question \in 1..QuestionCount
  /\ found \in Seq(Docs) /\ Len(found) <= MaxDocuments
  /\ reply \in Replies
  /\ evidence \in SUBSET Docs
  /\ faults \in 0..MaxFaults

(* A server that has claimed the screening works on the files asked about,    *)
(* and from the check of a question's files on it knows that they are visible  *)
(* to it; so are the files of the documents it has found.                     *)
Claimed == Stages \ {"none", "checked", "requested"}
Checked == {"embedding", "searching", "generating", "matching"}

FilesKnown ==
  /\ stage # "none" => asked # {}
  /\ stage \in Claimed => server \in Servers /\ loaded = asked
  /\ stage \in Checked => \A f \in asked : Visible(server, f)
  /\ stage \notin Claimed => found = <<>> /\ evidence = {}
  /\ \A i \in DOMAIN found :
       FileOf[found[i]] \in asked /\ Visible(server, FileOf[found[i]])
  /\ stage = "matching" => Len(documents) = Len(found)

InductiveInvariant ==
  /\ Types
  /\ MatchInvariant
  /\ FilesKnown
  /\ EvidenceOfItsFiles
  /\ FailsForReason

-------------------------------------------------------------------------------
(* Both retrievers filter by the files asked for, if there are any. *)
LEMMA CandidatesOf ==
  ASSUME NEW s \in Servers, NEW F, F # {}
  PROVE  Candidates(s, F) = {d \in Indexed(s) : FileOf[d] \in F}
<1>1. ServerHas[s].retriever \in {"redis", "weaviate"}
  BY AnsweringAssumption DEF Retrievers
<1>2. CASE ServerHas[s].retriever = "redis"
  BY <1>2 DEF Candidates, RedisQuery, Filter
<1>3. CASE ServerHas[s].retriever = "weaviate"
  BY <1>3 DEF Candidates, WeaviateWhere, Filter
<1> QED
  BY <1>1, <1>2, <1>3

LEMMA NearestType ==
  ASSUME NEW D, NEW r \in Nearest(D)
  PROVE  r \in Seq(D) /\ Len(r) <= MaxDocuments
BY ConstantsAssumption, BoundedSeqType DEF Nearest

(* What a search returns is in the files asked about. *)
LEMMA SearchFinds ==
  ASSUME FilesKnown, SearchDocuments
  PROVE  /\ found' \in Seq(Docs) /\ Len(found') <= MaxDocuments
         /\ \A i \in DOMAIN found' : FileOf[found'[i]] \in asked
<1>1. server \in Servers /\ loaded = asked /\ asked # {}
  BY DEF FilesKnown, SearchDocuments, Stages, Claimed
<1> DEFINE D == {d \in Indexed(server) : FileOf[d] \in asked}
<1>2. found' \in Nearest(D)
  BY <1>1, CandidatesOf DEF SearchDocuments
<1> HIDE DEF D
<1>3. found' \in Seq(D) /\ Len(found') <= MaxDocuments
  BY <1>2, NearestType
<1>4. D \subseteq Docs /\ \A d \in D : FileOf[d] \in asked
  BY DEF D, Indexed
<1> QED
  BY <1>3, <1>4

(* The matched documents are among those that were found. *)
LEMMA MatchedFound ==
  ASSUME Types, MatchInvariant, FilesKnown, stage = "matching", NEW k \in DOMAIN matched
  PROVE  matched[k] \in DOMAIN found /\ found[matched[k]] \in Docs
<1>1. matched[k] \in 1..Len(found)
  BY DEF MatchInvariant, MatchTypeOK, FilesKnown
<1> QED
  BY <1>1 DEF Types

-------------------------------------------------------------------------------

(* The types are kept. *)
LEMMA TypesStep ==
  ASSUME Types, MatchInvariant, FilesKnown, [Next]_allVars
  PROVE  Types'
<1> USE AnsweringAssumption DEF Types, Stages, Replies
<1>1. ASSUME NEW s \in Servers, NEW F \in SUBSET Files, CreateScreening(s, F)
      PROVE  Types'
  BY <1>1 DEF CreateScreening, matchVars
<1>2. CASE SaveScreening
  BY <1>2 DEF SaveScreening, matchVars
<1>3. CASE ScreeningNotSaved
  BY <1>3 DEF ScreeningNotSaved, Fault, matchVars
<1>4. ASSUME NEW f \in Files, FileFails(f)
      PROVE  Types'
  BY <1>4 DEF FileFails, matchVars
<1>5. ASSUME NEW s \in Servers, ClaimScreening(s)
      PROVE  Types'
  BY <1>5 DEF ClaimScreening, FilesLoaded, matchVars
<1>6. CASE CheckFiles
  BY <1>6 DEF CheckFiles, matchVars
<1>7. CASE FilesRefused
  BY <1>7 DEF FilesRefused, ScreeningFails, matchVars
<1>8. CASE EmbedContent
  BY <1>8 DEF EmbedContent, matchVars
<1>9. CASE SearchDocuments
  BY <1>9, SearchFinds DEF SearchDocuments
<1>10. CASE NoDocumentsFound
  BY <1>10 DEF NoDocumentsFound, ScreeningFails, matchVars
<1>11. ASSUME NEW form \in Replies, NEW p \in BoundedSeq(Snippets, MaxSnippets), Generate(form, p)
      PROVE  Types'
  BY <1>11 DEF Generate, matchVars
<1>12. ASSUME NEW form \in Replies, ReplyNotUnderstood(form)
      PROVE  Types'
  BY <1>12 DEF ReplyNotUnderstood, ScreeningFails, matchVars
<1>13. CASE Match
  BY <1>13 DEF Match, answerVars
<1>14. CASE SaveAnswer
  <2>1. \A k \in DOMAIN matched : found[matched[k]] \in Docs
    BY <1>14, MatchedFound DEF SaveAnswer
  <2>2. question' \in 1..QuestionCount
    BY <1>14 DEF SaveAnswer
  <2>3. evidence' \in SUBSET Docs
    BY <1>14, <2>1 DEF SaveAnswer
  <2>4. found' \in Seq(Docs) /\ Len(found') <= MaxDocuments
    BY <1>14, ConstantsAssumption DEF SaveAnswer
  <2> QED
    BY <1>14, <2>2, <2>3, <2>4 DEF SaveAnswer
<1>15. CASE CallFails
  BY <1>15 DEF CallFails, ScreeningFails, Fault, matchVars
<1>16. CASE UNCHANGED allVars
  BY <1>16 DEF allVars, matchVars, answerVars
<1> QED
  BY <1>1, <1>2, <1>3, <1>4, <1>5, <1>6, <1>7, <1>8, <1>9, <1>10, <1>11, <1>12, <1>13,
     <1>14, <1>15, <1>16 DEF Next

(* A step calls the matching, takes a step of it, takes its result or leaves it. *)
LEMMA MatchNextStep ==
  ASSUME Types, [Next]_allVars
  PROVE  [MatchNext]_matchVars
<1>1. ASSUME NEW form \in Replies, NEW p \in BoundedSeq(Snippets, MaxSnippets), Generate(form, p)
      PROVE  MatchNext
  <2> DEFINE d == [i \in DOMAIN found |-> content[found[i]]]
  <2>1. d \in Seq(SUBSET (Lines \ {Blank})) /\ Len(d) <= MaxDocuments
    <3>1. content \in [Docs -> SUBSET (Lines \ {Blank})]
      BY AnsweringAssumption DEF Types
    <3> QED
      BY <3>1 DEF Types
  <2>2. MatchSnippetsToDocuments(p, d)
    BY <1>1 DEF Generate
  <2> HIDE DEF d
  <2>3. d \in BoundedSeq(SUBSET (Lines \ {Blank}), MaxDocuments)
    BY <2>1, BoundedSeqHas, ConstantsAssumption
  <2> QED
    BY <2>2, <2>3 DEF MatchNext
<1>2. CASE \/ \E s \in Servers, F \in SUBSET Files : CreateScreening(s, F)
           \/ SaveScreening \/ ScreeningNotSaved
           \/ \E f \in Files : FileFails(f)
           \/ \E s \in Servers : ClaimScreening(s)
  BY <1>2 DEF CreateScreening, SaveScreening, ScreeningNotSaved, FileFails, ClaimScreening
<1>3. CASE \/ CheckFiles \/ FilesRefused \/ EmbedContent \/ SearchDocuments \/ NoDocumentsFound
           \/ \E form \in Replies : ReplyNotUnderstood(form)
           \/ CallFails
  BY <1>3 DEF CheckFiles, FilesRefused, EmbedContent, SearchDocuments, NoDocumentsFound,
              ReplyNotUnderstood, CallFails, ScreeningFails
<1>4. CASE Match \/ SaveAnswer
  BY <1>4 DEF Match, SaveAnswer, MatchNext
<1>5. CASE UNCHANGED allVars
  BY <1>5 DEF allVars
<1> QED
  BY <1>1, <1>2, <1>3, <1>4, <1>5 DEF Next

LEMMA MatchedStep ==
  ASSUME Types, MatchInvariant, [Next]_allVars
  PROVE  MatchInvariant'
BY MatchNextStep, MatchNextKeeps

LEMMA FilesStep ==
  ASSUME Types, MatchInvariant, FilesKnown, [Next]_allVars
  PROVE  FilesKnown'
<1> USE DEF Types, FilesKnown, Stages, Claimed, Checked
<1>1. ASSUME NEW s \in Servers, NEW F \in SUBSET Files, CreateScreening(s, F)
      PROVE  FilesKnown'
  BY <1>1 DEF CreateScreening, matchVars
<1>2. CASE SaveScreening
  BY <1>2 DEF SaveScreening, matchVars
<1>3. CASE ScreeningNotSaved
  BY <1>3 DEF ScreeningNotSaved, Fault, matchVars
<1>4. ASSUME NEW f \in Files, FileFails(f)
      PROVE  FilesKnown'
  BY <1>4 DEF FileFails, matchVars
<1>5. ASSUME NEW s \in Servers, ClaimScreening(s)
      PROVE  FilesKnown'
  BY <1>5 DEF ClaimScreening, matchVars, FilesLoaded
<1>6. CASE CheckFiles
  BY <1>6 DEF CheckFiles, matchVars, ProcessedFiles
<1>7. CASE FilesRefused
  BY <1>7 DEF FilesRefused, ScreeningFails, matchVars
<1>8. CASE EmbedContent
  BY <1>8 DEF EmbedContent, matchVars
<1>9. CASE SearchDocuments
  BY <1>9, SearchFinds DEF SearchDocuments, matchVars
<1>10. CASE NoDocumentsFound
  BY <1>10 DEF NoDocumentsFound, ScreeningFails, matchVars
<1>11. ASSUME NEW form \in Replies, NEW p \in BoundedSeq(Snippets, MaxSnippets), Generate(form, p)
      PROVE  FilesKnown'
  BY <1>11 DEF Generate, MatchSnippetsToDocuments
<1>12. ASSUME NEW form \in Replies, ReplyNotUnderstood(form)
      PROVE  FilesKnown'
  BY <1>12 DEF ReplyNotUnderstood, ScreeningFails, matchVars
<1>13. CASE Match
  BY <1>13 DEF Match, answerVars, MatchStep, Sanitize, MatchDocument, Return
<1>14. CASE SaveAnswer
  BY <1>14 DEF SaveAnswer, MatchReturned
<1>15. CASE CallFails
  BY <1>15 DEF CallFails, ScreeningFails, Fault, matchVars
<1>16. CASE UNCHANGED allVars
  BY <1>16 DEF allVars, matchVars, answerVars
<1> QED
  BY <1>1, <1>2, <1>3, <1>4, <1>5, <1>6, <1>7, <1>8, <1>9, <1>10, <1>11, <1>12, <1>13,
     <1>14, <1>15, <1>16 DEF Next

LEMMA EvidenceStep ==
  ASSUME Types, MatchInvariant, FilesKnown, EvidenceOfItsFiles, [Next]_allVars
  PROVE  EvidenceOfItsFiles'
<1> USE DEF Types, FilesKnown, EvidenceOfItsFiles, Stages, Claimed
<1>1. ASSUME NEW s \in Servers, NEW F \in SUBSET Files, CreateScreening(s, F)
      PROVE  EvidenceOfItsFiles'
  BY <1>1 DEF CreateScreening, matchVars
<1>2. CASE SaveScreening
  BY <1>2 DEF SaveScreening, matchVars
<1>3. CASE ScreeningNotSaved
  BY <1>3 DEF ScreeningNotSaved, Fault, matchVars
<1>4. ASSUME NEW f \in Files, FileFails(f)
      PROVE  EvidenceOfItsFiles'
  BY <1>4 DEF FileFails, matchVars
<1>5. ASSUME NEW s \in Servers, ClaimScreening(s)
      PROVE  EvidenceOfItsFiles'
  BY <1>5 DEF ClaimScreening, matchVars
<1>6. CASE CheckFiles
  BY <1>6 DEF CheckFiles, matchVars
<1>7. CASE FilesRefused
  BY <1>7 DEF FilesRefused, ScreeningFails, matchVars
<1>8. CASE EmbedContent
  BY <1>8 DEF EmbedContent, matchVars
<1>9. CASE SearchDocuments
  BY <1>9 DEF SearchDocuments, matchVars
<1>10. CASE NoDocumentsFound
  BY <1>10 DEF NoDocumentsFound, ScreeningFails, matchVars
<1>11. ASSUME NEW form \in Replies, NEW p \in BoundedSeq(Snippets, MaxSnippets), Generate(form, p)
      PROVE  EvidenceOfItsFiles'
  BY <1>11 DEF Generate
<1>12. ASSUME NEW form \in Replies, ReplyNotUnderstood(form)
      PROVE  EvidenceOfItsFiles'
  BY <1>12 DEF ReplyNotUnderstood, ScreeningFails, matchVars
<1>13. CASE Match
  BY <1>13 DEF Match, answerVars
<1>14. CASE SaveAnswer
  BY <1>14, MatchedFound DEF SaveAnswer
<1>15. CASE CallFails
  BY <1>15 DEF CallFails, ScreeningFails, Fault, matchVars
<1>16. CASE UNCHANGED allVars
  BY <1>16 DEF allVars, matchVars, answerVars
<1> QED
  BY <1>1, <1>2, <1>3, <1>4, <1>5, <1>6, <1>7, <1>8, <1>9, <1>10, <1>11, <1>12, <1>13,
     <1>14, <1>15, <1>16 DEF Next

LEMMA FailsStep ==
  ASSUME Types, FilesKnown, FailsForReason, [Next]_allVars
  PROVE  FailsForReason'
<1> USE AnsweringAssumption DEF Types, FilesKnown, FailsForReason, Stages, Claimed, Checked
<1>1. ASSUME NEW s \in Servers, NEW F \in SUBSET Files, CreateScreening(s, F)
      PROVE  FailsForReason'
  BY <1>1 DEF CreateScreening, matchVars
<1>2. CASE SaveScreening
  BY <1>2 DEF SaveScreening, matchVars
<1>3. CASE ScreeningNotSaved
  BY <1>3 DEF ScreeningNotSaved, Fault, matchVars
<1>4. ASSUME NEW f \in Files, FileFails(f)
      PROVE  FailsForReason'
  BY <1>4 DEF FileFails, matchVars
<1>5. ASSUME NEW s \in Servers, ClaimScreening(s)
      PROVE  FailsForReason'
  BY <1>5 DEF ClaimScreening, matchVars
<1>6. CASE CheckFiles
  BY <1>6 DEF CheckFiles, matchVars
<1>7. CASE FilesRefused
  BY <1>7 DEF FilesRefused, ScreeningFails, matchVars, ProcessedFiles
<1>8. CASE EmbedContent
  BY <1>8 DEF EmbedContent, matchVars
<1>9. CASE SearchDocuments
  BY <1>9 DEF SearchDocuments, matchVars
<1>10. CASE NoDocumentsFound
  <2>1. server \in Servers /\ asked # {} /\ loaded = asked
    BY <1>10 DEF NoDocumentsFound
  <2>2. \A d \in Indexed(server) : FileOf[d] \notin asked
    <3>1. Candidates(server, asked) = {d \in Indexed(server) : FileOf[d] \in asked}
      BY <2>1, CandidatesOf
    <3>2. Candidates(server, asked) = {}
      BY <1>10, <2>1 DEF NoDocumentsFound
    <3> QED
      BY <3>1, <3>2
  <2>3. \A d \in Docs : FileOf[d] \in asked => d \in Indexed(server)
    BY <1>10 DEF NoDocumentsFound, Visible, Indexed
  <2> QED
    BY <1>10, <2>2, <2>3 DEF NoDocumentsFound, ScreeningFails, matchVars
<1>11. ASSUME NEW form \in Replies, NEW p \in BoundedSeq(Snippets, MaxSnippets), Generate(form, p)
      PROVE  FailsForReason'
  BY <1>11 DEF Generate
<1>12. ASSUME NEW form \in Replies, ReplyNotUnderstood(form)
      PROVE  FailsForReason'
  BY <1>12 DEF ReplyNotUnderstood, ScreeningFails, matchVars
<1>13. CASE Match
  BY <1>13 DEF Match, answerVars
<1>14. CASE SaveAnswer
  BY <1>14 DEF SaveAnswer
<1>15. CASE CallFails
  BY <1>15 DEF CallFails, ScreeningFails, Fault, matchVars
<1>16. CASE UNCHANGED allVars
  BY <1>16 DEF allVars, matchVars, answerVars
<1> QED
  BY <1>1, <1>2, <1>3, <1>4, <1>5, <1>6, <1>7, <1>8, <1>9, <1>10, <1>11, <1>12, <1>13,
     <1>14, <1>15, <1>16 DEF Next

LEMMA Inductive == InductiveInvariant /\ [Next]_allVars => InductiveInvariant'
BY TypesStep, MatchedStep, FilesStep, EvidenceStep, FailsStep DEF InductiveInvariant

LEMMA Initially == Init => InductiveInvariant
<1> SUFFICES ASSUME Init
             PROVE  InductiveInvariant
  OBVIOUS
<1>1. MatchInvariant
  BY MatchInitially DEF Init
<1>2. Types
  BY ConstantsAssumption, AnsweringAssumption DEF Init, Types, Stages, Replies
<1>3. FilesKnown /\ EvidenceOfItsFiles /\ FailsForReason
  BY DEF Init, FilesKnown, Claimed, Checked, Stages, EvidenceOfItsFiles, FailsForReason
<1> QED
  BY <1>1, <1>2, <1>3 DEF InductiveInvariant

LEMMA Holds == Spec => []InductiveInvariant
BY Initially, Inductive, PTL DEF Spec

(* The state is always one of the types. *)
THEOREM TypeCorrect == Spec => []TypeOK
<1>1. InductiveInvariant => TypeOK
  BY DEF InductiveInvariant, MatchInvariant, Types, TypeOK
<1> QED
  BY Holds, <1>1, PTL

(* Whichever server answers, the evidence is from the files of the screening. *)
THEOREM EvidenceCorrect == Spec => []EvidenceOfItsFiles
<1>1. InductiveInvariant => EvidenceOfItsFiles
  BY DEF InductiveInvariant
<1> QED
  BY Holds, <1>1, PTL

(* Only vectors of one embedder are compared. *)
THEOREM EmbedderCorrect == Spec => []SameEmbedder
<1>1. InductiveInvariant => SameEmbedder
  BY DEF InductiveInvariant, FilesKnown, SameEmbedder, Visible
<1> QED
  BY Holds, <1>1, PTL

(* No screening fails without one of the known reasons. *)
THEOREM FailuresCorrect == Spec => []FailsForReason
<1>1. InductiveInvariant => FailsForReason
  BY DEF InductiveInvariant
<1> QED
  BY Holds, <1>1, PTL

(* The evidence keeps the order of the search and names no document twice. *)
THEOREM OrderCorrect == Spec => []OrderKept
<1>1. InductiveInvariant => OrderKept
  BY DEF InductiveInvariant, MatchInvariant
<1> QED
  BY Holds, <1>1, PTL

(* Whatever the model says it has used, every document that an answer names has *)
(* used up a line of its own, which it contains.                             *)
THEOREM LinesCorrect == Spec => []OneLineEach
<1>1. InductiveInvariant => OneLineEach
  BY DEF InductiveInvariant, MatchInvariant
<1> QED
  BY Holds, <1>1, PTL

(* A document is left out of an answer only if none of the lines left over is   *)
(* in it.                                                                  *)
THEOREM NothingLost == Spec => []NoEvidenceLost
<1>1. InductiveInvariant => NoEvidenceLost
  BY DEF InductiveInvariant, MatchInvariant
<1> QED
  BY Holds, <1>1, PTL

(* Answering implements the matching that SnippetMatching specifies: whatever is *)
(* found is a call with at most MaxDocuments documents, and nothing but the     *)
(* matching itself moves it.                                                *)
THEOREM MatchingImplemented == Spec => MatchSpec
<1>1. Init => MatchInit
  BY DEF Init
<1>2. InductiveInvariant /\ [Next]_allVars => [MatchNext]_matchVars
  BY MatchNextStep DEF InductiveInvariant
<1> QED
  BY Holds, <1>1, <1>2, PTL DEF Spec, MatchSpec
===============================================================================

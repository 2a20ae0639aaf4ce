-------------------------- MODULE ScreeningReads_proofs --------------------------
(***************************************************************************)
(* Proofs about ScreeningReads: what a read of several statements shows of a  *)
(* completed screening, for any number of servers, screenings and questions.  *)
(***************************************************************************)
EXTENDS ScreeningReads, ScreeningProcessing_proofs

(* A screening that has not been deleted has its files and questions, one that  *)
(* has been deleted has none, saved again or not.                            *)
KeptLinked ==
  /\ \A c \in Screenings : status[c] # ABSENT /\ c \notin deleted => linked[c]
  /\ \A c \in deleted : ~linked[c]

(* Completed once, with its answers, and in nobody's hands. *)
WholeRow(c) ==
  /\ status[c] \in Terminal /\ linked[c] /\ answers[c] = QuestionCount[c]
  /\ \A s \in Servers : c \notin batch[s]

(* The read has begun with the row of a screening that is COMPLETED. *)
ReadsCompleted == statement # "idle" /\ shown.status = COMPLETED /\ reading \notin deleted

(* What a delete has left for the later statements is nothing: an item that is  *)
(* shown is shown whole, and with the items before it.                       *)
ShownTogether ==
  /\ shown.questions => shown.files
  /\ shown.answers # 0 => shown.questions /\ shown.answers = QuestionCount[reading]

(* What it has read since is of that screening as it was completed. *)
ShownWhole ==
  /\ statement \in {"idle", "files", "questions", "answers", "loaded"}
  /\ statement # "idle" => reading \in Screenings
  /\ shown \in [status : ScreeningStatus \cup {ABSENT}, files : BOOLEAN, questions : BOOLEAN,
                answers : Nat]
  /\ statement \in {"files", "questions"} => ~shown.questions /\ shown.answers = 0
  /\ ReadsCompleted =>
       /\ WholeRow(reading)
       /\ statement \in {"questions", "answers", "loaded"} => shown.files
       /\ statement \in {"answers", "loaded"} => shown.questions
       /\ statement = "loaded" => shown.answers = QuestionCount[reading]
  /\ statement # "idle" /\ shown.status = COMPLETED => ShownTogether

ReadsInvariant == InductiveInvariant /\ KeptLinked /\ ShownWhole

-------------------------------------------------------------------------------

LEMMA LinkedStep ==
  ASSUME InductiveInvariant, KeptLinked, [Next]_vars
  PROVE  KeptLinked'
<1> USE CurrentInBatch DEF InductiveInvariant, TypeOK, KeptLinked, HandsMatchPC, WritesApply, Busy
<1>1. ASSUME NEW c \in Screenings,
             BeginRequest(c) \/ CommitRequest(c) \/ AbortRequest(c) \/ DeleteScreening(c)
      PROVE  KeptLinked'
  <2>1. CASE BeginRequest(c)
    BY <2>1 DEF BeginRequest, rowVars, serverVars
  <2>2. CASE CommitRequest(c)
    BY <2>2 DEF CommitRequest, SaveScreenings, serverVars, ABSENT, REQUESTED,
       GENERATING, COMPLETED, FAILED, ClaimsExclusive
  <2>3. CASE AbortRequest(c)
    BY <2>3 DEF AbortRequest, rowVars, serverVars
  <2>4. CASE DeleteScreening(c)
    BY <2>4 DEF DeleteScreening, serverVars, ABSENT, REQUESTED, GENERATING, COMPLETED,
       FAILED, ClaimsExclusive
  <2> QED
    BY <1>1, <2>1, <2>2, <2>3, <2>4
<1>2. ASSUME NEW s \in Servers, ServerStep(s)
      PROVE  KeptLinked'
  <2>1. CASE CountGenerating(s)
    BY <2>1 DEF CountGenerating, dbVars, rowVars
  <2>2. CASE ListRequested(s)
    BY <2>2 DEF ListRequested, dbVars, rowVars
  <2>3. CASE ClaimCommit(s)
    BY <2>3 DEF ClaimCommit, SaveScreenings, ABSENT, REQUESTED, GENERATING, COMPLETED,
       FAILED, ClaimsExclusive
  <2>4. CASE ClaimRollback(s)
    BY <2>4 DEF ClaimRollback, BackToIdle, dbVars, rowVars
  <2>5. CASE StartScreening(s)
    BY <2>5 DEF StartScreening, dbVars, rowVars
  <2>6. CASE AnswerQuestion(s)
    BY <2>6 DEF AnswerQuestion, rowVars
  <2>7. CASE AnswerError(s)
    BY <2>7 DEF AnswerError, rowVars
  <2>8. CASE BeginSuccess(s)
    BY <2>8 DEF BeginSuccess, dbVars, rowVars
  <2>9. CASE CommitSuccess(s)
    BY <2>9 DEF CommitSuccess, SaveCompleted, SaveScreenings, NextScreening, ABSENT,
       REQUESTED, GENERATING, COMPLETED, FAILED, ClaimsExclusive
  <2>10. CASE SuccessRollback(s)
    BY <2>10 DEF SuccessRollback, dbVars, rowVars
  <2>11. CASE RecordFailure(s)
    BY <2>11 DEF RecordFailure, SaveCompleted, SaveScreenings, NextScreening, ABSENT,
       REQUESTED, GENERATING, COMPLETED, FAILED, ClaimsExclusive
  <2>12. CASE FailureNotRecorded(s)
    BY <2>12 DEF FailureNotRecorded, NextScreening, dbVars, rowVars
  <2>13. CASE ListStale(s)
    BY <2>13 DEF ListStale, dbVars, rowVars
  <2>14. CASE FailStale(s)
    BY <2>14 DEF FailStale, SaveCompleted, SaveScreenings, BackToIdle, ABSENT,
       REQUESTED, GENERATING, COMPLETED, FAILED, ClaimsExclusive
  <2>15. CASE SweepRollback(s)
    BY <2>15 DEF SweepRollback, BackToIdle, dbVars, rowVars
  <2> QED
    BY <1>2, <2>1, <2>2, <2>3, <2>4, <2>5, <2>6, <2>7, <2>8, <2>9, <2>10, <2>11, <2>12,
       <2>13, <2>14, <2>15 DEF ServerStep
<1>3. ASSUME NEW s \in Servers, Crash(s)
      PROVE  KeptLinked'
  BY <1>3 DEF Crash, BackToIdle, dbVars, rowVars
<1>4. CASE Tick
  BY <1>4 DEF Tick, dbVars, rowVars
<1>5. CASE UNCHANGED vars
  BY <1>5 DEF vars, dbVars, rowVars, serverVars
<1> QED
  BY <1>1, <1>2, <1>3, <1>4, <1>5 DEF Next

(* A read changes no row and no state of a server. *)
LEMMA ReadsWriteNothing == [ReadsNext]_allVars => [Next]_vars
BY DEF ReadsNext, ReadStep, FindScreening, ListScreenings, SelectRow, SelectFiles,
       SelectQuestions, SelectAnswers, Respond, ReadFails, EndRead, allVars, vars

(* A completed screening stays whole until it is deleted. *)
LEMMA WholeStays ==
  ASSUME InductiveInvariant, NEW d \in Screenings, WholeRow(d), [Next]_vars
  PROVE  WholeRow(d)' \/ d \in deleted'
<1> USE CurrentInBatch DEF InductiveInvariant, TypeOK, WholeRow, HandsMatchPC, ClaimsExclusive, Busy, Terminal
<1>1. ASSUME NEW c \in Screenings,
             BeginRequest(c) \/ CommitRequest(c) \/ AbortRequest(c) \/ DeleteScreening(c)
      PROVE  WholeRow(d)' \/ d \in deleted'
  <2>1. CASE BeginRequest(c)
    BY <2>1 DEF BeginRequest, rowVars, serverVars
  <2>2. CASE CommitRequest(c)
    BY <2>2 DEF CommitRequest, SaveScreenings, serverVars, ABSENT, REQUESTED,
       GENERATING, COMPLETED, FAILED, WritesApply
  <2>3. CASE AbortRequest(c)
    BY <2>3 DEF AbortRequest, rowVars, serverVars
  <2>4. CASE DeleteScreening(c)
    BY <2>4 DEF DeleteScreening, serverVars, ABSENT, REQUESTED, GENERATING, COMPLETED,
       FAILED, WritesApply
  <2> QED
    BY <1>1, <2>1, <2>2, <2>3, <2>4
<1>2. ASSUME NEW s \in Servers, ServerStep(s)
      PROVE  WholeRow(d)' \/ d \in deleted'
  <2>1. CASE CountGenerating(s)
    BY <2>1 DEF CountGenerating, dbVars, rowVars
  <2>2. CASE ListRequested(s)
    BY <2>2, OldestLockable DEF ListRequested, dbVars, rowVars, ABSENT, REQUESTED,
       GENERATING, COMPLETED, FAILED, WritesApply
  <2>3. CASE ClaimCommit(s)
    BY <2>3 DEF ClaimCommit, SaveScreenings, ABSENT, REQUESTED, GENERATING, COMPLETED,
       FAILED, WritesApply
  <2>4. CASE ClaimRollback(s)
    BY <2>4 DEF ClaimRollback, BackToIdle, dbVars, rowVars
  <2>5. CASE StartScreening(s)
    BY <2>5 DEF StartScreening, dbVars, rowVars
  <2>6. CASE AnswerQuestion(s)
    BY <2>6 DEF AnswerQuestion, rowVars
  <2>7. CASE AnswerError(s)
    BY <2>7 DEF AnswerError, rowVars
  <2>8. CASE BeginSuccess(s)
    BY <2>8 DEF BeginSuccess, dbVars, rowVars
  <2>9. CASE CommitSuccess(s)
    BY <2>9 DEF CommitSuccess, SaveCompleted, SaveScreenings, NextScreening, ABSENT,
       REQUESTED, GENERATING, COMPLETED, FAILED, WritesApply
  <2>10. CASE SuccessRollback(s)
    BY <2>10 DEF SuccessRollback, dbVars, rowVars
  <2>11. CASE RecordFailure(s)
    BY <2>11 DEF RecordFailure, SaveCompleted, SaveScreenings, NextScreening, ABSENT,
       REQUESTED, GENERATING, COMPLETED, FAILED, WritesApply
  <2>12. CASE FailureNotRecorded(s)
    BY <2>12 DEF FailureNotRecorded, NextScreening, dbVars, rowVars
  <2>13. CASE ListStale(s)
    BY <2>13 DEF ListStale, dbVars, rowVars
  <2>14. CASE FailStale(s)
    BY <2>14 DEF FailStale, SaveCompleted, SaveScreenings, BackToIdle, ABSENT,
       REQUESTED, GENERATING, COMPLETED, FAILED, WritesApply
  <2>15. CASE SweepRollback(s)
    BY <2>15 DEF SweepRollback, BackToIdle, dbVars, rowVars
  <2> QED
    BY <1>2, <2>1, <2>2, <2>3, <2>4, <2>5, <2>6, <2>7, <2>8, <2>9, <2>10, <2>11, <2>12,
       <2>13, <2>14, <2>15 DEF ServerStep
<1>3. ASSUME NEW s \in Servers, Crash(s)
      PROVE  WholeRow(d)' \/ d \in deleted'
  BY <1>3 DEF Crash, BackToIdle, dbVars, rowVars
<1>4. CASE Tick
  BY <1>4 DEF Tick, dbVars, rowVars
<1>5. CASE UNCHANGED vars
  BY <1>5 DEF vars, dbVars, rowVars, serverVars
<1> QED
  BY <1>1, <1>2, <1>3, <1>4, <1>5 DEF Next

LEMMA DeletedGrows ==
  ASSUME [Next]_vars
  PROVE  deleted \subseteq deleted'
<1>1. ASSUME NEW s \in Servers, ServerStep(s)
      PROVE  deleted \subseteq deleted'
  BY <1>1
     DEF ServerStep, CountGenerating, ListRequested, ClaimCommit, ClaimRollback, StartScreening,
         AnswerQuestion, AnswerError, BeginSuccess, CommitSuccess, SuccessRollback,
         RecordFailure, FailureNotRecorded, ListStale, FailStale, SweepRollback, SaveCompleted,
         dbVars
<1> QED
  BY <1>1
     DEF Next, BeginRequest, CommitRequest, AbortRequest, DeleteScreening, Crash, Tick, vars,
         dbVars

(* A step of the servers or of another request, while the read waits. *)
LEMMA MeanwhileStep ==
  ASSUME ReadsInvariant, [Next]_vars, UNCHANGED readVars
  PROVE  ShownWhole'
<1>1. UNCHANGED <<statement, reading, shown>>
  BY DEF readVars
<1> USE DEF ShownTogether
<1>2. ReadsCompleted' => ReadsCompleted
  BY <1>1, DeletedGrows DEF ReadsCompleted
<1>3. ASSUME ReadsCompleted'
      PROVE  WholeRow(reading)'
  <2>1. PICK e \in Screenings : e = reading
    BY <1>2, <1>3 DEF ReadsInvariant, ShownWhole, ReadsCompleted
  <2>2. WholeRow(e)
    BY <1>2, <1>3, <2>1 DEF ReadsInvariant, ShownWhole
  <2>3. WholeRow(e)' \/ e \in deleted'
    BY <2>2, WholeStays DEF ReadsInvariant
  <2>4. e = reading' /\ e \notin deleted'
    BY <1>1, <1>3, <2>1 DEF ReadsCompleted
  <2> QED
    BY <2>3, <2>4 DEF WholeRow
<1> QED
  BY <1>1, <1>2, <1>3 DEF ReadsInvariant, ShownWhole

(* A step of the read. *)
LEMMA ReadingStep ==
  ASSUME ReadsInvariant, ReadStep
  PROVE  ShownWhole'
<1> USE DEF ReadsInvariant, ShownWhole, ReadsCompleted, ShownTogether
<1>1. ASSUME NEW c \in Screenings, status[c] # ABSENT, SelectRow(c)
      PROVE  ShownWhole'
  <2>1. status[c] = COMPLETED /\ c \notin deleted => WholeRow(c)
    BY <1>1 DEF WholeRow, InductiveInvariant, KeptLinked, CompletedIsAnswered, WritesApply, Terminal
  <2>2. /\ statement' = "files" /\ reading' = c /\ shown' = [Nothing EXCEPT !.status = status[c]]
        /\ UNCHANGED vars /\ status[c] \in ScreeningStatus \cup {ABSENT}
    BY <1>1 DEF SelectRow, InductiveInvariant, TypeOK
  <2> QED
    BY <2>1, <2>2 DEF Nothing, WholeRow, vars, dbVars, rowVars, serverVars
<1>0. statement # "idle" /\ reading \in deleted => ~linked[reading] /\ answers[reading] = 0
  BY DEF KeptLinked, InductiveInvariant, RowsAgree
<1>2. CASE SelectFiles
  <2>1. /\ statement = "files" /\ statement' = "questions"
        /\ shown' = [shown EXCEPT !.files = linked[reading]]
        /\ UNCHANGED reading /\ UNCHANGED vars /\ reading \in Screenings
        /\ linked[reading] \in BOOLEAN
    BY <1>2 DEF SelectFiles, InductiveInvariant, TypeOK
  <2>2. WholeRow(reading)' <=> WholeRow(reading)
    BY <2>1 DEF WholeRow, vars, dbVars, rowVars, serverVars
  <2>3. /\ UNCHANGED deleted
        /\ shown'.status = shown.status /\ shown'.files = linked[reading]
        /\ shown'.answers = 0 /\ ~shown'.questions
        /\ shown' \in [status : ScreeningStatus \cup {ABSENT}, files : BOOLEAN,
                       questions : BOOLEAN, answers : Nat]
    BY <2>1 DEF vars, dbVars
  <2>4. ReadsCompleted' => ReadsCompleted /\ linked[reading]
    BY <2>1, <2>3 DEF WholeRow
  <2> QED
    BY <2>1, <2>2, <2>3, <2>4
<1>3. CASE SelectQuestions
  <2>1. /\ statement = "questions" /\ statement' \in {"answers", "loaded"}
        /\ statement' = "loaded" <=> ~linked[reading]
        /\ shown' = [shown EXCEPT !.questions = linked[reading]]
        /\ UNCHANGED reading /\ UNCHANGED vars /\ reading \in Screenings
        /\ linked[reading] \in BOOLEAN
    BY <1>3 DEF SelectQuestions, InductiveInvariant, TypeOK
  <2>2. ReadsCompleted => WholeRow(reading) /\ shown.files
    BY <2>1
  <2>3. WholeRow(reading)' <=> WholeRow(reading)
    BY <2>1 DEF WholeRow, vars, dbVars, rowVars, serverVars
  <2>4. /\ UNCHANGED deleted
        /\ shown'.status = shown.status /\ shown'.files = shown.files
        /\ shown'.answers = shown.answers /\ shown'.questions = linked[reading]
        /\ shown' \in [status : ScreeningStatus \cup {ABSENT}, files : BOOLEAN,
                       questions : BOOLEAN, answers : Nat]
    BY <2>1 DEF vars, dbVars
  <2>5. statement' # "idle" /\ shown'.status = COMPLETED => ShownTogether'
    BY <1>0, <2>1, <2>2, <2>4
  <2>6. ReadsCompleted' => ReadsCompleted /\ linked[reading]
    BY <2>1, <2>2, <2>4 DEF WholeRow
  <2> QED
    BY <2>1, <2>2, <2>3, <2>4, <2>5, <2>6
<1>4. CASE SelectAnswers
  <2>1. /\ statement = "answers" /\ statement' = "loaded"
        /\ shown' = [shown EXCEPT !.answers = answers[reading]]
        /\ UNCHANGED reading /\ UNCHANGED vars /\ reading \in Screenings
        /\ answers[reading] \in Nat
    BY <1>4 DEF SelectAnswers, InductiveInvariant, TypeOK
  <2>2. ReadsCompleted => WholeRow(reading) /\ shown.files /\ shown.questions
    BY <2>1
  <2>3. WholeRow(reading)' <=> WholeRow(reading)
    BY <2>1 DEF WholeRow, vars, dbVars, rowVars, serverVars
  <2>4. /\ UNCHANGED deleted
        /\ shown'.status = shown.status /\ shown'.files = shown.files
        /\ shown'.questions = shown.questions /\ shown'.answers = answers[reading]
        /\ shown' \in [status : ScreeningStatus \cup {ABSENT}, files : BOOLEAN,
                       questions : BOOLEAN, answers : Nat]
    BY <2>1 DEF vars, dbVars
  <2>5. statement' # "idle" /\ shown'.status = COMPLETED => ShownTogether'
    BY <1>0, <2>1, <2>2, <2>4 DEF WholeRow
  <2>6. ReadsCompleted' => ReadsCompleted /\ answers[reading] = QuestionCount[reading]
    BY <2>1, <2>2, <2>4 DEF WholeRow
  <2> QED
    BY <2>1, <2>2, <2>3, <2>4, <2>5, <2>6
<1>5. CASE EndRead
  BY <1>5 DEF EndRead, Nothing
<1> QED
  BY <1>1, <1>2, <1>3, <1>4, <1>5
     DEF ReadStep, FindScreening, ListScreenings, Found, Newest, Respond, ReadFails

(* A client that is shown COMPLETED is shown all of the screening, although the *)
(* read sees what is committed between its statements; and of a screening that *)
(* is deleted meanwhile it is shown a beginning, with all answers or with none. *)
THEOREM ShownCorrect == ReadsSpec => []ShownWholeOrDeleted
<1>1. ReadsInit => ReadsInvariant
  <2>1. Init => InductiveInvariant
    BY InductiveInit
  <2> QED
    BY <2>1 DEF ReadsInit, ReadsInvariant, Init, KeptLinked, ShownWhole, ReadsCompleted, Nothing
<1>2. ReadsInvariant /\ [ReadsNext]_allVars => ReadsInvariant'
  <2> SUFFICES ASSUME ReadsInvariant, [ReadsNext]_allVars
               PROVE  ReadsInvariant'
    OBVIOUS
  <2>1. [Next]_vars
    BY ReadsWriteNothing
  <2>2. InductiveInvariant' /\ KeptLinked'
    BY <2>1, InductiveStep, LinkedStep DEF ReadsInvariant
  <2>3. ShownWhole'
    BY <2>1, MeanwhileStep, ReadingStep DEF ReadsNext, allVars
  <2> QED
    BY <2>2, <2>3 DEF ReadsInvariant
<1>3. ReadsInvariant => ShownWholeOrDeleted
  BY ConstantsAssumption
     DEF ReadsInvariant, ShownWhole, ReadsCompleted, ShownTogether, ShownWholeOrDeleted
<1> QED
  BY <1>1, <1>2, <1>3, PTL DEF ReadsSpec

(* What is read has the type of what is stored: a status from the row's own,   *)
(* a number of answers, and a screening of the table.                        *)
LEMMA ReadsTypeStep ==
  ASSUME ReadsTypeOK, TypeOK', ReadsNext \/ UNCHANGED allVars
  PROVE  ReadsTypeOK'
<1> USE DEF ReadsTypeOK, TypeOK
<1>1. Min(Screenings) \in Screenings
  BY MinInSet, ConstantsAssumption, ReadsAssumption
<1>2. Nothing \in [status : {ABSENT}, files : BOOLEAN, questions : BOOLEAN, answers : Nat]
  BY DEF Nothing
<1>3. ASSUME NEW c \in Found, SelectRow(c)
      PROVE  ReadsTypeOK'
  <2>1. c \in Screenings /\ status[c] \in ScreeningStatus
    BY DEF Found
  <2> QED
    BY <1>3, <2>1 DEF SelectRow, Nothing
<1>4. CASE SelectFiles
  BY <1>4 DEF SelectFiles
<1>5. CASE SelectQuestions
  BY <1>5 DEF SelectQuestions
<1>6. CASE SelectAnswers
  BY <1>6 DEF SelectAnswers
<1>7. CASE EndRead
  BY <1>1, <1>2, <1>7 DEF EndRead
<1>8. CASE UNCHANGED readVars
  BY <1>8 DEF readVars
<1> QED
  BY <1>3, <1>4, <1>5, <1>6, <1>7, <1>8
     DEF ReadsNext, ReadStep, FindScreening, ListScreenings, Found, Newest, Respond,
         ReadFails, allVars

THEOREM ReadsTypeCorrect == ReadsSpec => []ReadsTypeOK
<1>1. ReadsInit => ReadsTypeOK
  <2>1. Min(Screenings) \in Screenings
    BY MinInSet, ConstantsAssumption, ReadsAssumption
  <2>2. Init => TypeOK
    BY ControlInit DEF ControlInvariant
  <2> QED
    BY <2>1, <2>2 DEF ReadsInit, ReadsTypeOK, Nothing
<1>2. ReadsTypeOK /\ [ReadsNext]_allVars => ReadsTypeOK'
  <2> SUFFICES ASSUME ReadsTypeOK, [ReadsNext]_allVars
               PROVE  ReadsTypeOK'
    OBVIOUS
  <2>1. [Next]_vars
    BY ReadsWriteNothing
  <2>2. TypeOK'
    BY <2>1, TypeStep DEF ReadsTypeOK
  <2> QED
    BY <2>2, ReadsTypeStep
<1> QED
  BY <1>1, <1>2, PTL DEF ReadsSpec

(* With reads the pipeline implements the pipeline without: what is proved of   *)
(* it holds of a system that is read, the queue it promises included.         *)
THEOREM ReadsImplementPipeline == ReadsSpec => Spec /\ Queue!SafeSpec
<1>1. ReadsInit => Init
  BY DEF ReadsInit
<1> QED
  BY <1>1, ReadsWriteNothing, QueueImplemented, PTL DEF ReadsSpec, Spec
===============================================================================

----------------------- MODULE ScreeningProcessing_proofs -----------------------
(***************************************************************************)
(* Proofs about ScreeningProcessing for any number of servers, screenings   *)
(* and questions: the inductive invariant and what follows from it.         *)
(***************************************************************************)
EXTENDS ScreeningProcessing, CountingTheorems, FiniteSetTheorems, TLAPS

(* The loop over a batch always finds its next screening. *)
LEMMA CurrentInBatch ==
  ASSUME TypeOK, NEW s \in Servers, batch[s] # {}
  PROVE  Current(s) \in batch[s] /\ Current(s) \in Screenings
<1>1. batch[s] \in SUBSET Nat
  BY ConstantsAssumption DEF TypeOK
<1> QED
  BY <1>1, MinInSet DEF TypeOK, Current

(* The number of workers available never exceeds maxConcurrentScreenings. *)
LEMMA WorkersAvailableType ==
  WorkersAvailable(Cardinality(ListGenerating)) \in 0..MaxConcurrent
<1>1. Cardinality(ListGenerating) \in Nat
  <2>1. ListGenerating \in SUBSET Screenings
    BY DEF ListGenerating, Newest, WithStatus
  <2> QED
    BY <2>1, FS_Subset, FS_CardinalityType, ConstantsAssumption
<1> QED
  BY <1>1, ConstantsAssumption DEF WorkersAvailable

(* A claim takes requested rows, and none while another claim is open. *)
LEMMA OldestLockable ==
  ASSUME NEW n
  PROVE  /\ Oldest(Lockable, n) \subseteq {c \in Screenings : status[c] = REQUESTED}
         /\ Oldest(Lockable, n) # {} => ~ClaimOpen
BY DEF Oldest, Lockable, WithStatus

LEMMA StaleGenerating ==
  StaleScreenings \subseteq {c \in Screenings : status[c] = GENERATING}
BY DEF StaleScreenings, Newest, WithStatus

-------------------------------------------------------------------------------

(* Every step keeps the type invariant. *)
LEMMA TypeStep ==
  ASSUME TypeOK, [Next]_vars
  PROVE  TypeOK'
<1> USE ConstantsAssumption DEF TypeOK, ScreeningStatus, Terminal, StaleAge
<1>1. ASSUME NEW c \in Screenings,
             BeginRequest(c) \/ CommitRequest(c) \/ AbortRequest(c) \/ DeleteScreening(c)
      PROVE  TypeOK'
  <2>1. CASE BeginRequest(c)
    BY <2>1 DEF BeginRequest, rowVars, serverVars
  <2>2. CASE CommitRequest(c)
    BY <2>2 DEF CommitRequest, SaveScreenings, serverVars
  <2>3. CASE AbortRequest(c)
    BY <2>3 DEF AbortRequest, rowVars, serverVars, Fault
  <2>4. CASE DeleteScreening(c)
    BY <2>4 DEF DeleteScreening, serverVars
  <2> QED
    BY <1>1, <2>1, <2>2, <2>3, <2>4
<1>2. ASSUME NEW s \in Servers, ServerStep(s)
      PROVE  TypeOK'
  <2>1. CASE CountGenerating(s)
    BY <2>1, WorkersAvailableType DEF CountGenerating, dbVars, rowVars
  <2>2. CASE ListRequested(s)
    BY <2>2, OldestLockable DEF ListRequested, dbVars, rowVars
  <2>3. CASE ClaimCommit(s)
    BY <2>3 DEF ClaimCommit, SaveScreenings, REQUESTED, GENERATING
  <2>4. CASE ClaimRollback(s)
    BY <2>4 DEF ClaimRollback, BackToIdle, dbVars, rowVars, Fault
  <2>5. CASE StartScreening(s)
    BY <2>5 DEF StartScreening, dbVars, rowVars
  <2>6. CASE AnswerQuestion(s)
    <3>1. answers' \in [Screenings -> Nat]
      <4>1. \A c \in Screenings : answers[c] + 1 \in Nat
        OBVIOUS
      <4> QED
        BY <2>6, <4>1 DEF AnswerQuestion
    <3>2. done' \in [Servers -> Nat]
      BY <2>6 DEF AnswerQuestion
    <3> QED
      BY <2>6, <3>1, <3>2 DEF AnswerQuestion, rowVars
  <2>7. CASE AnswerError(s)
    <3>1. answers' \in [Screenings -> Nat]
      <4>1. \A c \in Screenings : answers[c] + 1 \in Nat
        OBVIOUS
      <4> QED
        BY <2>7, <4>1 DEF AnswerError
    <3> QED
      BY <2>7, <3>1 DEF AnswerError, rowVars
  <2>8. CASE BeginSuccess(s)
    BY <2>8 DEF BeginSuccess, dbVars, rowVars
  <2>9. CASE CommitSuccess(s)
    BY <2>9 DEF CommitSuccess, SaveCompleted, SaveScreenings, NextScreening
  <2>10. CASE SuccessRollback(s)
    BY <2>10 DEF SuccessRollback, dbVars, rowVars, Fault
  <2>11. CASE RecordFailure(s)
    BY <2>11 DEF RecordFailure, SaveCompleted, SaveScreenings, NextScreening
  <2>12. CASE FailureNotRecorded(s)
    BY <2>12 DEF FailureNotRecorded, NextScreening, dbVars, rowVars, Fault
  <2>13. CASE ListStale(s)
    BY <2>13, StaleGenerating DEF ListStale, dbVars, rowVars
  <2>14. CASE FailStale(s)
    BY <2>14 DEF FailStale, SaveCompleted, SaveScreenings, BackToIdle
  <2>15. CASE SweepRollback(s)
    BY <2>15 DEF SweepRollback, BackToIdle, dbVars, rowVars, Fault
  <2> QED
    BY <1>2, <2>1, <2>2, <2>3, <2>4, <2>5, <2>6, <2>7, <2>8, <2>9, <2>10, <2>11, <2>12,
       <2>13, <2>14, <2>15 DEF ServerStep
<1>3. ASSUME NEW s \in Servers, Crash(s)
      PROVE  TypeOK'
  BY <1>3 DEF Crash, BackToIdle, dbVars, rowVars, Fault
<1>4. CASE Tick
  BY <1>4 DEF Tick, dbVars, rowVars
<1>5. CASE UNCHANGED vars
  BY <1>5 DEF vars, dbVars, rowVars, serverVars
<1> QED
  BY <1>1, <1>2, <1>3, <1>4, <1>5 DEF Next

(* Type correctness of the pipeline. *)
THEOREM TypeCorrect == Spec => []TypeOK
<1>1. Init => TypeOK
  BY ConstantsAssumption DEF Init, TypeOK, ScreeningStatus, StaleAge
<1>2. TypeOK /\ [Next]_vars => TypeOK'
  BY TypeStep
<1> QED
  BY <1>1, <1>2, PTL DEF Spec

-------------------------------------------------------------------------------
(* The control part of the inductive invariant, and the steps of its proof. *)
ControlInvariant ==
  /\ TypeOK
  /\ ClaimsExclusive
  /\ DeletedNeverRuns
  /\ HandsMatchPC
  /\ WritesApply

LEMMA HandsStep ==
  ASSUME TypeOK, HandsMatchPC, [Next]_vars
  PROVE  HandsMatchPC'
<1> USE DEF TypeOK, HandsMatchPC, Busy
<1>1. ASSUME NEW c \in Screenings,
             BeginRequest(c) \/ CommitRequest(c) \/ AbortRequest(c) \/ DeleteScreening(c)
      PROVE  HandsMatchPC'
  <2>1. CASE BeginRequest(c)
    BY <2>1 DEF BeginRequest, rowVars, serverVars
  <2>2. CASE CommitRequest(c)
    BY <2>2 DEF CommitRequest, SaveScreenings, serverVars
  <2>3. CASE AbortRequest(c)
    BY <2>3 DEF AbortRequest, rowVars, serverVars
  <2>4. CASE DeleteScreening(c)
    BY <2>4 DEF DeleteScreening, serverVars
  <2> QED
    BY <1>1, <2>1, <2>2, <2>3, <2>4
<1>2. ASSUME NEW s \in Servers, ServerStep(s)
      PROVE  HandsMatchPC'
  <2>1. CASE CountGenerating(s)
    BY <2>1 DEF CountGenerating, dbVars, rowVars
  <2>2. CASE ListRequested(s)
    BY <2>2 DEF ListRequested, dbVars, rowVars
  <2>3. CASE ClaimCommit(s)
    BY <2>3 DEF ClaimCommit, SaveScreenings
  <2>4. CASE ClaimRollback(s)
    BY <2>4 DEF ClaimRollback, BackToIdle, dbVars, rowVars
  <2>5. CASE StartScreening(s)
    BY <2>5 DEF StartScreening, dbVars, rowVars
  <2>6. CASE AnswerQuestion(s)
    BY <2>6 DEF AnswerQuestion, rowVars
  <2>7. CASE AnswerError(s)
    BY <2>7 DEF AnswerError, rowVars
  <2>8. CASE BeginSuccess(s)
    BY <2>8 DEF BeginSuccess, dbVars, rowVars
  <2>9. CASE CommitSuccess(s)
    BY <2>9 DEF CommitSuccess, SaveCompleted, SaveScreenings, NextScreening
  <2>10. CASE SuccessRollback(s)
    BY <2>10 DEF SuccessRollback, dbVars, rowVars
  <2>11. CASE RecordFailure(s)
    BY <2>11 DEF RecordFailure, SaveCompleted, SaveScreenings, NextScreening
  <2>12. CASE FailureNotRecorded(s)
    BY <2>12 DEF FailureNotRecorded, NextScreening, dbVars, rowVars
  <2>13. CASE ListStale(s)
    BY <2>13 DEF ListStale, dbVars, rowVars
  <2>14. CASE FailStale(s)
    BY <2>14 DEF FailStale, SaveCompleted, SaveScreenings, BackToIdle
  <2>15. CASE SweepRollback(s)
    BY <2>15 DEF SweepRollback, BackToIdle, dbVars, rowVars
  <2> QED
    BY <1>2, <2>1, <2>2, <2>3, <2>4, <2>5, <2>6, <2>7, <2>8, <2>9, <2>10, <2>11, <2>12,
       <2>13, <2>14, <2>15 DEF ServerStep
<1>3. ASSUME NEW s \in Servers, Crash(s)
      PROVE  HandsMatchPC'
  BY <1>3 DEF Crash, BackToIdle, dbVars, rowVars
<1>4. CASE Tick
  BY <1>4 DEF Tick, dbVars, rowVars
<1>5. CASE UNCHANGED vars
  BY <1>5 DEF vars, dbVars, rowVars, serverVars
<1> QED
  BY <1>1, <1>2, <1>3, <1>4, <1>5 DEF Next

(* How a row moves, whatever it raced with. *)
RowMoves(c) ==
  \/ status'[c] = status[c]
  \/ status[c] = ABSENT /\ c \notin deleted /\ status'[c] = REQUESTED
  \/ status[c] = REQUESTED /\ status'[c] = GENERATING
  \/ status[c] \in {GENERATING} \cup Terminal /\ status'[c] \in Terminal
  \/ status[c] \in Terminal /\ status'[c] = ABSENT /\ c \in deleted'
  \/ status[c] = ABSENT /\ c \in deleted /\ status'[c] \in Terminal

LEMMA RowsMove ==
  ASSUME ControlInvariant, [Next]_vars
  PROVE  \A d \in Screenings : RowMoves(d)
<1> SUFFICES ASSUME NEW d \in Screenings
             PROVE  RowMoves(d)
  OBVIOUS
<1> USE DEF ControlInvariant, TypeOK, ScreeningStatus, ClaimsExclusive, HandsMatchPC, WritesApply,
           Busy, RowMoves, Terminal
<1>1. ASSUME NEW c \in Screenings,
             BeginRequest(c) \/ CommitRequest(c) \/ AbortRequest(c) \/ DeleteScreening(c)
      PROVE  RowMoves(d)
  <2>1. CASE BeginRequest(c)
    BY <2>1 DEF BeginRequest, rowVars, serverVars
  <2>2. CASE CommitRequest(c)
    BY <2>2 DEF CommitRequest, SaveScreenings, serverVars
  <2>3. CASE AbortRequest(c)
    BY <2>3 DEF AbortRequest, rowVars, serverVars
  <2>4. CASE DeleteScreening(c)
    BY <2>4 DEF DeleteScreening, serverVars, Deletable
  <2> QED
    BY <1>1, <2>1, <2>2, <2>3, <2>4
<1>2. ASSUME NEW s \in Servers, ServerStep(s)
      PROVE  RowMoves(d)
  <2>1. CASE CountGenerating(s)
    BY <2>1 DEF CountGenerating, dbVars, rowVars
  <2>2. CASE ListRequested(s)
    BY <2>2 DEF ListRequested, dbVars, rowVars
  <2>3. CASE ClaimCommit(s)
    BY <2>3 DEF ClaimCommit, SaveScreenings
  <2>4. CASE ClaimRollback(s)
    BY <2>4 DEF ClaimRollback, BackToIdle, dbVars, rowVars
  <2>5. CASE StartScreening(s)
    BY <2>5 DEF StartScreening, dbVars, rowVars
  <2>6. CASE AnswerQuestion(s)
    BY <2>6 DEF AnswerQuestion, rowVars
  <2>7. CASE AnswerError(s)
    BY <2>7 DEF AnswerError, rowVars
  <2>8. CASE BeginSuccess(s)
    BY <2>8 DEF BeginSuccess, dbVars, rowVars
  <2>9. CASE CommitSuccess(s)
    BY <2>9, CurrentInBatch DEF CommitSuccess, SaveCompleted, SaveScreenings,
       NextScreening
  <2>10. CASE SuccessRollback(s)
    BY <2>10 DEF SuccessRollback, dbVars, rowVars
  <2>11. CASE RecordFailure(s)
    BY <2>11, CurrentInBatch DEF RecordFailure, SaveCompleted, SaveScreenings,
       NextScreening
  <2>12. CASE FailureNotRecorded(s)
    BY <2>12 DEF FailureNotRecorded, NextScreening, dbVars, rowVars
  <2>13. CASE ListStale(s)
    BY <2>13 DEF ListStale, dbVars, rowVars
  <2>14. CASE FailStale(s)
    BY <2>14 DEF FailStale, SaveCompleted, SaveScreenings, BackToIdle
  <2>15. CASE SweepRollback(s)
    BY <2>15 DEF SweepRollback, BackToIdle, dbVars, rowVars
  <2> QED
    BY <1>2, <2>1, <2>2, <2>3, <2>4, <2>5, <2>6, <2>7, <2>8, <2>9, <2>10, <2>11, <2>12,
       <2>13, <2>14, <2>15 DEF ServerStep
<1>3. ASSUME NEW s \in Servers, Crash(s)
      PROVE  RowMoves(d)
  BY <1>3 DEF Crash, BackToIdle, dbVars, rowVars
<1>4. CASE Tick
  BY <1>4 DEF Tick, dbVars, rowVars
<1>5. CASE UNCHANGED vars
  BY <1>5 DEF vars, dbVars, rowVars, serverVars
<1> QED
  BY <1>1, <1>2, <1>3, <1>4, <1>5 DEF Next

LEMMA DeletedStep ==
  ASSUME ControlInvariant, [Next]_vars
  PROVE  DeletedNeverRuns'
<1> USE DEF ControlInvariant, TypeOK, ClaimsExclusive, DeletedNeverRuns, HandsMatchPC, WritesApply,
           Busy, Terminal
<1>1. ASSUME NEW c \in Screenings,
             BeginRequest(c) \/ CommitRequest(c) \/ AbortRequest(c) \/ DeleteScreening(c)
      PROVE  DeletedNeverRuns'
  <2>1. CASE BeginRequest(c)
    BY <2>1 DEF BeginRequest, rowVars, serverVars
  <2>2. CASE CommitRequest(c)
    BY <2>2 DEF CommitRequest, SaveScreenings, serverVars, ABSENT, REQUESTED,
       GENERATING, COMPLETED, FAILED
  <2>3. CASE AbortRequest(c)
    BY <2>3 DEF AbortRequest, rowVars, serverVars
  <2>4. CASE DeleteScreening(c)
    BY <2>4 DEF DeleteScreening, serverVars, ABSENT, REQUESTED, GENERATING, COMPLETED,
       FAILED
  <2> QED
    BY <1>1, <2>1, <2>2, <2>3, <2>4
<1>2. ASSUME NEW s \in Servers, ServerStep(s)
      PROVE  DeletedNeverRuns'
  <2>1. CASE CountGenerating(s)
    BY <2>1 DEF CountGenerating, dbVars, rowVars
  <2>2. CASE ListRequested(s)
    BY <2>2 DEF ListRequested, dbVars, rowVars
  <2>3. CASE ClaimCommit(s)
    BY <2>3 DEF ClaimCommit, SaveScreenings, ABSENT, REQUESTED, GENERATING, COMPLETED,
       FAILED
  <2>4. CASE ClaimRollback(s)
    BY <2>4 DEF ClaimRollback, BackToIdle, dbVars, rowVars
  <2>5. CASE StartScreening(s)
    BY <2>5 DEF StartScreening, dbVars, rowVars
  <2>6. CASE AnswerQuestion(s)
    BY <2>6 DEF AnswerQuestion, rowVars
  <2>7. CASE AnswerError(s)
    BY <2>7 DEF AnswerError, rowVars
  <2>8. CASE BeginSuccess(s)
    BY <2>8 DEF BeginSuccess, dbVars, rowVars
  <2>9. CASE CommitSuccess(s)
    BY <2>9, CurrentInBatch DEF CommitSuccess, SaveCompleted, SaveScreenings,
       NextScreening, ABSENT, REQUESTED, GENERATING, COMPLETED, FAILED
  <2>10. CASE SuccessRollback(s)
    BY <2>10 DEF SuccessRollback, dbVars, rowVars
  <2>11. CASE RecordFailure(s)
    BY <2>11, CurrentInBatch DEF RecordFailure, SaveCompleted, SaveScreenings,
       NextScreening, ABSENT, REQUESTED, GENERATING, COMPLETED, FAILED
  <2>12. CASE FailureNotRecorded(s)
    BY <2>12 DEF FailureNotRecorded, NextScreening, dbVars, rowVars
  <2>13. CASE ListStale(s)
    BY <2>13 DEF ListStale, dbVars, rowVars
  <2>14. CASE FailStale(s)
    BY <2>14 DEF FailStale, SaveCompleted, SaveScreenings, BackToIdle, ABSENT,
       REQUESTED, GENERATING, COMPLETED, FAILED
  <2>15. CASE SweepRollback(s)
    BY <2>15 DEF SweepRollback, BackToIdle, dbVars, rowVars
  <2> QED
    BY <1>2, <2>1, <2>2, <2>3, <2>4, <2>5, <2>6, <2>7, <2>8, <2>9, <2>10, <2>11, <2>12,
       <2>13, <2>14, <2>15 DEF ServerStep
<1>3. ASSUME NEW s \in Servers, Crash(s)
      PROVE  DeletedNeverRuns'
  BY <1>3 DEF Crash, BackToIdle, dbVars, rowVars
<1>4. CASE Tick
  BY <1>4 DEF Tick, dbVars, rowVars
<1>5. CASE UNCHANGED vars
  BY <1>5 DEF vars, dbVars, rowVars, serverVars
<1> QED
  BY <1>1, <1>2, <1>3, <1>4, <1>5 DEF Next

LEMMA ClaimsStep ==
  ASSUME ControlInvariant, [Next]_vars
  PROVE  ClaimsExclusive'
<1> USE DEF ControlInvariant, TypeOK, ClaimsExclusive, HandsMatchPC, Busy
<1>1. ASSUME NEW c \in Screenings,
             BeginRequest(c) \/ CommitRequest(c) \/ AbortRequest(c) \/ DeleteScreening(c)
      PROVE  ClaimsExclusive'
  <2>1. CASE BeginRequest(c)
    BY <2>1 DEF BeginRequest, rowVars, serverVars
  <2>2. CASE CommitRequest(c)
    BY <2>2 DEF CommitRequest, SaveScreenings, serverVars, WritesApply, ABSENT,
       REQUESTED, GENERATING, COMPLETED, FAILED
  <2>3. CASE AbortRequest(c)
    BY <2>3 DEF AbortRequest, rowVars, serverVars
  <2>4. CASE DeleteScreening(c)
    BY <2>4 DEF DeleteScreening, serverVars, Deletable, Terminal, ABSENT, REQUESTED,
       GENERATING, COMPLETED, FAILED
  <2> QED
    BY <1>1, <2>1, <2>2, <2>3, <2>4
<1>2. ASSUME NEW s \in Servers, ServerStep(s)
      PROVE  ClaimsExclusive'
  <2>1. CASE CountGenerating(s)
    BY <2>1 DEF CountGenerating, dbVars, rowVars
  <2>2. CASE ListRequested(s)
    BY <2>2, OldestLockable DEF ListRequested, dbVars, rowVars, ClaimOpen
  <2>3. CASE ClaimCommit(s)
    BY <2>3 DEF ClaimCommit, SaveScreenings, ABSENT, REQUESTED, GENERATING, COMPLETED,
       FAILED
  <2>4. CASE ClaimRollback(s)
    BY <2>4 DEF ClaimRollback, BackToIdle, dbVars, rowVars
  <2>5. CASE StartScreening(s)
    BY <2>5 DEF StartScreening, dbVars, rowVars
  <2>6. CASE AnswerQuestion(s)
    BY <2>6 DEF AnswerQuestion, rowVars
  <2>7. CASE AnswerError(s)
    BY <2>7 DEF AnswerError, rowVars
  <2>8. CASE BeginSuccess(s)
    BY <2>8 DEF BeginSuccess, dbVars, rowVars
  <2>9. CASE CommitSuccess(s)
    BY <2>9, CurrentInBatch DEF CommitSuccess, SaveCompleted, SaveScreenings,
       NextScreening, ABSENT, REQUESTED, GENERATING, COMPLETED, FAILED
  <2>10. CASE SuccessRollback(s)
    BY <2>10 DEF SuccessRollback, dbVars, rowVars
  <2>11. CASE RecordFailure(s)
    BY <2>11, CurrentInBatch DEF RecordFailure, SaveCompleted, SaveScreenings,
       NextScreening, ABSENT, REQUESTED, GENERATING, COMPLETED, FAILED
  <2>12. CASE FailureNotRecorded(s)
    BY <2>12 DEF FailureNotRecorded, NextScreening, dbVars, rowVars
  <2>13. CASE ListStale(s)
    BY <2>13 DEF ListStale, dbVars, rowVars
  <2>14. CASE FailStale(s)
    BY <2>14 DEF FailStale, SaveCompleted, SaveScreenings, BackToIdle, WritesApply,
       ABSENT, REQUESTED, GENERATING, COMPLETED, FAILED
  <2>15. CASE SweepRollback(s)
    BY <2>15 DEF SweepRollback, BackToIdle, dbVars, rowVars
  <2> QED
    BY <1>2, <2>1, <2>2, <2>3, <2>4, <2>5, <2>6, <2>7, <2>8, <2>9, <2>10, <2>11, <2>12,
       <2>13, <2>14, <2>15 DEF ServerStep
<1>3. ASSUME NEW s \in Servers, Crash(s)
      PROVE  ClaimsExclusive'
  BY <1>3 DEF Crash, BackToIdle, dbVars, rowVars
<1>4. CASE Tick
  BY <1>4 DEF Tick, dbVars, rowVars
<1>5. CASE UNCHANGED vars
  BY <1>5 DEF vars, dbVars, rowVars, serverVars
<1> QED
  BY <1>1, <1>2, <1>3, <1>4, <1>5 DEF Next

LEMMA WritesStep ==
  ASSUME ControlInvariant, [Next]_vars
  PROVE  WritesApply'
<1> USE DEF ControlInvariant, TypeOK, WritesApply, HandsMatchPC, ClaimsExclusive, Busy
<1>1. ASSUME NEW c \in Screenings,
             BeginRequest(c) \/ CommitRequest(c) \/ AbortRequest(c) \/ DeleteScreening(c)
      PROVE  WritesApply'
  <2>1. CASE BeginRequest(c)
    BY <2>1 DEF BeginRequest, rowVars, serverVars
  <2>2. CASE CommitRequest(c)
    BY <2>2 DEF CommitRequest, SaveScreenings, serverVars, ABSENT, REQUESTED,
       GENERATING, COMPLETED, FAILED
  <2>3. CASE AbortRequest(c)
    BY <2>3 DEF AbortRequest, rowVars, serverVars
  <2>4. CASE DeleteScreening(c)
    BY <2>4 DEF DeleteScreening, serverVars, Deletable, Terminal, ABSENT, REQUESTED,
       GENERATING, COMPLETED, FAILED
  <2> QED
    BY <1>1, <2>1, <2>2, <2>3, <2>4
<1>2. ASSUME NEW s \in Servers, ServerStep(s)
      PROVE  WritesApply'
  <2>1. CASE CountGenerating(s)
    BY <2>1 DEF CountGenerating, dbVars, rowVars
  <2>2. CASE ListRequested(s)
    BY <2>2, OldestLockable DEF ListRequested, dbVars, rowVars, ABSENT, REQUESTED,
       GENERATING, COMPLETED, FAILED
  <2>3. CASE ClaimCommit(s)
    BY <2>3 DEF ClaimCommit, SaveScreenings, ABSENT, REQUESTED, GENERATING, COMPLETED,
       FAILED
  <2>4. CASE ClaimRollback(s)
    BY <2>4 DEF ClaimRollback, BackToIdle, dbVars, rowVars
  <2>5. CASE StartScreening(s)
    BY <2>5 DEF StartScreening, dbVars, rowVars
  <2>6. CASE AnswerQuestion(s)
    BY <2>6 DEF AnswerQuestion, rowVars
  <2>7. CASE AnswerError(s)
    BY <2>7 DEF AnswerError, rowVars
  <2>8. CASE BeginSuccess(s)
    BY <2>8 DEF BeginSuccess, dbVars, rowVars
  <2>9. CASE CommitSuccess(s)
    BY <2>9, CurrentInBatch DEF CommitSuccess, SaveCompleted, SaveScreenings,
       NextScreening, ABSENT, REQUESTED, GENERATING, COMPLETED, FAILED
  <2>10. CASE SuccessRollback(s)
    BY <2>10 DEF SuccessRollback, dbVars, rowVars
  <2>11. CASE RecordFailure(s)
    BY <2>11, CurrentInBatch DEF RecordFailure, SaveCompleted, SaveScreenings,
       NextScreening, ABSENT, REQUESTED, GENERATING, COMPLETED, FAILED
  <2>12. CASE FailureNotRecorded(s)
    BY <2>12 DEF FailureNotRecorded, NextScreening, dbVars, rowVars
  <2>13. CASE ListStale(s)
    BY <2>13, StaleGenerating DEF ListStale, dbVars, rowVars, ABSENT, REQUESTED,
       GENERATING, COMPLETED, FAILED
  <2>14. CASE FailStale(s)
    BY <2>14 DEF FailStale, SaveCompleted, SaveScreenings, BackToIdle, ABSENT,
       REQUESTED, GENERATING, COMPLETED, FAILED
  <2>15. CASE SweepRollback(s)
    BY <2>15 DEF SweepRollback, BackToIdle, dbVars, rowVars
  <2> QED
    BY <1>2, <2>1, <2>2, <2>3, <2>4, <2>5, <2>6, <2>7, <2>8, <2>9, <2>10, <2>11, <2>12,
       <2>13, <2>14, <2>15 DEF ServerStep
<1>3. ASSUME NEW s \in Servers, Crash(s)
      PROVE  WritesApply'
  BY <1>3 DEF Crash, BackToIdle, dbVars, rowVars
<1>4. CASE Tick
  BY <1>4 DEF Tick, dbVars, rowVars
<1>5. CASE UNCHANGED vars
  BY <1>5 DEF vars, dbVars, rowVars, serverVars
<1> QED
  BY <1>1, <1>2, <1>3, <1>4, <1>5 DEF Next

LEMMA ControlInit == Init => ControlInvariant
BY ConstantsAssumption DEF Init, ControlInvariant, TypeOK, ScreeningStatus, StaleAge,
   ClaimsExclusive, DeletedNeverRuns, HandsMatchPC, WritesApply, Busy

LEMMA ControlStep ==
  ASSUME ControlInvariant, [Next]_vars
  PROVE  ControlInvariant'
<1>1. TypeOK'
  BY TypeStep DEF ControlInvariant
<1>2. HandsMatchPC'
  BY HandsStep DEF ControlInvariant
<1> QED
  BY <1>1, <1>2, DeletedStep, ClaimsStep, WritesStep DEF ControlInvariant

(* Two servers never hold the same screening. *)
THEOREM ClaimsCorrect == Spec => []ClaimsExclusive
<1>1. ControlInvariant => ClaimsExclusive
  BY DEF ControlInvariant
<1> QED
  BY ControlInit, ControlStep, <1>1, PTL DEF Spec

(* What a late worker brings back of a deleted screening is never work again. *)
THEOREM DeletedCorrect == Spec => []DeletedNeverRuns
<1>1. ControlInvariant => DeletedNeverRuns
  BY DEF ControlInvariant
<1> QED
  BY ControlInit, ControlStep, <1>1, PTL DEF Spec

(* No status moves back, and a deleted screening comes back as an outcome only. *)
THEOREM StatusMovesCorrect == Spec => StatusMoves
<1>1. ControlInvariant /\ [Next]_vars => \A c \in Screenings : RowMoves(c)
  BY RowsMove
<1>2. ASSUME \A c \in Screenings : RowMoves(c)
      PROVE  OnlyForward
  BY <1>2 DEF RowMoves, OnlyForward
<1> QED
  BY ControlInit, ControlStep, <1>1, <1>2, PTL DEF Spec, StatusMoves

-------------------------------------------------------------------------------
(* The screening pipeline implements the abstract queue, liveness aside. *)
Rows == <<status, events, deleted>>

LEMMA SubmitStep ==
  ASSUME ControlInvariant, NEW c \in Screenings, CommitRequest(c)
  PROVE  Queue!Submit(c)
<1>1. /\ c \in requesting /\ status[c] = ABSENT /\ c \notin deleted
      /\ status' = [d \in Screenings |-> IF d = c THEN REQUESTED ELSE status[d]]
      /\ events' = [d \in Screenings |-> IF d = c THEN events[d] \cup {REQUESTED} ELSE events[d]]
      /\ UNCHANGED deleted
  BY DEF CommitRequest, SaveScreenings, ControlInvariant, WritesApply
<1>2. /\ [d \in Screenings |-> JobPhase(d)]' = [[d \in Screenings |-> JobPhase(d)] EXCEPT ![c] = "pending"]
      /\ JobPhase(c) = "absent"
  BY <1>1 DEF JobPhase, Terminal, ABSENT, REQUESTED, GENERATING, COMPLETED, FAILED
<1>3. UNCHANGED [d \in Screenings |-> IF status[d] \in Terminal THEN status[d] ELSE "none"]
  BY <1>1 DEF Terminal, ABSENT, REQUESTED, COMPLETED, FAILED
<1>4. UNCHANGED [d \in Screenings |-> events[d] \cap Terminal]
  BY <1>1 DEF Terminal, REQUESTED, COMPLETED, FAILED
<1> QED
  BY <1>2, <1>3, <1>4 DEF Queue!Submit

LEMMA ClaimStep ==
  ASSUME ControlInvariant, NEW s \in Servers, ClaimCommit(s)
  PROVE  Queue!Claim(batch[s]) \/ UNCHANGED Rows
<1> DEFINE S == batch[s]
<1>1. /\ S \subseteq Screenings
      /\ \A c \in S : status[c] = REQUESTED
      /\ status' = [d \in Screenings |-> IF d \in S THEN GENERATING ELSE status[d]]
      /\ events' = [d \in Screenings |-> IF d \in S THEN events[d] \cup {GENERATING} ELSE events[d]]
      /\ UNCHANGED deleted
  BY DEF ClaimCommit, SaveScreenings, ControlInvariant, TypeOK, ClaimsExclusive
<1>2. /\ status \in [Screenings -> ScreeningStatus \cup {ABSENT}]
      /\ events \in [Screenings -> SUBSET ScreeningStatus]
  BY DEF ControlInvariant, TypeOK
<1> HIDE DEF S
<1>3. CASE S = {}
  BY <1>1, <1>2, <1>3 DEF Rows
<1>4. CASE S # {}
  <2>1. /\ [d \in Screenings |-> JobPhase(d)]' =
             [d \in Screenings |-> IF d \in S THEN "running" ELSE [c \in Screenings |-> JobPhase(c)][d]]
        /\ \A c \in S : JobPhase(c) = "pending"
    <3>1. \A d \in Screenings : JobPhase(d)' = IF d \in S THEN "running" ELSE JobPhase(d)
      BY <1>1 DEF JobPhase, Terminal, REQUESTED, GENERATING, COMPLETED, FAILED
    <3>2. \A c \in S : JobPhase(c) = "pending"
      BY <1>1 DEF JobPhase, Terminal, REQUESTED, GENERATING, COMPLETED, FAILED
    <3> QED
      BY <3>1, <3>2
  <2>2. UNCHANGED [d \in Screenings |-> IF status[d] \in Terminal THEN status[d] ELSE "none"]
    BY <1>1 DEF Terminal, REQUESTED, GENERATING, COMPLETED, FAILED
  <2>3. UNCHANGED [d \in Screenings |-> events[d] \cap Terminal]
    BY <1>1 DEF Terminal, GENERATING, COMPLETED, FAILED
  <2>4. Queue!Claim(S)
    BY <1>1, <1>4, <2>1, <2>2, <2>3 DEF Queue!Claim
  <2> QED
    BY <2>4 DEF S
<1> QED
  BY <1>3, <1>4

(* What a late worker or a sweep records was claimed, or is of a deleted one. *)
LEMMA RecordStep ==
  ASSUME ControlInvariant, NEW S \in SUBSET Screenings, NEW st \in Terminal, SaveCompleted(S, st),
         \A c \in S : status[c] # REQUESTED /\ (status[c] = ABSENT => c \in deleted)
  PROVE  Queue!Record(S, st) \/ UNCHANGED Rows
<1>1. /\ \A c \in S : st \notin events[c]
      /\ status' = [d \in Screenings |-> IF d \in S THEN st ELSE status[d]]
      /\ events' = [d \in Screenings |-> IF d \in S THEN events[d] \cup {st} ELSE events[d]]
      /\ UNCHANGED deleted
  BY DEF SaveCompleted, Saveable, SaveScreenings
<1>2. /\ status \in [Screenings -> ScreeningStatus \cup {ABSENT}]
      /\ events \in [Screenings -> SUBSET ScreeningStatus]
  BY DEF ControlInvariant, TypeOK
<1>3. CASE S = {}
  BY <1>1, <1>2, <1>3 DEF Rows
<1>4. CASE S # {}
  <2> DEFINE phase == [d \in Screenings |-> JobPhase(d)]
             outcome == [d \in Screenings |-> IF status[d] \in Terminal THEN status[d] ELSE "none"]
             recorded == [d \in Screenings |-> events[d] \cap Terminal]
  <2>1. /\ phase' = [d \in Screenings |-> IF d \in S THEN "settled" ELSE phase[d]]
        /\ \A c \in S : phase[c] \in {"running", "settled", "withdrawn"}
    <3>1. \A d \in Screenings : JobPhase(d)' = IF d \in S THEN "settled" ELSE JobPhase(d)
      BY <1>1 DEF JobPhase, Terminal, REQUESTED, GENERATING, COMPLETED, FAILED
    <3>2. \A c \in S : JobPhase(c) \in {"running", "settled", "withdrawn"}
      BY <1>2 DEF JobPhase, Terminal, ScreeningStatus, ABSENT, REQUESTED, GENERATING, COMPLETED,
                  FAILED
    <3> QED
      BY <3>1, <3>2
  <2>2. outcome' = [d \in Screenings |-> IF d \in S THEN st ELSE outcome[d]]
    BY <1>1
  <2>3. /\ recorded' = [d \in Screenings |-> IF d \in S THEN recorded[d] \cup {st} ELSE recorded[d]]
        /\ \A c \in S : st \notin recorded[c]
    <3>1. \A d \in Screenings :
            (events[d] \cup {st}) \cap Terminal = (events[d] \cap Terminal) \cup {st}
      OBVIOUS
    <3> QED
      BY <1>1, <3>1
  <2> QED
    BY <1>4, <2>1, <2>2, <2>3 DEF Queue!Record
<1> QED
  BY <1>3, <1>4

LEMMA WithdrawStep ==
  ASSUME ControlInvariant, NEW c \in Screenings, DeleteScreening(c)
  PROVE  Queue!Withdraw(c)
<1>1. /\ status[c] \in Terminal
      /\ status' = [d \in Screenings |-> IF d = c THEN ABSENT ELSE status[d]]
      /\ events' = [d \in Screenings |-> IF d = c THEN {} ELSE events[d]]
      /\ deleted' = deleted \cup {c}
  BY DEF DeleteScreening, Deletable, ControlInvariant, TypeOK
<1>2. /\ [d \in Screenings |-> JobPhase(d)]' = [[d \in Screenings |-> JobPhase(d)] EXCEPT ![c] = "withdrawn"]
      /\ JobPhase(c) = "settled"
  BY <1>1 DEF JobPhase, Terminal, ABSENT, REQUESTED, GENERATING, COMPLETED, FAILED
<1>3. [d \in Screenings |-> IF status[d] \in Terminal THEN status[d] ELSE "none"]'
        = [[d \in Screenings |-> IF status[d] \in Terminal THEN status[d] ELSE "none"] EXCEPT ![c] = "none"]
  BY <1>1 DEF Terminal, ABSENT, COMPLETED, FAILED
<1>4. [d \in Screenings |-> events[d] \cap Terminal]'
        = [[d \in Screenings |-> events[d] \cap Terminal] EXCEPT ![c] = {}]
  BY <1>1
<1> QED
  BY <1>2, <1>3, <1>4 DEF Queue!Withdraw, Queue!NoOutcome

(* Every step of the pipeline is one of the queue, or writes no row. *)
LEMMA QueueStep ==
  ASSUME ControlInvariant, [Next]_vars
  PROVE  Queue!Next \/ UNCHANGED Rows
<1>1. ASSUME NEW c \in Screenings,
             BeginRequest(c) \/ CommitRequest(c) \/ AbortRequest(c) \/ DeleteScreening(c)
      PROVE  Queue!Next \/ UNCHANGED Rows
  <2>1. CASE BeginRequest(c) \/ AbortRequest(c)
    BY <2>1 DEF BeginRequest, AbortRequest, rowVars, Rows
  <2>2. CASE CommitRequest(c)
    BY <2>2, SubmitStep DEF Queue!Next
  <2>3. CASE DeleteScreening(c)
    BY <2>3, WithdrawStep DEF Queue!Next
  <2> QED
    BY <1>1, <2>1, <2>2, <2>3
<1>2. ASSUME NEW s \in Servers, ServerStep(s)
      PROVE  Queue!Next \/ UNCHANGED Rows
  <2>1. CASE ClaimCommit(s)
    <3>1. batch[s] \in SUBSET Screenings
      BY DEF ControlInvariant, TypeOK
    <3> QED
      BY <2>1, <3>1, ClaimStep DEF Queue!Next
  <2>2. CASE CommitSuccess(s) \/ RecordFailure(s)
    <3>1. /\ {Current(s)} \in SUBSET Screenings
          /\ \A c \in {Current(s)} : status[c] # REQUESTED /\ (status[c] = ABSENT => c \in deleted)
      BY <2>2, CurrentInBatch
         DEF CommitSuccess, RecordFailure, ControlInvariant, HandsMatchPC, ClaimsExclusive,
             WritesApply, Busy
    <3>2. PICK st \in Terminal : SaveCompleted({Current(s)}, st)
      BY <2>2 DEF CommitSuccess, RecordFailure, Terminal
    <3> QED
      BY <3>1, <3>2, RecordStep DEF Queue!Next
  <2>3. CASE FailStale(s)
    <3>1. /\ stale[s] \in SUBSET Screenings
          /\ \A c \in stale[s] : status[c] # REQUESTED /\ (status[c] = ABSENT => c \in deleted)
      BY DEF ControlInvariant, TypeOK, WritesApply
    <3>2. SaveCompleted(stale[s], FAILED) /\ FAILED \in Terminal
      BY <2>3 DEF FailStale, Terminal
    <3> QED
      BY <3>1, <3>2, RecordStep DEF Queue!Next
  <2>4. CASE UNCHANGED Rows
    BY <2>4
  <2> QED
    BY <1>2, <2>1, <2>2, <2>3, <2>4
       DEF ServerStep, CountGenerating, ListRequested, ClaimRollback, StartScreening,
           AnswerQuestion, AnswerError, BeginSuccess, SuccessRollback, FailureNotRecorded,
           ListStale, SweepRollback, dbVars, rowVars, Rows
<1>3. CASE UNCHANGED Rows
  BY <1>3
<1> QED
  BY <1>1, <1>2, <1>3 DEF Next, Crash, Tick, vars, dbVars, rowVars, Rows

(* The pipeline implements the queue, as far as safety goes: a screening is    *)
(* submitted once, claimed once, no outcome is recorded twice for it unless it *)
(* was deleted, and a deleted one is never pending or running again.          *)
THEOREM QueueImplemented == Spec => Queue!SafeSpec
<1>1. Init => Queue!Init
  BY DEF Init, Queue!Init, JobPhase, Terminal, Queue!NoOutcome, ABSENT, REQUESTED, GENERATING,
         COMPLETED, FAILED
<1>2. UNCHANGED Rows => UNCHANGED Queue!jobVars
  BY DEF Rows, Queue!jobVars, JobPhase
<1>3. ControlInvariant /\ [Next]_vars => [Queue!Next]_Queue!jobVars
  BY <1>2, QueueStep
<1> QED
  BY ControlInit, ControlStep, <1>1, <1>3, PTL DEF Spec, Queue!SafeSpec

-------------------------------------------------------------------------------
(* The rows that belong to a screening: its links, its events, its answers. *)

LEMMA RowsStep ==
  ASSUME ControlInvariant, RowsAgree, [Next]_vars
  PROVE  RowsAgree'
<1> USE CurrentInBatch
    DEF ControlInvariant, TypeOK, ClaimsExclusive, HandsMatchPC, RowsAgree, Busy
<1>1. ASSUME NEW c \in Screenings,
             BeginRequest(c) \/ CommitRequest(c) \/ AbortRequest(c) \/ DeleteScreening(c)
      PROVE  RowsAgree'
  <2>1. CASE BeginRequest(c)
    BY <2>1 DEF BeginRequest, rowVars, serverVars
  <2>2. CASE CommitRequest(c)
    BY <2>2 DEF CommitRequest, SaveScreenings, serverVars, ABSENT, REQUESTED,
       GENERATING, COMPLETED, FAILED
  <2>3. CASE AbortRequest(c)
    BY <2>3 DEF AbortRequest, rowVars, serverVars
  <2>4. CASE DeleteScreening(c)
    BY <2>4 DEF DeleteScreening, serverVars, ABSENT, REQUESTED, GENERATING, COMPLETED,
       FAILED
  <2> QED
    BY <1>1, <2>1, <2>2, <2>3, <2>4
<1>2. ASSUME NEW s \in Servers, ServerStep(s)
      PROVE  RowsAgree'
  <2>1. CASE CountGenerating(s)
    BY <2>1 DEF CountGenerating, dbVars, rowVars
  <2>2. CASE ListRequested(s)
    BY <2>2 DEF ListRequested, dbVars, rowVars
  <2>3. CASE ClaimCommit(s)
    BY <2>3 DEF ClaimCommit, SaveScreenings, ABSENT, REQUESTED, GENERATING, COMPLETED,
       FAILED
  <2>4. CASE ClaimRollback(s)
    BY <2>4 DEF ClaimRollback, BackToIdle, dbVars, rowVars
  <2>5. CASE StartScreening(s)
    BY <2>5 DEF StartScreening, dbVars, rowVars
  <2>6. CASE AnswerQuestion(s)
    BY <2>6 DEF AnswerQuestion, rowVars
  <2>7. CASE AnswerError(s)
    BY <2>7 DEF AnswerError, rowVars
  <2>8. CASE BeginSuccess(s)
    BY <2>8 DEF BeginSuccess, dbVars, rowVars
  <2>9. CASE CommitSuccess(s)
    BY <2>9 DEF CommitSuccess, SaveCompleted, SaveScreenings, NextScreening, ABSENT,
       REQUESTED, GENERATING, COMPLETED, FAILED
  <2>10. CASE SuccessRollback(s)
    BY <2>10 DEF SuccessRollback, dbVars, rowVars
  <2>11. CASE RecordFailure(s)
    BY <2>11 DEF RecordFailure, SaveCompleted, SaveScreenings, NextScreening, ABSENT,
       REQUESTED, GENERATING, COMPLETED, FAILED
  <2>12. CASE FailureNotRecorded(s)
    BY <2>12 DEF FailureNotRecorded, NextScreening, dbVars, rowVars
  <2>13. CASE ListStale(s)
    BY <2>13 DEF ListStale, dbVars, rowVars
  <2>14. CASE FailStale(s)
    BY <2>14 DEF FailStale, SaveCompleted, SaveScreenings, BackToIdle, ABSENT,
       REQUESTED, GENERATING, COMPLETED, FAILED
  <2>15. CASE SweepRollback(s)
    BY <2>15 DEF SweepRollback, BackToIdle, dbVars, rowVars
  <2> QED
    BY <1>2, <2>1, <2>2, <2>3, <2>4, <2>5, <2>6, <2>7, <2>8, <2>9, <2>10, <2>11, <2>12,
       <2>13, <2>14, <2>15 DEF ServerStep
<1>3. ASSUME NEW s \in Servers, Crash(s)
      PROVE  RowsAgree'
  BY <1>3 DEF Crash, BackToIdle, dbVars, rowVars
<1>4. CASE Tick
  BY <1>4 DEF Tick, dbVars, rowVars
<1>5. CASE UNCHANGED vars
  BY <1>5 DEF vars, dbVars, rowVars, serverVars
<1> QED
  BY <1>1, <1>2, <1>3, <1>4, <1>5 DEF Next

LEMMA AnswersStep ==
  ASSUME ControlInvariant, RowsAgree, AnswersAccounted, CompletedIsAnswered, [Next]_vars
  PROVE  AnswersAccounted' /\ CompletedIsAnswered'
<1> USE ConstantsAssumption
<1>1. ASSUME NEW c \in Screenings,
             BeginRequest(c) \/ CommitRequest(c) \/ AbortRequest(c) \/ DeleteScreening(c)
      PROVE  AnswersAccounted' /\ CompletedIsAnswered'
  <2>1. CASE BeginRequest(c)
    BY <2>1 DEF BeginRequest, rowVars, serverVars, ControlInvariant, TypeOK,
       ClaimsExclusive, HandsMatchPC, AnswersAccounted, CompletedIsAnswered, Busy,
       Current
  <2>2. CASE CommitRequest(c)
    BY <2>2, CurrentInBatch DEF CommitRequest, SaveScreenings, serverVars,
       ControlInvariant, TypeOK, ClaimsExclusive, HandsMatchPC, AnswersAccounted,
       CompletedIsAnswered, Busy, Current, WritesApply, RowsAgree, ABSENT, REQUESTED,
       GENERATING, COMPLETED, FAILED
  <2>3. CASE AbortRequest(c)
    BY <2>3 DEF AbortRequest, rowVars, serverVars, ControlInvariant, TypeOK,
       ClaimsExclusive, HandsMatchPC, AnswersAccounted, CompletedIsAnswered, Busy,
       Current
  <2>4. CASE DeleteScreening(c)
    BY <2>4, CurrentInBatch DEF DeleteScreening, serverVars, ControlInvariant, TypeOK,
       ClaimsExclusive, HandsMatchPC, AnswersAccounted, CompletedIsAnswered, Busy,
       Current, Deletable, Terminal, WritesApply, ABSENT, REQUESTED, GENERATING,
       COMPLETED, FAILED
  <2> QED
    BY <1>1, <2>1, <2>2, <2>3, <2>4
<1>2. ASSUME NEW s \in Servers, ServerStep(s)
      PROVE  AnswersAccounted' /\ CompletedIsAnswered'
  <2>1. CASE CountGenerating(s)
    BY <2>1, CurrentInBatch DEF CountGenerating, dbVars, rowVars, ControlInvariant,
       TypeOK, ClaimsExclusive, HandsMatchPC, AnswersAccounted, CompletedIsAnswered,
       Busy, Current
  <2>2. CASE ListRequested(s)
    BY <2>2, CurrentInBatch, OldestLockable DEF ListRequested, dbVars, rowVars,
       ControlInvariant, TypeOK, ClaimsExclusive, HandsMatchPC, AnswersAccounted,
       CompletedIsAnswered, Busy, Current, ABSENT, REQUESTED, GENERATING, COMPLETED,
       FAILED
  <2>3. CASE ClaimCommit(s)
    BY <2>3, CurrentInBatch DEF ClaimCommit, SaveScreenings, ControlInvariant, TypeOK,
       ClaimsExclusive, HandsMatchPC, AnswersAccounted, CompletedIsAnswered, Busy,
       Current, ABSENT, REQUESTED, GENERATING, COMPLETED, FAILED
  <2>4. CASE ClaimRollback(s)
    BY <2>4, CurrentInBatch DEF ClaimRollback, BackToIdle, dbVars, rowVars,
       ControlInvariant, TypeOK, ClaimsExclusive, HandsMatchPC, AnswersAccounted,
       CompletedIsAnswered, Busy, Current
  <2>5. CASE StartScreening(s)
    <3>1. /\ Current(s) \in batch[s] /\ pc[s] = "ready"
          /\ linked[Current(s)] => answers[Current(s)] = 0
      BY <2>5, CurrentInBatch DEF StartScreening, ControlInvariant, AnswersAccounted, Busy
    <3> QED
      BY <2>5, <3>1, CurrentInBatch
         DEF StartScreening, dbVars, rowVars, ControlInvariant, TypeOK, HandsMatchPC,
             AnswersAccounted, CompletedIsAnswered, Busy, Current
  <2>6. CASE AnswerQuestion(s)
    <3> DEFINE d == Current(s)
    <3>1. /\ d \in Screenings /\ d \in batch[s] /\ Busy(s)
          /\ status[d] # COMPLETED /\ status[d] # REQUESTED
          /\ \A t \in Servers \ {s} : d \notin batch[t]
          /\ \A t \in Servers \ {s} : Busy(t) => Current(t) # d
      BY <2>6, CurrentInBatch
         DEF AnswerQuestion, ControlInvariant, TypeOK, ClaimsExclusive, HandsMatchPC, WritesApply, Busy,
             REQUESTED, COMPLETED
    <3>2. /\ \A c \in Screenings \ {d} : answers'[c] = answers[c]
          /\ UNCHANGED <<status, linked, batch>>
          /\ \A t \in Servers \ {s} : pc'[t] = pc[t] /\ done'[t] = done[t]
          /\ \A t \in Servers : Current(t)' = Current(t)
          /\ pc'[s] = "answering" /\ done'[s] = done[s] + 1 /\ answers'[d] = answers[d] + 1
          /\ linked[d]
      BY <2>6, <3>1 DEF AnswerQuestion, rowVars, ControlInvariant, TypeOK, Current
    <3>3. \A t \in Servers : Busy(t) => Current(t) \in batch[t] /\ Current(t) \in Screenings
      BY CurrentInBatch DEF ControlInvariant, HandsMatchPC
    <3>4. \A t \in Servers : batch[t] \subseteq Screenings
      BY DEF ControlInvariant, TypeOK
    <3>5. /\ d = Current(s) /\ pc[s] = "answering"
          /\ linked[d] => answers[d] = done[s]
      BY <2>6, <3>1 DEF AnswerQuestion, AnswersAccounted
    <3> HIDE DEF d, Current
    <3>6. CompletedIsAnswered'
      BY <3>1, <3>2 DEF CompletedIsAnswered
    <3>7. ASSUME NEW c \in Screenings
          PROVE  /\ linked'[c] => status'[c] # ABSENT
                 /\ status'[c] = REQUESTED => answers'[c] = 0
      BY <3>1, <3>2 DEF AnswersAccounted
    <3>8. ASSUME NEW t \in Servers, NEW c \in batch'[t], linked'[c],
                 ~(Busy(t) /\ c = Current(t))'
          PROVE  answers'[c] = 0
      <4>1. c \in batch[t] /\ c \in Screenings /\ linked[c] /\ c # d /\ ~(Busy(t) /\ c = Current(t))
        BY <3>1, <3>2, <3>4, <3>5, <3>8 DEF Busy
      <4> QED
        BY <3>2, <4>1 DEF AnswersAccounted
    <3>9. ASSUME NEW t \in Servers
          PROVE  /\ pc'[t] \in {"answering", "completing"} /\ linked'[Current(t)'] =>
                      answers'[Current(t)'] = done'[t]
                 /\ pc'[t] = "completing" => done'[t] = QuestionCount[Current(t)']
      <4>1. CASE t = s
        BY <3>2, <3>5, <4>1
      <4>2. CASE t # s
        <5>1. pc'[t] = pc[t] /\ done'[t] = done[t] /\ Current(t)' = Current(t)
          BY <3>2, <4>2
        <5>2. Busy(t) => answers'[Current(t)] = answers[Current(t)]
          BY <3>1, <3>2, <3>3, <4>2
        <5> QED
          BY <3>2, <5>1, <5>2 DEF AnswersAccounted, Busy
      <4> QED
        BY <4>1, <4>2
    <3>10. AnswersAccounted'
      BY <3>7, <3>8, <3>9 DEF AnswersAccounted
    <3> QED
      BY <3>6, <3>10
  <2>7. CASE AnswerError(s)
    <3> DEFINE d == Current(s)
    <3>1. /\ d \in Screenings /\ d \in batch[s] /\ Busy(s)
          /\ status[d] # COMPLETED /\ status[d] # REQUESTED
          /\ \A t \in Servers \ {s} : d \notin batch[t]
          /\ \A t \in Servers \ {s} : Busy(t) => Current(t) # d
      BY <2>7, CurrentInBatch
         DEF AnswerError, ControlInvariant, TypeOK, ClaimsExclusive, HandsMatchPC, WritesApply, Busy,
             REQUESTED, COMPLETED
    <3>2. /\ \A c \in Screenings \ {d} : answers'[c] = answers[c]
          /\ UNCHANGED <<status, linked, batch>>
          /\ \A t \in Servers \ {s} : pc'[t] = pc[t] /\ done'[t] = done[t]
          /\ \A t \in Servers : Current(t)' = Current(t)
          /\ pc'[s] = "failing"
      BY <2>7, <3>1 DEF AnswerError, rowVars, ControlInvariant, TypeOK, Current
    <3>3. \A t \in Servers : Busy(t) => Current(t) \in batch[t] /\ Current(t) \in Screenings
      BY CurrentInBatch DEF ControlInvariant, HandsMatchPC
    <3>4. \A t \in Servers : batch[t] \subseteq Screenings
      BY DEF ControlInvariant, TypeOK
    <3>5. /\ d = Current(s) /\ pc[s] = "answering"
          /\ linked[d] => answers[d] = done[s]
      BY <2>7, <3>1 DEF AnswerError, AnswersAccounted
    <3> HIDE DEF d, Current
    <3>6. CompletedIsAnswered'
      BY <3>1, <3>2 DEF CompletedIsAnswered
    <3>7. ASSUME NEW c \in Screenings
          PROVE  /\ linked'[c] => status'[c] # ABSENT
                 /\ status'[c] = REQUESTED => answers'[c] = 0
      BY <3>1, <3>2 DEF AnswersAccounted
    <3>8. ASSUME NEW t \in Servers, NEW c \in batch'[t], linked'[c],
                 ~(Busy(t) /\ c = Current(t))'
          PROVE  answers'[c] = 0
      <4>1. c \in batch[t] /\ c \in Screenings /\ linked[c] /\ c # d /\ ~(Busy(t) /\ c = Current(t))
        BY <3>1, <3>2, <3>4, <3>5, <3>8 DEF Busy
      <4> QED
        BY <3>2, <4>1 DEF AnswersAccounted
    <3>9. ASSUME NEW t \in Servers
          PROVE  /\ pc'[t] \in {"answering", "completing"} /\ linked'[Current(t)'] =>
                      answers'[Current(t)'] = done'[t]
                 /\ pc'[t] = "completing" => done'[t] = QuestionCount[Current(t)']
      <4>1. CASE t = s
        BY <3>2, <3>5, <4>1
      <4>2. CASE t # s
        <5>1. pc'[t] = pc[t] /\ done'[t] = done[t] /\ Current(t)' = Current(t)
          BY <3>2, <4>2
        <5>2. Busy(t) => answers'[Current(t)] = answers[Current(t)]
          BY <3>1, <3>2, <3>3, <4>2
        <5> QED
          BY <3>2, <5>1, <5>2 DEF AnswersAccounted, Busy
      <4> QED
        BY <4>1, <4>2
    <3>10. AnswersAccounted'
      BY <3>7, <3>8, <3>9 DEF AnswersAccounted
    <3> QED
      BY <3>6, <3>10
  <2>8. CASE BeginSuccess(s)
    BY <2>8, CurrentInBatch DEF BeginSuccess, dbVars, rowVars, ControlInvariant, TypeOK,
       ClaimsExclusive, HandsMatchPC, AnswersAccounted, CompletedIsAnswered, Busy,
       Current, AllAnswered
  <2>9. CASE CommitSuccess(s)
    BY <2>9, CurrentInBatch DEF CommitSuccess, SaveCompleted, SaveScreenings,
       NextScreening, ControlInvariant, TypeOK, ClaimsExclusive, HandsMatchPC,
       AnswersAccounted, CompletedIsAnswered, Busy, Current, WritesApply, ABSENT,
       REQUESTED, GENERATING, COMPLETED, FAILED
  <2>10. CASE SuccessRollback(s)
    BY <2>10, CurrentInBatch DEF SuccessRollback, dbVars, rowVars, ControlInvariant,
       TypeOK, ClaimsExclusive, HandsMatchPC, AnswersAccounted, CompletedIsAnswered,
       Busy, Current
  <2>11. CASE RecordFailure(s)
    BY <2>11, CurrentInBatch DEF RecordFailure, SaveCompleted, SaveScreenings,
       NextScreening, ControlInvariant, TypeOK, ClaimsExclusive, HandsMatchPC,
       AnswersAccounted, CompletedIsAnswered, Busy, Current, WritesApply, ABSENT,
       REQUESTED, GENERATING, COMPLETED, FAILED
  <2>12. CASE FailureNotRecorded(s)
    BY <2>12, CurrentInBatch DEF FailureNotRecorded, NextScreening, dbVars, rowVars,
       ControlInvariant, TypeOK, ClaimsExclusive, HandsMatchPC, AnswersAccounted,
       CompletedIsAnswered, Busy, Current
  <2>13. CASE ListStale(s)
    BY <2>13, CurrentInBatch DEF ListStale, dbVars, rowVars, ControlInvariant, TypeOK,
       ClaimsExclusive, HandsMatchPC, AnswersAccounted, CompletedIsAnswered, Busy,
       Current
  <2>14. CASE FailStale(s)
    BY <2>14, CurrentInBatch DEF FailStale, SaveCompleted, SaveScreenings, BackToIdle,
       ControlInvariant, TypeOK, ClaimsExclusive, HandsMatchPC, AnswersAccounted,
       CompletedIsAnswered, Busy, Current, WritesApply, RowsAgree, ABSENT, REQUESTED,
       GENERATING, COMPLETED, FAILED
  <2>15. CASE SweepRollback(s)
    BY <2>15, CurrentInBatch DEF SweepRollback, BackToIdle, dbVars, rowVars,
       ControlInvariant, TypeOK, ClaimsExclusive, HandsMatchPC, AnswersAccounted,
       CompletedIsAnswered, Busy, Current
  <2> QED
    BY <1>2, <2>1, <2>2, <2>3, <2>4, <2>5, <2>6, <2>7, <2>8, <2>9, <2>10, <2>11, <2>12,
       <2>13, <2>14, <2>15 DEF ServerStep
<1>3. ASSUME NEW s \in Servers, Crash(s)
      PROVE  AnswersAccounted' /\ CompletedIsAnswered'
  BY <1>3, CurrentInBatch DEF Crash, BackToIdle, dbVars, rowVars, ControlInvariant,
     TypeOK, ClaimsExclusive, HandsMatchPC, AnswersAccounted, CompletedIsAnswered, Busy,
     Current
<1>4. CASE Tick
  BY <1>4, CurrentInBatch DEF Tick, dbVars, rowVars, ControlInvariant, TypeOK,
     ClaimsExclusive, HandsMatchPC, AnswersAccounted, CompletedIsAnswered, Busy, Current
<1>5. CASE UNCHANGED vars
  BY <1>5, CurrentInBatch DEF vars, dbVars, rowVars, serverVars, ControlInvariant,
     TypeOK, ClaimsExclusive, HandsMatchPC, AnswersAccounted, CompletedIsAnswered, Busy,
     Current
<1> QED
  BY <1>1, <1>2, <1>3, <1>4, <1>5 DEF Next

-------------------------------------------------------------------------------
(* The concurrency bound: what servers have reserved and what is in progress. *)
LEMMA ScreeningsFinite ==
  \A S \in SUBSET Screenings : IsFiniteSet(S) /\ Cardinality(S) \in Nat
BY FS_Subset, FS_CardinalityType, ConstantsAssumption

LEMMA ReservedType ==
  ASSUME NEW a \in [Servers -> 0..MaxConcurrent], NEW b \in [Servers -> SUBSET Screenings], NEW p
  PROVE  [s \in Servers |-> a[s] + (IF p[s] = "claimed" THEN Cardinality(b[s]) ELSE 0)]
           \in [Servers -> Nat]
<1>1. ASSUME NEW s \in Servers
      PROVE  a[s] + (IF p[s] = "claimed" THEN Cardinality(b[s]) ELSE 0) \in Nat
  <2>1. a[s] \in Nat /\ Cardinality(b[s]) \in Nat
    BY ScreeningsFinite, ConstantsAssumption
  <2> QED
    BY <2>1
<1> QED
  BY <1>1

LEMMA BoundIsWithin ==
  TypeOK => /\ Reserved \in [Servers -> Nat] /\ IsFiniteSet(InProgress)
            /\ ClaimsBounded <=> Within(Servers, MaxConcurrent, InProgress, Reserved)
<1>1. TypeOK => Reserved \in [Servers -> Nat]
  BY ReservedType DEF TypeOK, Reserved
<1>2. IsFiniteSet(InProgress)
  BY ScreeningsFinite DEF InProgress
<1> QED
  BY <1>1, <1>2 DEF ClaimsBounded, Within

LEMMA NextBoundIsWithin ==
  TypeOK' => /\ Reserved' \in [Servers -> Nat]
             /\ ClaimsBounded' <=> Within(Servers, MaxConcurrent, InProgress', Reserved')
<1>1. TypeOK' => Reserved' \in [Servers -> Nat]
  BY ReservedType DEF TypeOK, Reserved
<1> QED
  BY <1>1 DEF ClaimsBounded, Within, MapThenSumSet, MapThenFoldSet

(* What a step does to a server's reservation unless it counts or claims. *)
ReservesNothing(t) ==
  \/ avail'[t] = avail[t] /\ pc'[t] = pc[t] /\ (pc[t] = "claimed" => batch'[t] = batch[t])
  \/ avail'[t] = 0 /\ pc'[t] # "claimed"

LEMMA BoundKept ==
  ASSUME TypeOK, TypeOK', ReservationsEnd, ClaimsBounded,
         \A c \in Screenings : status'[c] = GENERATING => status[c] = GENERATING,
         \A t \in Servers : ReservesNothing(t)
  PROVE  ReservationsEnd' /\ ClaimsBounded'
<1>1. ReservationsEnd'
  BY DEF ReservationsEnd, ReservesNothing
<1>2. InProgress' \subseteq InProgress
  BY DEF InProgress
<1>3. ASSUME NEW t \in Servers
      PROVE  Reserved'[t] =< Reserved[t]
  <2>1. avail[t] \in Nat /\ Cardinality(batch[t]) \in Nat
    BY ScreeningsFinite, ConstantsAssumption DEF TypeOK
  <2>2. /\ Reserved[t] = avail[t] + (IF pc[t] = "claimed" THEN Cardinality(batch[t]) ELSE 0)
        /\ Reserved'[t] = avail'[t] + (IF pc'[t] = "claimed" THEN Cardinality(batch'[t]) ELSE 0)
    BY DEF Reserved
  <2> QED
    BY <2>1, <2>2 DEF ReservesNothing
<1>4. Within(Servers, MaxConcurrent, InProgress', Reserved')
  BY <1>2, <1>3, WithinKept, BoundIsWithin, NextBoundIsWithin, ConstantsAssumption
<1> QED
  BY <1>1, <1>4, NextBoundIsWithin

(* A server that counts reserves what its own maximum leaves. *)
LEMMA CountStep ==
  ASSUME TypeOK, TypeOK', RowsAgree, ReservationsEnd, ClaimsBounded,
         NEW s \in Servers, CountGenerating(s)
  PROVE  ReservationsEnd' /\ ClaimsBounded'
<1>1. ReservationsEnd'
  BY DEF ReservationsEnd, CountGenerating, TypeOK
<1>2. WithStatus(GENERATING) = InProgress
  BY DEF WithStatus, InProgress, RowsAgree, ABSENT, GENERATING
<1>3. WorkersAvailable(Cardinality(ListGenerating))
        = IF Cardinality(InProgress) >= MaxConcurrent THEN 0
          ELSE MaxConcurrent - Cardinality(InProgress)
  <2> DEFINE l == Cardinality(ListGenerating)
  <2>1. InProgress \in SUBSET Nat /\ IsFiniteSet(InProgress) /\ Cardinality(InProgress) \in Nat
    BY ScreeningsFinite, ConstantsAssumption DEF InProgress
  <2>2. ListGenerating \subseteq InProgress
    BY <1>2 DEF ListGenerating, Newest
  <2>3. l \in Nat /\ l =< Cardinality(InProgress)
    BY <2>1, <2>2, FS_Subset, FS_CardinalityType
  <2>4. l < ListLimit => ListGenerating = InProgress
    BY <1>2, <2>1, NewestComplete, ConstantsAssumption DEF ListGenerating, Newest
  <2> HIDE DEF l
  <2>5. l < MaxConcurrent => l = Cardinality(InProgress)
    BY <2>3, <2>4, ConstantsAssumption DEF l
  <2>6. WorkersAvailable(l) = IF Cardinality(InProgress) >= MaxConcurrent THEN 0
                              ELSE MaxConcurrent - Cardinality(InProgress)
    BY <2>1, <2>3, <2>5, ConstantsAssumption DEF WorkersAvailable
  <2> QED
    BY <2>6 DEF l
<1>4. /\ \A t \in Servers : Reserved[t] =< MaxConcurrent
      /\ \A t \in Servers \ {s} : Reserved'[t] = Reserved[t]
      /\ Reserved[s] = 0
      /\ Reserved'[s] = WorkersAvailable(Cardinality(ListGenerating))
  <2>1. ASSUME NEW t \in Servers
        PROVE  /\ Reserved[t] = avail[t] + (IF pc[t] = "claimed" THEN Cardinality(batch[t]) ELSE 0)
               /\ Reserved'[t] = avail'[t] + (IF pc'[t] = "claimed" THEN Cardinality(batch'[t]) ELSE 0)
               /\ avail[t] \in 0..MaxConcurrent /\ avail'[t] \in 0..MaxConcurrent
               /\ Cardinality(batch[t]) \in Nat
    BY ScreeningsFinite DEF Reserved, TypeOK
  <2>2. ASSUME NEW t \in Servers
        PROVE  Reserved[t] =< MaxConcurrent
    BY <2>1, ConstantsAssumption DEF ReservationsEnd
  <2>3. ASSUME NEW t \in Servers \ {s}
        PROVE  Reserved'[t] = Reserved[t]
    BY <2>1 DEF CountGenerating, TypeOK
  <2>4. Reserved[s] = 0
    BY <2>1 DEF CountGenerating, ReservationsEnd
  <2>5. Reserved'[s] = WorkersAvailable(Cardinality(ListGenerating))
    <3>1. pc'[s] = "counted" /\ avail'[s] = WorkersAvailable(Cardinality(ListGenerating))
      BY DEF CountGenerating, TypeOK
    <3> QED
      BY <2>1, <3>1
  <2> QED
    BY <2>2, <2>3, <2>4, <2>5
<1>5. InProgress' = InProgress
  BY DEF InProgress, CountGenerating, dbVars, rowVars
<1>6. Within(Servers, MaxConcurrent, InProgress, Reserved')
  BY <1>3, <1>4, WithinReserved, BoundIsWithin, NextBoundIsWithin, ConstantsAssumption
<1> QED
  BY <1>1, <1>5, <1>6, NextBoundIsWithin

(* A claim takes no more than was reserved for it. *)
LEMMA ListStep ==
  ASSUME TypeOK, TypeOK', ReservationsEnd, ClaimsBounded,
         NEW s \in Servers, ListRequested(s)
  PROVE  ReservationsEnd' /\ ClaimsBounded'
<1> DEFINE taken == Oldest(Lockable, avail[s])
<1>1. avail[s] \in 0..MaxConcurrent /\ MaxConcurrent \in Nat /\ avail[s] \in Nat
  BY ConstantsAssumption DEF TypeOK
<1>2. Cardinality(taken) =< avail[s] /\ Cardinality(taken) \in Nat
  <2>1. Lockable \in SUBSET Nat /\ IsFiniteSet(Lockable) /\ taken \in SUBSET Screenings
    BY ScreeningsFinite, ConstantsAssumption DEF Lockable, WithStatus, Oldest
  <2>2. Cardinality(Oldest(Lockable, avail[s])) =< avail[s]
    BY <1>1, <2>1, OldestBounded DEF Oldest
  <2> QED
    BY <2>1, <2>2, ScreeningsFinite
<1>3. /\ batch'[s] = taken /\ avail'[s] = 0 /\ pc[s] = "counted"
      /\ \A t \in Servers \ {s} : pc'[t] = pc[t] /\ avail'[t] = avail[t] /\ batch'[t] = batch[t]
      /\ UNCHANGED status /\ pc'[s] \in {"ready", "claimed"}
  BY DEF ListRequested, TypeOK, dbVars, rowVars
<1> HIDE DEF taken
<1>4. ReservationsEnd'
  <2>1. Cardinality(batch'[s]) =< MaxConcurrent
    BY <1>1, <1>2, <1>3
  <2> QED
    BY <1>3, <2>1 DEF ReservationsEnd
<1>5. InProgress' = InProgress
  BY <1>3 DEF InProgress
<1>6. ASSUME NEW t \in Servers
      PROVE  Reserved'[t] =< Reserved[t]
  <2>1. /\ Reserved[t] = avail[t] + (IF pc[t] = "claimed" THEN Cardinality(batch[t]) ELSE 0)
        /\ Reserved'[t] = avail'[t] + (IF pc'[t] = "claimed" THEN Cardinality(batch'[t]) ELSE 0)
        /\ avail[t] \in Nat /\ Cardinality(batch[t]) \in Nat
    BY ScreeningsFinite, ConstantsAssumption DEF Reserved, TypeOK
  <2>2. CASE t = s
    BY <1>1, <1>2, <1>3, <2>1, <2>2
  <2>3. CASE t # s
    BY <1>3, <2>1, <2>3
  <2> QED
    BY <2>2, <2>3
<1>7. Within(Servers, MaxConcurrent, InProgress', Reserved')
  BY <1>5, <1>6, WithinKept, BoundIsWithin, NextBoundIsWithin, ConstantsAssumption
<1> QED
  BY <1>4, <1>7, NextBoundIsWithin

(* A claim that commits puts in progress what it had reserved. *)
LEMMA CommitStep ==
  ASSUME TypeOK, TypeOK', ClaimsExclusive, ReservationsEnd, ClaimsBounded,
         NEW s \in Servers, ClaimCommit(s)
  PROVE  ReservationsEnd' /\ ClaimsBounded'
<1>1. /\ pc[s] = "claimed" /\ pc'[s] = "ready" /\ avail'[s] = avail[s] /\ avail[s] = 0
      /\ \A t \in Servers \ {s} : pc'[t] = pc[t] /\ avail'[t] = avail[t] /\ batch'[t] = batch[t]
  BY DEF ClaimCommit, TypeOK, ReservationsEnd
<1>2. ReservationsEnd'
  BY <1>1 DEF ReservationsEnd
<1>3. InProgress' = InProgress \cup batch[s] /\ InProgress \cap batch[s] = {}
  BY <1>1 DEF InProgress, ClaimCommit, SaveScreenings, ClaimsExclusive, TypeOK, REQUESTED, GENERATING
<1>4. /\ \A t \in Servers \ {s} : Reserved'[t] = Reserved[t]
      /\ Reserved[s] = Cardinality(batch[s])
      /\ Reserved'[s] = 0
      /\ IsFiniteSet(batch[s])
  <2>1. IsFiniteSet(batch[s]) /\ Cardinality(batch[s]) \in Nat
    BY ScreeningsFinite DEF TypeOK
  <2> QED
    BY <1>1, <2>1 DEF Reserved
<1>5. Within(Servers, MaxConcurrent, InProgress \cup batch[s], Reserved')
  BY <1>3, <1>4, WithinCommitted, BoundIsWithin, NextBoundIsWithin, ConstantsAssumption
<1> QED
  BY <1>2, <1>3, <1>5, NextBoundIsWithin

LEMMA BoundStep ==
  ASSUME ControlInvariant, RowsAgree, TypeOK', ReservationsEnd, ClaimsBounded, [Next]_vars
  PROVE  ReservationsEnd' /\ ClaimsBounded'
<1> USE DEF ControlInvariant
<1> DEFINE Kept == /\ \A c \in Screenings : status'[c] = GENERATING => status[c] = GENERATING
                   /\ \A t \in Servers : ReservesNothing(t)
<1>1. ASSUME NEW c \in Screenings,
             BeginRequest(c) \/ CommitRequest(c) \/ AbortRequest(c) \/ DeleteScreening(c)
      PROVE  Kept
  <2> USE DEF ReservesNothing, TypeOK, ABSENT, REQUESTED, GENERATING
  <2>1. CASE BeginRequest(c) \/ AbortRequest(c)
    BY <2>1 DEF BeginRequest, AbortRequest, rowVars, serverVars
  <2>2. CASE CommitRequest(c)
    BY <2>2 DEF CommitRequest, SaveScreenings, serverVars
  <2>3. CASE DeleteScreening(c)
    BY <2>3 DEF DeleteScreening, serverVars
  <2> QED
    BY <1>1, <2>1, <2>2, <2>3
<1>2. ASSUME NEW s \in Servers, ServerStep(s),
             ~CountGenerating(s), ~ListRequested(s), ~ClaimCommit(s)
      PROVE  Kept
  <2> USE DEF ReservesNothing, TypeOK, GENERATING, COMPLETED, FAILED
  <2>1. CASE ClaimRollback(s)
    BY <2>1 DEF ClaimRollback, BackToIdle, dbVars, rowVars
  <2>2. CASE StartScreening(s) \/ AnswerQuestion(s) \/ AnswerError(s)
    BY <2>2 DEF StartScreening, AnswerQuestion, AnswerError, dbVars, rowVars, ReservationsEnd
  <2>3. CASE BeginSuccess(s) \/ SuccessRollback(s)
    BY <2>3 DEF BeginSuccess, SuccessRollback, dbVars, rowVars, ReservationsEnd
  <2>4. CASE CommitSuccess(s) \/ RecordFailure(s)
    BY <2>4 DEF CommitSuccess, RecordFailure, SaveCompleted, SaveScreenings, NextScreening, ReservationsEnd
  <2>5. CASE FailureNotRecorded(s)
    BY <2>5 DEF FailureNotRecorded, NextScreening, dbVars, rowVars, ReservationsEnd
  <2>6. CASE ListStale(s)
    BY <2>6 DEF ListStale, dbVars, rowVars, ReservationsEnd
  <2>7. CASE FailStale(s)
    BY <2>7 DEF FailStale, SaveCompleted, SaveScreenings, BackToIdle
  <2>8. CASE SweepRollback(s)
    BY <2>8 DEF SweepRollback, BackToIdle, dbVars, rowVars
  <2> QED
    BY <1>2, <2>1, <2>2, <2>3, <2>4, <2>5, <2>6, <2>7, <2>8 DEF ServerStep
<1>3. ASSUME NEW s \in Servers, Crash(s)
      PROVE  Kept
  BY <1>3 DEF Crash, BackToIdle, dbVars, rowVars, ReservesNothing, TypeOK
<1>4. ASSUME Tick
      PROVE  Kept
  BY <1>4 DEF Tick, dbVars, rowVars, ReservesNothing
<1>5. ASSUME UNCHANGED vars
      PROVE  Kept
  BY <1>5 DEF vars, dbVars, rowVars, serverVars, ReservesNothing
<1>6. Kept => ReservationsEnd' /\ ClaimsBounded'
  BY BoundKept
<1> HIDE DEF Kept
<1>7. ASSUME NEW s \in Servers, CountGenerating(s) \/ ListRequested(s) \/ ClaimCommit(s)
      PROVE  ReservationsEnd' /\ ClaimsBounded'
  BY <1>7, CountStep, ListStep, CommitStep
<1> QED
  BY <1>1, <1>2, <1>3, <1>4, <1>5, <1>6, <1>7 DEF Next

LEMMA BoundInit == Init => ReservationsEnd /\ ClaimsBounded
<1> SUFFICES ASSUME Init
             PROVE  ReservationsEnd /\ ClaimsBounded
  OBVIOUS
<1>1. ReservationsEnd
  BY DEF Init, ReservationsEnd
<1>2. TypeOK
  BY ControlInit DEF ControlInvariant
<1>3. InProgress = {} /\ \A s \in Servers : Reserved[s] = 0
  BY DEF Init, InProgress, Reserved, ABSENT, GENERATING
<1>4. Units(Reserved, Servers) = {}
  BY <1>3 DEF Units
<1>5. Cardinality(Servers) * MaxConcurrent >= 0
  BY FS_CardinalityType, ConstantsAssumption
<1>6. Cardinality(InProgress) + Cardinality(Units(Reserved, Servers))
        <= Cardinality(Servers) * MaxConcurrent
  BY <1>3, <1>4, <1>5, FS_EmptySet
<1> QED
  BY <1>1, <1>2, <1>6, WithinByUnits, BoundIsWithin, ConstantsAssumption

LEMMA InductiveInit == Init => InductiveInvariant
BY ControlInit, BoundInit DEF ControlInvariant, InductiveInvariant, RowsAgree, AnswersAccounted,
   CompletedIsAnswered, Init, Busy, ABSENT, REQUESTED, GENERATING, COMPLETED

LEMMA InductiveStep ==
  ASSUME InductiveInvariant, [Next]_vars
  PROVE  InductiveInvariant'
<1>1. /\ ControlInvariant /\ RowsAgree /\ AnswersAccounted /\ CompletedIsAnswered
      /\ ReservationsEnd /\ ClaimsBounded
  BY DEF InductiveInvariant, ControlInvariant
<1>2. ControlInvariant' /\ RowsAgree' /\ AnswersAccounted' /\ CompletedIsAnswered'
  BY <1>1, ControlStep, RowsStep, AnswersStep
<1>3. ReservationsEnd' /\ ClaimsBounded'
  BY <1>1, <1>2, BoundStep DEF ControlInvariant
<1> QED
  BY <1>2, <1>3 DEF InductiveInvariant, ControlInvariant

(* The inductive invariant the runs check holds for every instance. *)
THEOREM InductiveInvariantCorrect == Spec => []InductiveInvariant
<1>1. Init => InductiveInvariant
  BY InductiveInit
<1>2. InductiveInvariant /\ [Next]_vars => InductiveInvariant'
  BY InductiveStep
<1> QED
  BY <1>1, <1>2, PTL DEF Spec

(* Work has its files and questions, and what is deleted leaves no answer. *)
THEOREM RowsCorrect == Spec => []RowsAgree
<1>1. InductiveInvariant => RowsAgree
  BY DEF InductiveInvariant
<1> QED
  BY InductiveInvariantCorrect, <1>1, PTL

(* A screening shown as completed has one answer for each of its questions. *)
THEOREM CompletedCorrect == Spec => []CompletedIsAnswered
<1>1. InductiveInvariant => CompletedIsAnswered
  BY DEF InductiveInvariant
<1> QED
  BY InductiveInvariantCorrect, <1>1, PTL

(* However many servers race, no more screenings are in progress, or claimed   *)
(* and about to be, than one maximum for each server.                        *)
THEOREM ConcurrencyBounded == Spec => []ClaimsBounded
<1>1. InductiveInvariant => ClaimsBounded
  BY DEF InductiveInvariant
<1> QED
  BY InductiveInvariantCorrect, <1>1, PTL
===============================================================================

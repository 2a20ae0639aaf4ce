------------------------ MODULE FileProcessing_proofs ------------------------
(***************************************************************************)
(* Proofs about FileProcessing for any number of servers and files, any    *)
(* limits and timeouts: the inductive invariant and what follows from it.  *)
(***************************************************************************)
EXTENDS FileProcessing, CountingTheorems, FiniteSetTheorems, TLAPS

(* The loop over the batch always finds its next file. *)
LEMMA CurrentInBatch ==
  ASSUME TypeOK, NEW s \in Servers, batch[s] # {}
  PROVE  Current(s) \in batch[s] /\ Current(s) \in Files
<1>1. batch[s] \in SUBSET Nat
  BY ConstantsAssumption DEF TypeOK
<1> QED
  BY <1>1, MinInSet DEF TypeOK, Current

(* The number of workers available never exceeds maxConcurrentFiles. *)
LEMMA WorkersAvailableType ==
  WorkersAvailable(Cardinality(ListProcessing)) \in 0..MaxConcurrent
<1>1. Cardinality(ListProcessing) \in Nat
  <2>1. ListProcessing \in SUBSET Files
    BY DEF ListProcessing, Newest, WithStatus
  <2> QED
    BY <2>1, FS_Subset, FS_CardinalityType, ConstantsAssumption
<1> QED
  BY <1>1, ConstantsAssumption DEF WorkersAvailable

(* A claim takes uploaded rows, and none while another claim is open. *)
LEMMA OldestLockable ==
  ASSUME NEW n
  PROVE  /\ Oldest(Lockable, n) \subseteq {f \in Files : status[f] = UPLOADED}
         /\ Oldest(Lockable, n) # {} => ~ClaimOpen
BY DEF Oldest, Lockable, WithStatus

LEMMA StaleFilesProcessing ==
  StaleFiles \subseteq {f \in Files : status[f] = PROCESSING}
BY DEF StaleFiles, Newest, WithStatus

-------------------------------------------------------------------------------
(* Every step keeps the type invariant. *)
LEMMA TypeStep ==
  ASSUME TypeOK, [Next]_vars
  PROVE  TypeOK'
<1> USE ConstantsAssumption DEF TypeOK, FileStatus, Terminal, PC, StaleAge
<1>1. ASSUME NEW f \in Files, BeginInsert(f) \/ InsertEnds(f)
      PROVE  TypeOK'
  <2>1. CASE BeginInsert(f)
    BY <2>1 DEF BeginInsert, dbVars, serverVars
  <2>2. CASE CommitInsert(f)
    BY <2>2 DEF CommitInsert, SaveFiles, serverVars
  <2>3. CASE AbortInsert(f)
    BY <2>3 DEF AbortInsert, Fault, dbVars, serverVars
  <2> QED
    BY <1>1, <2>1, <2>2, <2>3 DEF InsertEnds
<1>2. ASSUME NEW s \in Servers, ServerStep(s)
      PROVE  TypeOK'
  <2>1. CASE CountProcessing(s)
    BY <2>1, WorkersAvailableType DEF CountProcessing, dbVars
  <2>2. CASE ListUploaded(s)
    BY <2>2, OldestLockable DEF ListUploaded, dbVars
  <2>3. CASE ClaimCommit(s)
    BY <2>3 DEF ClaimCommit, SaveFiles, UPLOADED, PROCESSING
  <2>4. CASE ClaimRollback(s)
    BY <2>4 DEF ClaimRollback, Fault, BackToIdle, dbVars
  <2>5. CASE StartFile(s)
    BY <2>5 DEF StartFile, dbVars
  <2>6. CASE SaveDocument(s)
    <3>1. docs' \in [Files -> Nat]
      <4>1. \A f \in Files : docs[f] + 1 \in Nat
        OBVIOUS
      <4> QED
        BY <2>6, <4>1 DEF SaveDocument
    <3>2. saved' \in [Servers -> Nat]
      BY <2>6 DEF SaveDocument
    <3> QED
      BY <2>6, <3>1, <3>2 DEF SaveDocument, dbVars
  <2>7. CASE ProcessingError(s)
    BY <2>7 DEF ProcessingError, dbVars
  <2>8. CASE BeginSuccess(s)
    BY <2>8 DEF BeginSuccess, dbVars
  <2>9. CASE CommitSuccess(s)
    BY <2>9 DEF CommitSuccess, SaveCompleted, SaveFiles, NextFile
  <2>10. CASE SuccessRollback(s)
    BY <2>10 DEF SuccessRollback, Fault, dbVars
  <2>11. CASE RecordFailure(s)
    BY <2>11 DEF RecordFailure, SaveCompleted, SaveFiles, NextFile
  <2>12. CASE FailureNotRecorded(s)
    BY <2>12 DEF FailureNotRecorded, Fault, NextFile, dbVars
  <2>13. CASE ListStale(s)
    BY <2>13, StaleFilesProcessing DEF ListStale, dbVars
  <2>14. CASE FailStale(s)
    BY <2>14 DEF FailStale, SaveCompleted, SaveFiles, BackToIdle
  <2>15. CASE SweepRollback(s)
    BY <2>15 DEF SweepRollback, Fault, BackToIdle, dbVars
  <2> QED
    BY <1>2, <2>1, <2>2, <2>3, <2>4, <2>5, <2>6, <2>7, <2>8, <2>9, <2>10, <2>11,
       <2>12, <2>13, <2>14, <2>15 DEF ServerStep
<1>3. ASSUME NEW s \in Servers, Crash(s)
      PROVE  TypeOK'
  BY <1>3 DEF Crash, Fault, BackToIdle, dbVars
<1>4. CASE Tick
  BY <1>4 DEF Tick, dbVars
<1>5. CASE UNCHANGED vars
  BY <1>5 DEF vars, dbVars, serverVars
<1> QED
  BY <1>1, <1>2, <1>3, <1>4, <1>5 DEF Next, Work

(* Type correctness of the pipeline. *)
THEOREM TypeCorrect == Spec => []TypeOK
<1>1. Init => TypeOK
  BY ConstantsAssumption DEF Init, TypeOK, FileStatus, PC, StaleAge
<1>2. TypeOK /\ [Next]_vars => TypeOK'
  BY TypeStep
<1> QED
  BY <1>1, <1>2, PTL DEF Spec

-------------------------------------------------------------------------------
(* The control part of the inductive invariant, and the steps of its proof. *)
ControlInvariant ==
  /\ TypeOK
  /\ EventsTellStatus
  /\ ClaimsExclusive
  /\ HandsMatchPC
  /\ WritesApply

LEMMA HandsStep ==
  ASSUME TypeOK, HandsMatchPC, [Next]_vars
  PROVE  HandsMatchPC'
<1> USE DEF TypeOK, HandsMatchPC, Busy
<1>1. ASSUME NEW f \in Files, BeginInsert(f) \/ InsertEnds(f)
      PROVE  HandsMatchPC'
  <2>1. CASE BeginInsert(f)
    BY <2>1 DEF BeginInsert, dbVars, serverVars
  <2>2. CASE CommitInsert(f)
    BY <2>2 DEF CommitInsert, SaveFiles, serverVars
  <2>3. CASE AbortInsert(f)
    BY <2>3 DEF AbortInsert, dbVars, serverVars
  <2> QED
    BY <1>1, <2>1, <2>2, <2>3 DEF InsertEnds
<1>2. ASSUME NEW s \in Servers, ServerStep(s)
      PROVE  HandsMatchPC'
  <2>1. CASE CountProcessing(s)
    BY <2>1 DEF CountProcessing, dbVars
  <2>2. CASE ListUploaded(s)
    BY <2>2 DEF ListUploaded, dbVars
  <2>3. CASE ClaimCommit(s)
    BY <2>3 DEF ClaimCommit, SaveFiles
  <2>4. CASE ClaimRollback(s)
    BY <2>4 DEF ClaimRollback, BackToIdle, dbVars
  <2>5. CASE StartFile(s)
    BY <2>5 DEF StartFile, dbVars
  <2>6. CASE SaveDocument(s)
    BY <2>6 DEF SaveDocument, dbVars
  <2>7. CASE ProcessingError(s)
    BY <2>7 DEF ProcessingError, dbVars
  <2>8. CASE BeginSuccess(s)
    BY <2>8 DEF BeginSuccess, dbVars
  <2>9. CASE CommitSuccess(s)
    BY <2>9 DEF CommitSuccess, SaveCompleted, Saveable, SaveFiles, NextFile
  <2>10. CASE SuccessRollback(s)
    BY <2>10 DEF SuccessRollback, dbVars
  <2>11. CASE RecordFailure(s)
    BY <2>11 DEF RecordFailure, SaveCompleted, Saveable, SaveFiles, NextFile
  <2>12. CASE FailureNotRecorded(s)
    BY <2>12 DEF FailureNotRecorded, NextFile, dbVars
  <2>13. CASE ListStale(s)
    BY <2>13 DEF ListStale, dbVars
  <2>14. CASE FailStale(s)
    BY <2>14 DEF FailStale, SaveCompleted, Saveable, SaveFiles, BackToIdle
  <2>15. CASE SweepRollback(s)
    BY <2>15 DEF SweepRollback, BackToIdle, dbVars
  <2> QED
    BY <1>2, <2>1, <2>2, <2>3, <2>4, <2>5, <2>6, <2>7, <2>8, <2>9, <2>10, <2>11,
       <2>12, <2>13, <2>14, <2>15 DEF ServerStep
<1>3. ASSUME NEW s \in Servers, Crash(s)
      PROVE  HandsMatchPC'
  BY <1>3 DEF Crash, BackToIdle, dbVars
<1>4. CASE Tick
  BY <1>4 DEF Tick, dbVars
<1>5. CASE UNCHANGED vars
  BY <1>5 DEF vars, dbVars, serverVars
<1> QED
  BY <1>1, <1>2, <1>3, <1>4, <1>5 DEF Next, Work

(* A row moves only along the life of a file, with the event of its new      *)
(* status: what every write of the pipeline does, whatever it raced with.    *)
RowMoves(f) ==
  \/ status'[f] = status[f] /\ events'[f] = events[f]
  \/ /\ \/ status[f] = ABSENT /\ status'[f] = UPLOADED
        \/ status[f] = UPLOADED /\ status'[f] = PROCESSING
        \/ /\ status[f] \in {PROCESSING} \cup Terminal
           /\ status'[f] \in Terminal \ events[f]
     /\ events'[f] = events[f] \cup {status'[f]}

LEMMA RowsMove ==
  ASSUME ControlInvariant, [Next]_vars
  PROVE  \A f \in Files : RowMoves(f)
<1> SUFFICES ASSUME NEW g \in Files
             PROVE  RowMoves(g)
  OBVIOUS
<1> USE DEF ControlInvariant, TypeOK, ClaimsExclusive, HandsMatchPC, WritesApply, Busy, RowMoves, Terminal
<1>1. ASSUME NEW f \in Files, BeginInsert(f) \/ InsertEnds(f)
      PROVE  RowMoves(g)
  <2>1. CASE BeginInsert(f)
    BY <2>1 DEF BeginInsert, dbVars, serverVars
  <2>2. CASE CommitInsert(f)
    BY <2>2 DEF CommitInsert, SaveFiles, serverVars
  <2>3. CASE AbortInsert(f)
    BY <2>3 DEF AbortInsert, dbVars, serverVars
  <2> QED
    BY <1>1, <2>1, <2>2, <2>3 DEF InsertEnds
<1>2. ASSUME NEW s \in Servers, ServerStep(s)
      PROVE  RowMoves(g)
  <2>1. CASE CountProcessing(s)
    BY <2>1 DEF CountProcessing, dbVars
  <2>2. CASE ListUploaded(s)
    BY <2>2 DEF ListUploaded, dbVars
  <2>3. CASE ClaimCommit(s)
    BY <2>3 DEF ClaimCommit, SaveFiles
  <2>4. CASE ClaimRollback(s)
    BY <2>4 DEF ClaimRollback, BackToIdle, dbVars
  <2>5. CASE StartFile(s)
    BY <2>5 DEF StartFile, dbVars
  <2>6. CASE SaveDocument(s)
    BY <2>6 DEF SaveDocument, dbVars
  <2>7. CASE ProcessingError(s)
    BY <2>7 DEF ProcessingError, dbVars
  <2>8. CASE BeginSuccess(s)
    BY <2>8 DEF BeginSuccess, dbVars
  <2>9. CASE CommitSuccess(s)
    BY <2>9, CurrentInBatch DEF CommitSuccess, SaveCompleted, Saveable, SaveFiles, NextFile
  <2>10. CASE SuccessRollback(s)
    BY <2>10 DEF SuccessRollback, dbVars
  <2>11. CASE RecordFailure(s)
    BY <2>11, CurrentInBatch DEF RecordFailure, SaveCompleted, Saveable, SaveFiles, NextFile
  <2>12. CASE FailureNotRecorded(s)
    BY <2>12 DEF FailureNotRecorded, NextFile, dbVars
  <2>13. CASE ListStale(s)
    BY <2>13 DEF ListStale, dbVars
  <2>14. CASE FailStale(s)
    BY <2>14 DEF FailStale, SaveCompleted, Saveable, SaveFiles, BackToIdle
  <2>15. CASE SweepRollback(s)
    BY <2>15 DEF SweepRollback, BackToIdle, dbVars
  <2> QED
    BY <1>2, <2>1, <2>2, <2>3, <2>4, <2>5, <2>6, <2>7, <2>8, <2>9, <2>10, <2>11,
       <2>12, <2>13, <2>14, <2>15 DEF ServerStep
<1>3. ASSUME NEW s \in Servers, Crash(s)
      PROVE  RowMoves(g)
  BY <1>3 DEF Crash, BackToIdle, dbVars
<1>4. CASE Tick
  BY <1>4 DEF Tick, dbVars
<1>5. CASE UNCHANGED vars
  BY <1>5 DEF vars, dbVars, serverVars
<1> QED
  BY <1>1, <1>2, <1>3, <1>4, <1>5 DEF Next, Work

LEMMA EventsStep ==
  ASSUME ControlInvariant, [Next]_vars
  PROVE  EventsTellStatus'
<1> SUFFICES ASSUME NEW f \in Files
             PROVE  EventsTellStatus!(f)'
  BY DEF EventsTellStatus
<1>1. RowMoves(f)
  BY RowsMove
<1> QED
  BY <1>1 DEF RowMoves, ControlInvariant, EventsTellStatus, Terminal, ABSENT, UPLOADED, PROCESSING, PROCESSED_SUCCESSFULLY,
         PROCESSING_FAILED

LEMMA ClaimsStep ==
  ASSUME ControlInvariant, [Next]_vars
  PROVE  ClaimsExclusive'
<1> USE DEF ControlInvariant, TypeOK, ClaimsExclusive, HandsMatchPC, Busy
<1>1. ASSUME NEW f \in Files, BeginInsert(f) \/ InsertEnds(f)
      PROVE  ClaimsExclusive'
  <2>1. CASE BeginInsert(f)
    BY <2>1 DEF BeginInsert, dbVars, serverVars
  <2>2. CASE CommitInsert(f)
    BY <2>2 DEF CommitInsert, SaveFiles, serverVars, WritesApply,
        ABSENT, UPLOADED, PROCESSING, PROCESSED_SUCCESSFULLY,
         PROCESSING_FAILED
  <2>3. CASE AbortInsert(f)
    BY <2>3 DEF AbortInsert, dbVars, serverVars
  <2> QED
    BY <1>1, <2>1, <2>2, <2>3 DEF InsertEnds
<1>2. ASSUME NEW s \in Servers, ServerStep(s)
      PROVE  ClaimsExclusive'
  <2>1. CASE CountProcessing(s)
    BY <2>1 DEF CountProcessing, dbVars
  <2>2. CASE ListUploaded(s)
    BY <2>2, OldestLockable DEF ListUploaded, dbVars, ClaimOpen, ABSENT, UPLOADED, PROCESSING, PROCESSED_SUCCESSFULLY,
         PROCESSING_FAILED
  <2>3. CASE ClaimCommit(s)
    BY <2>3 DEF ClaimCommit, SaveFiles, ABSENT, UPLOADED, PROCESSING, PROCESSED_SUCCESSFULLY,
         PROCESSING_FAILED
  <2>4. CASE ClaimRollback(s)
    BY <2>4 DEF ClaimRollback, BackToIdle, dbVars
  <2>5. CASE StartFile(s)
    BY <2>5 DEF StartFile, dbVars
  <2>6. CASE SaveDocument(s)
    BY <2>6 DEF SaveDocument, dbVars
  <2>7. CASE ProcessingError(s)
    BY <2>7 DEF ProcessingError, dbVars
  <2>8. CASE BeginSuccess(s)
    BY <2>8 DEF BeginSuccess, dbVars
  <2>9. CASE CommitSuccess(s)
    BY <2>9, CurrentInBatch DEF CommitSuccess, SaveCompleted, Saveable, SaveFiles, NextFile
  <2>10. CASE SuccessRollback(s)
    BY <2>10 DEF SuccessRollback, dbVars
  <2>11. CASE RecordFailure(s)
    BY <2>11, CurrentInBatch DEF RecordFailure, SaveCompleted, Saveable, SaveFiles, NextFile
  <2>12. CASE FailureNotRecorded(s)
    BY <2>12 DEF FailureNotRecorded, NextFile, dbVars
  <2>13. CASE ListStale(s)
    BY <2>13 DEF ListStale, dbVars
  <2>14. CASE FailStale(s)
    BY <2>14 DEF FailStale, SaveCompleted, Saveable, SaveFiles, BackToIdle, WritesApply, Terminal, ABSENT, UPLOADED, PROCESSING, PROCESSED_SUCCESSFULLY,
         PROCESSING_FAILED
  <2>15. CASE SweepRollback(s)
    BY <2>15 DEF SweepRollback, BackToIdle, dbVars
  <2> QED
    BY <1>2, <2>1, <2>2, <2>3, <2>4, <2>5, <2>6, <2>7, <2>8, <2>9, <2>10, <2>11,
       <2>12, <2>13, <2>14, <2>15 DEF ServerStep
<1>3. ASSUME NEW s \in Servers, Crash(s)
      PROVE  ClaimsExclusive'
  BY <1>3 DEF Crash, BackToIdle, dbVars
<1>4. CASE Tick
  BY <1>4 DEF Tick, dbVars
<1>5. CASE UNCHANGED vars
  BY <1>5 DEF vars, dbVars, serverVars
<1> QED
  BY <1>1, <1>2, <1>3, <1>4, <1>5 DEF Next, Work

LEMMA WritesStep ==
  ASSUME ControlInvariant, [Next]_vars
  PROVE  WritesApply'
<1> USE DEF ControlInvariant, TypeOK, WritesApply, HandsMatchPC, ClaimsExclusive, Busy, Terminal
<1>1. ASSUME NEW f \in Files, BeginInsert(f) \/ InsertEnds(f)
      PROVE  WritesApply'
  <2>1. CASE BeginInsert(f)
    BY <2>1 DEF BeginInsert, dbVars, serverVars
  <2>2. CASE CommitInsert(f)
    BY <2>2 DEF CommitInsert, SaveFiles, serverVars,
        ABSENT, UPLOADED, PROCESSING, PROCESSED_SUCCESSFULLY,
         PROCESSING_FAILED
  <2>3. CASE AbortInsert(f)
    BY <2>3 DEF AbortInsert, dbVars, serverVars
  <2> QED
    BY <1>1, <2>1, <2>2, <2>3 DEF InsertEnds
<1>2. ASSUME NEW s \in Servers, ServerStep(s)
      PROVE  WritesApply'
  <2>1. CASE CountProcessing(s)
    BY <2>1 DEF CountProcessing, dbVars
  <2>2. CASE ListUploaded(s)
    BY <2>2 DEF ListUploaded, dbVars
  <2>3. CASE ClaimCommit(s)
    BY <2>3 DEF ClaimCommit, SaveFiles, ABSENT, UPLOADED, PROCESSING, PROCESSED_SUCCESSFULLY,
         PROCESSING_FAILED
  <2>4. CASE ClaimRollback(s)
    BY <2>4 DEF ClaimRollback, BackToIdle, dbVars
  <2>5. CASE StartFile(s)
    BY <2>5 DEF StartFile, dbVars
  <2>6. CASE SaveDocument(s)
    BY <2>6 DEF SaveDocument, dbVars
  <2>7. CASE ProcessingError(s)
    BY <2>7 DEF ProcessingError, dbVars
  <2>8. CASE BeginSuccess(s)
    BY <2>8 DEF BeginSuccess, dbVars
  <2>9. CASE CommitSuccess(s)
    BY <2>9, CurrentInBatch DEF CommitSuccess, SaveCompleted, Saveable, SaveFiles, NextFile, ABSENT, UPLOADED, PROCESSING, PROCESSED_SUCCESSFULLY,
         PROCESSING_FAILED
  <2>10. CASE SuccessRollback(s)
    BY <2>10 DEF SuccessRollback, dbVars
  <2>11. CASE RecordFailure(s)
    BY <2>11, CurrentInBatch DEF RecordFailure, SaveCompleted, Saveable, SaveFiles, NextFile, ABSENT, UPLOADED, PROCESSING, PROCESSED_SUCCESSFULLY,
         PROCESSING_FAILED
  <2>12. CASE FailureNotRecorded(s)
    BY <2>12 DEF FailureNotRecorded, NextFile, dbVars
  <2>13. CASE ListStale(s)
    BY <2>13, StaleFilesProcessing DEF ListStale, dbVars
  <2>14. CASE FailStale(s)
    BY <2>14 DEF FailStale, SaveCompleted, Saveable, SaveFiles, BackToIdle, ABSENT, UPLOADED, PROCESSING, PROCESSED_SUCCESSFULLY,
         PROCESSING_FAILED
  <2>15. CASE SweepRollback(s)
    BY <2>15 DEF SweepRollback, BackToIdle, dbVars
  <2> QED
    BY <1>2, <2>1, <2>2, <2>3, <2>4, <2>5, <2>6, <2>7, <2>8, <2>9, <2>10, <2>11,
       <2>12, <2>13, <2>14, <2>15 DEF ServerStep
<1>3. ASSUME NEW s \in Servers, Crash(s)
      PROVE  WritesApply'
  BY <1>3 DEF Crash, BackToIdle, dbVars
<1>4. CASE Tick
  BY <1>4 DEF Tick, dbVars
<1>5. CASE UNCHANGED vars
  BY <1>5 DEF vars, dbVars, serverVars
<1> QED
  BY <1>1, <1>2, <1>3, <1>4, <1>5 DEF Next, Work

LEMMA ControlInit == Init => ControlInvariant
BY ConstantsAssumption DEF Init, ControlInvariant, TypeOK, FileStatus, PC, StaleAge,
   EventsTellStatus, ClaimsExclusive, HandsMatchPC, WritesApply, Busy, Terminal,
   ABSENT, UPLOADED, PROCESSING, PROCESSED_SUCCESSFULLY,
         PROCESSING_FAILED

LEMMA ControlStep ==
  ASSUME ControlInvariant, [Next]_vars
  PROVE  ControlInvariant'
<1> USE DEF ControlInvariant
<1>1. TypeOK'
  BY TypeStep
<1>2. HandsMatchPC'
  BY HandsStep
<1> QED
  BY <1>1, <1>2, EventsStep, ClaimsStep, WritesStep

(* The events of every file tell its life, so that no PROCESSING row is      *)
(* beyond the sweep and no row is lost to the inner joins.                   *)
THEOREM EventsCorrect == Spec => []EventsTellStatus
<1>1. ControlInvariant => EventsTellStatus
  BY DEF ControlInvariant
<1> QED
  BY ControlInit, ControlStep, <1>1, PTL DEF Spec

(* Two servers never hold the same file. *)
THEOREM ClaimsCorrect == Spec => []ClaimsExclusive
<1>1. ControlInvariant => ClaimsExclusive
  BY DEF ControlInvariant
<1> QED
  BY ControlInit, ControlStep, <1>1, PTL DEF Spec

(* No status moves back, and no outcome is written twice. *)
THEOREM StatusMovesCorrect == Spec => StatusMoves
<1>1. ControlInvariant /\ [Next]_vars => \A f \in Files : RowMoves(f)
  BY RowsMove
<1>2. ASSUME \A f \in Files : RowMoves(f)
      PROVE  OnlyForward
  BY <1>2 DEF RowMoves, OnlyForward
<1> QED
  BY ControlInit, ControlStep, <1>1, <1>2, PTL DEF Spec, StatusMoves

-------------------------------------------------------------------------------
(* The refinement: the rows, read as jobs, make the steps of the queue. *)
Rows == <<status, events>>

LEMMA SubmitStep ==
  ASSUME ControlInvariant, NEW f \in Files, CommitInsert(f)
  PROVE  Queue!Submit(f)
<1>1. /\ f \in inserting /\ status[f] = ABSENT
      /\ status' = [g \in Files |-> IF g = f THEN UPLOADED ELSE status[g]]
      /\ events' = [g \in Files |-> IF g = f THEN events[g] \cup {UPLOADED} ELSE events[g]]
  BY DEF CommitInsert, SaveFiles, ControlInvariant, WritesApply
<1>2. /\ [g \in Files |-> JobPhase(g)]' = [[g \in Files |-> JobPhase(g)] EXCEPT ![f] = "pending"]
      /\ JobPhase(f) = "absent"
  BY <1>1 DEF JobPhase, ABSENT, UPLOADED, PROCESSING
<1>3. UNCHANGED [g \in Files |-> IF status[g] \in Terminal THEN status[g] ELSE "none"]
  BY <1>1 DEF Terminal, ABSENT, UPLOADED, PROCESSED_SUCCESSFULLY, PROCESSING_FAILED
<1>4. UNCHANGED [g \in Files |-> events[g] \cap Terminal]
  BY <1>1 DEF Terminal, UPLOADED, PROCESSED_SUCCESSFULLY, PROCESSING_FAILED
<1> QED
  BY <1>2, <1>3, <1>4 DEF Queue!Submit

LEMMA ClaimStep ==
  ASSUME ControlInvariant, NEW s \in Servers, ClaimCommit(s)
  PROVE  Queue!Claim(batch[s]) \/ UNCHANGED Rows
<1> DEFINE S == batch[s]
<1>1. /\ S \subseteq Files
      /\ \A f \in S : status[f] = UPLOADED
      /\ status' = [g \in Files |-> IF g \in S THEN PROCESSING ELSE status[g]]
      /\ events' = [g \in Files |-> IF g \in S THEN events[g] \cup {PROCESSING} ELSE events[g]]
  BY DEF ClaimCommit, SaveFiles, ControlInvariant, TypeOK, ClaimsExclusive
<1>2. /\ status \in [Files -> FileStatus \cup {ABSENT}]
      /\ events \in [Files -> SUBSET FileStatus]
  BY DEF ControlInvariant, TypeOK
<1> HIDE DEF S
<1>3. CASE S = {}
  BY <1>1, <1>2, <1>3 DEF Rows
<1>4. CASE S # {}
  <2>1. /\ [g \in Files |-> JobPhase(g)]' =
             [g \in Files |-> IF g \in S THEN "running" ELSE [h \in Files |-> JobPhase(h)][g]]
        /\ \A f \in S : JobPhase(f) = "pending"
    BY <1>1 DEF JobPhase, ABSENT, UPLOADED, PROCESSING
  <2>2. UNCHANGED [g \in Files |-> IF status[g] \in Terminal THEN status[g] ELSE "none"]
    BY <1>1 DEF Terminal, UPLOADED, PROCESSING, PROCESSED_SUCCESSFULLY, PROCESSING_FAILED
  <2>3. UNCHANGED [g \in Files |-> events[g] \cap Terminal]
    BY <1>1 DEF Terminal, PROCESSING, PROCESSED_SUCCESSFULLY, PROCESSING_FAILED
  <2>4. Queue!Claim(S)
    BY <1>1, <1>4, <2>1, <2>2, <2>3 DEF Queue!Claim
  <2> QED
    BY <2>4 DEF S
<1> QED
  BY <1>3, <1>4

LEMMA RecordStep ==
  ASSUME ControlInvariant, NEW S \in SUBSET Files, NEW st \in Terminal, SaveCompleted(S, st),
         \A f \in S : status[f] \in {PROCESSING} \cup Terminal
  PROVE  Queue!Record(S, st) \/ UNCHANGED Rows
<1>1. /\ \A f \in S : st \notin events[f]
      /\ status' = [g \in Files |-> IF g \in S THEN st ELSE status[g]]
      /\ events' = [g \in Files |-> IF g \in S THEN events[g] \cup {st} ELSE events[g]]
  BY DEF SaveCompleted, Saveable, SaveFiles
<1>2. /\ status \in [Files -> FileStatus \cup {ABSENT}]
      /\ events \in [Files -> SUBSET FileStatus]
  BY DEF ControlInvariant, TypeOK
<1>3. CASE S = {}
  BY <1>1, <1>2, <1>3 DEF Rows
<1>4. CASE S # {}
  <2> DEFINE phase == [g \in Files |-> JobPhase(g)]
             outcome == [g \in Files |-> IF status[g] \in Terminal THEN status[g] ELSE "none"]
             recorded == [g \in Files |-> events[g] \cap Terminal]
  <2>1. /\ phase' = [g \in Files |-> IF g \in S THEN "settled" ELSE phase[g]]
        /\ \A f \in S : phase[f] \in {"running", "settled"}
    BY <1>1 DEF JobPhase, Terminal, ABSENT, UPLOADED, PROCESSING, PROCESSED_SUCCESSFULLY,
                PROCESSING_FAILED
  <2>2. outcome' = [g \in Files |-> IF g \in S THEN st ELSE outcome[g]]
    BY <1>1
  <2>3. /\ recorded' = [g \in Files |-> IF g \in S THEN recorded[g] \cup {st} ELSE recorded[g]]
        /\ \A f \in S : st \notin recorded[f]
    <3>1. \A g \in Files : (events[g] \cup {st}) \cap Terminal = (events[g] \cap Terminal) \cup {st}
      OBVIOUS
    <3> QED
      BY <1>1, <3>1
  <2> QED
    BY <1>4, <2>1, <2>2, <2>3 DEF Queue!Record
<1> QED
  BY <1>3, <1>4

(* Every step of the pipeline is one of the queue, or writes no row. *)
LEMMA QueueStep ==
  ASSUME ControlInvariant, [Next]_vars
  PROVE  Queue!Next \/ UNCHANGED Rows
<1>1. ASSUME NEW f \in Files, BeginInsert(f) \/ InsertEnds(f)
      PROVE  Queue!Next \/ UNCHANGED Rows
  <2>1. CASE BeginInsert(f)
    BY <2>1 DEF BeginInsert, dbVars, Rows
  <2>2. CASE CommitInsert(f)
    BY <2>2, SubmitStep DEF Queue!Next
  <2>3. CASE AbortInsert(f)
    BY <2>3 DEF AbortInsert, dbVars, Rows
  <2> QED
    BY <1>1, <2>1, <2>2, <2>3 DEF InsertEnds
<1>2. ASSUME NEW s \in Servers, ServerStep(s)
      PROVE  Queue!Next \/ UNCHANGED Rows
  <2>1. CASE ClaimCommit(s)
    <3>1. batch[s] \in SUBSET Files
      BY DEF ControlInvariant, TypeOK
    <3> QED
      BY <2>1, <3>1, ClaimStep DEF Queue!Next
  <2>2. CASE CommitSuccess(s) \/ RecordFailure(s)
    <3>1. /\ {Current(s)} \in SUBSET Files
          /\ \A f \in {Current(s)} : status[f] \in {PROCESSING} \cup Terminal
      BY <2>2, CurrentInBatch
         DEF CommitSuccess, RecordFailure, ControlInvariant, HandsMatchPC, ClaimsExclusive, Busy,
             Terminal
    <3>2. PICK st \in Terminal : SaveCompleted({Current(s)}, st)
      BY <2>2 DEF CommitSuccess, RecordFailure, Terminal
    <3> QED
      BY <3>1, <3>2, RecordStep DEF Queue!Next
  <2>3. CASE FailStale(s)
    <3>1. /\ stale[s] \in SUBSET Files
          /\ \A f \in stale[s] : status[f] \in {PROCESSING} \cup Terminal
      BY DEF ControlInvariant, TypeOK, WritesApply
    <3>2. SaveCompleted(stale[s], PROCESSING_FAILED) /\ PROCESSING_FAILED \in Terminal
      BY <2>3 DEF FailStale, Terminal
    <3> QED
      BY <3>1, <3>2, RecordStep DEF Queue!Next
  <2>4. CASE UNCHANGED Rows
    BY <2>4
  <2> QED
    BY <1>2, <2>1, <2>2, <2>3, <2>4
       DEF ServerStep, CountProcessing, ListUploaded, ClaimRollback, StartFile, SaveDocument,
           ProcessingError, BeginSuccess, SuccessRollback, FailureNotRecorded, ListStale,
           SweepRollback, dbVars, Rows
<1>3. CASE UNCHANGED Rows
  BY <1>3
<1> QED
  BY <1>1, <1>2, <1>3 DEF Next, Work, Crash, Tick, vars, dbVars, Rows

(* The pipeline implements the queue, as far as safety goes: every file is    *)
(* submitted once, claimed once, and no outcome is recorded twice for it.     *)
THEOREM QueueImplemented == Spec => Queue!SafeSpec
<1>1. Init => Queue!Init
  BY DEF Init, Queue!Init, JobPhase, Terminal, Queue!NoOutcome, ABSENT, UPLOADED, PROCESSING,
         PROCESSED_SUCCESSFULLY, PROCESSING_FAILED
<1>2. UNCHANGED Rows => UNCHANGED Queue!jobVars
  BY DEF Rows, Queue!jobVars, JobPhase
<1>3. ControlInvariant /\ [Next]_vars => [Queue!Next]_Queue!jobVars
  BY <1>2, QueueStep
<1> QED
  BY ControlInit, ControlStep, <1>1, <1>3, PTL DEF Spec, Queue!SafeSpec

-------------------------------------------------------------------------------
(* Documents: what the retriever holds of each file. *)
LEMMA DocumentsStep ==
  ASSUME ControlInvariant, DocumentsAccounted, SuccessMeansIndexed, [Next]_vars
  PROVE  DocumentsAccounted' /\ SuccessMeansIndexed'
<1> USE ConstantsAssumption, CurrentInBatch
    DEF ControlInvariant, TypeOK, ClaimsExclusive, HandsMatchPC, DocumentsAccounted,
        SuccessMeansIndexed, Busy, Current, Terminal, ABSENT, UPLOADED, PROCESSING, PROCESSED_SUCCESSFULLY,
         PROCESSING_FAILED
<1>1. ASSUME NEW f \in Files, BeginInsert(f) \/ InsertEnds(f)
      PROVE  DocumentsAccounted' /\ SuccessMeansIndexed'
  <2>1. CASE BeginInsert(f)
    BY <2>1 DEF BeginInsert, dbVars, serverVars
  <2>2. CASE CommitInsert(f)
    BY <2>2 DEF CommitInsert, SaveFiles, serverVars,
        WritesApply
  <2>3. CASE AbortInsert(f)
    BY <2>3 DEF AbortInsert, dbVars, serverVars
  <2> QED
    BY <1>1, <2>1, <2>2, <2>3 DEF InsertEnds
<1>2. ASSUME NEW s \in Servers, ServerStep(s)
      PROVE  DocumentsAccounted' /\ SuccessMeansIndexed'
  <2>1. CASE CountProcessing(s)
    BY <2>1 DEF CountProcessing, dbVars
  <2>2. CASE ListUploaded(s)
    <3>1. /\ batch'[s] \subseteq {f \in Files : status[f] = UPLOADED}
          /\ \A q \in Servers \ {s} : batch'[q] = batch[q] /\ pc'[q] = pc[q]
          /\ pc'[s] \in {"ready", "claimed"}
          /\ UNCHANGED <<status, docs, saved>>
      <4> HIDE CurrentInBatch DEF HandsMatchPC, ClaimsExclusive, DocumentsAccounted, SuccessMeansIndexed
      <4> QED
        BY <2>2, OldestLockable DEF ListUploaded, dbVars
    <3>2. \A f \in batch'[s] : docs'[f] = 0
      BY <3>1
    <3> HIDE CurrentInBatch DEF ControlInvariant, TypeOK, HandsMatchPC, ClaimsExclusive
    <3>3. ASSUME NEW q \in Servers
          PROVE  /\ \A f \in batch'[q] : ~(Busy(q) /\ f = Current(q))' => docs'[f] = 0
                 /\ pc'[q] \in {"processing", "completing"} => docs'[Current(q)'] = saved'[q]
                 /\ pc'[q] = "completing" => saved'[q] = DocCount[Current(q)']
      <4>1. CASE q = s
        BY <3>1, <3>2, <4>1
      <4>2. CASE q # s
        BY <3>1, <4>2
      <4> QED
        BY <4>1, <4>2
    <3> HIDE DEF Current, Busy
    <3> QED
      BY <3>1, <3>3
  <2>3. CASE ClaimCommit(s)
    BY <2>3 DEF ClaimCommit, SaveFiles
  <2>4. CASE ClaimRollback(s)
    BY <2>4 DEF ClaimRollback, BackToIdle, dbVars
  <2>5. CASE StartFile(s)
    <3>1. batch[s] # {} /\ Current(s) \in batch[s] /\ docs[Current(s)] = 0
      <4>1. pc[s] = "ready" /\ batch[s] # {}
        BY <2>5 DEF StartFile
      <4> HIDE DEF Current
      <4>2. Current(s) \in batch[s]
        BY <4>1, CurrentInBatch
      <4> QED
        BY <4>1, <4>2
    <3> QED
      BY <2>5, <3>1 DEF StartFile, dbVars
  <2>6. CASE SaveDocument(s)
    <3> DEFINE c == Current(s)
    <3>1. /\ c \in Files /\ c \in batch[s]
          /\ status[c] \in {PROCESSING, PROCESSING_FAILED}
          /\ \A t \in Servers \ {s} : c \notin batch[t]
          /\ \A t \in Servers \ {s} : Busy(t) => Current(t) # c
      BY <2>6 DEF SaveDocument
    <3>2. /\ \A f \in Files \ {c} : docs'[f] = docs[f]
          /\ UNCHANGED <<status, batch>>
          /\ \A t \in Servers \ {s} : pc'[t] = pc[t] /\ saved'[t] = saved[t]
          /\ \A t \in Servers : Current(t)' = Current(t)
          /\ pc'[s] = "processing" /\ saved'[s] = saved[s] + 1 /\ docs'[c] = docs[c] + 1
      BY <2>6, <3>1 DEF SaveDocument, dbVars
    <3> HIDE DEF c
    <3>3. c = Current(s) /\ pc[s] = "processing"
      BY <2>6 DEF c, SaveDocument
    <3>4. \A t \in Servers : Busy(t) => Current(t) \in batch[t] /\ Current(t) \in Files
      BY CurrentInBatch
    <3>5. \A t \in Servers : batch[t] \subseteq Files
      OBVIOUS
    <3> HIDE DEF Current
    <3>6. SuccessMeansIndexed'
      BY <3>1, <3>2
    <3>7. \A f \in Files : status'[f] \in {ABSENT, UPLOADED} => docs'[f] = 0
      BY <3>1, <3>2
    <3>8. ASSUME NEW t \in Servers, NEW f \in batch'[t], ~(Busy(t) /\ f = Current(t))'
          PROVE  docs'[f] = 0
      BY <3>1, <3>2, <3>3, <3>5, <3>8
    <3>9. ASSUME NEW t \in Servers
          PROVE  /\ pc'[t] \in {"processing", "completing"} => docs'[Current(t)'] = saved'[t]
                 /\ pc'[t] = "completing" => saved'[t] = DocCount[Current(t)']
      <4>1. CASE t = s
        BY <3>1, <3>2, <3>3, <4>1
      <4>2. CASE t # s
        <5>1. pc'[t] = pc[t] /\ saved'[t] = saved[t] /\ Current(t)' = Current(t)
          <6> HIDE CurrentInBatch
              DEF ControlInvariant, TypeOK, ClaimsExclusive, HandsMatchPC,
                  DocumentsAccounted, SuccessMeansIndexed
          <6> QED
            BY <3>2, <4>2
        <5>2. Busy(t) => docs'[Current(t)] = docs[Current(t)]
          <6> HIDE CurrentInBatch
              DEF ControlInvariant, TypeOK, ClaimsExclusive, HandsMatchPC,
                  DocumentsAccounted, SuccessMeansIndexed, Busy
          <6> QED
            BY <3>1, <3>2, <3>4, <4>2
        <5> QED
          BY <5>1, <5>2
      <4> QED
        BY <4>1, <4>2
    <3>10. DocumentsAccounted'
      BY <3>7, <3>8, <3>9
    <3> QED
      BY <3>6, <3>10
  <2>7. CASE ProcessingError(s)
    <3> DEFINE c == Current(s)
    <3>1. /\ c \in Files /\ c \in batch[s]
          /\ status[c] \in {PROCESSING, PROCESSING_FAILED}
          /\ \A t \in Servers \ {s} : c \notin batch[t]
          /\ \A t \in Servers \ {s} : Busy(t) => Current(t) # c
      BY <2>7 DEF ProcessingError
    <3>2. /\ \A f \in Files \ {c} : docs'[f] = docs[f]
          /\ UNCHANGED <<status, batch>>
          /\ \A t \in Servers \ {s} : pc'[t] = pc[t] /\ saved'[t] = saved[t]
          /\ \A t \in Servers : Current(t)' = Current(t)
          /\ pc'[s] = "failing"
      BY <2>7, <3>1 DEF ProcessingError, dbVars
    <3> HIDE DEF c
    <3>3. c = Current(s) /\ pc[s] = "processing"
      BY <2>7 DEF c, ProcessingError
    <3>4. \A t \in Servers : Busy(t) => Current(t) \in batch[t] /\ Current(t) \in Files
      BY CurrentInBatch
    <3>5. \A t \in Servers : batch[t] \subseteq Files
      OBVIOUS
    <3> HIDE DEF Current
    <3>6. SuccessMeansIndexed'
      BY <3>1, <3>2
    <3>7. \A f \in Files : status'[f] \in {ABSENT, UPLOADED} => docs'[f] = 0
      BY <3>1, <3>2
    <3>8. ASSUME NEW t \in Servers, NEW f \in batch'[t], ~(Busy(t) /\ f = Current(t))'
          PROVE  docs'[f] = 0
      BY <3>1, <3>2, <3>3, <3>5, <3>8
    <3>9. ASSUME NEW t \in Servers
          PROVE  /\ pc'[t] \in {"processing", "completing"} => docs'[Current(t)'] = saved'[t]
                 /\ pc'[t] = "completing" => saved'[t] = DocCount[Current(t)']
      <4>1. CASE t = s
        BY <3>1, <3>2, <3>3, <4>1
      <4>2. CASE t # s
        <5>1. pc'[t] = pc[t] /\ saved'[t] = saved[t] /\ Current(t)' = Current(t)
          <6> HIDE CurrentInBatch
              DEF ControlInvariant, TypeOK, ClaimsExclusive, HandsMatchPC,
                  DocumentsAccounted, SuccessMeansIndexed
          <6> QED
            BY <3>2, <4>2
        <5>2. Busy(t) => docs'[Current(t)] = docs[Current(t)]
          <6> HIDE CurrentInBatch
              DEF ControlInvariant, TypeOK, ClaimsExclusive, HandsMatchPC,
                  DocumentsAccounted, SuccessMeansIndexed, Busy
          <6> QED
            BY <3>1, <3>2, <3>4, <4>2
        <5> QED
          BY <5>1, <5>2
      <4> QED
        BY <4>1, <4>2
    <3>10. DocumentsAccounted'
      BY <3>7, <3>8, <3>9
    <3> QED
      BY <3>6, <3>10
  <2>8. CASE BeginSuccess(s)
    BY <2>8 DEF BeginSuccess, dbVars, AllSaved
  <2>9. CASE CommitSuccess(s)
    BY <2>9 DEF CommitSuccess, SaveCompleted, Saveable, SaveFiles, NextFile
  <2>10. CASE SuccessRollback(s)
    BY <2>10 DEF SuccessRollback, dbVars
  <2>11. CASE RecordFailure(s)
    BY <2>11 DEF RecordFailure, SaveCompleted, Saveable, SaveFiles, NextFile
  <2>12. CASE FailureNotRecorded(s)
    BY <2>12 DEF FailureNotRecorded, NextFile, dbVars
  <2>13. CASE ListStale(s)
    BY <2>13 DEF ListStale, dbVars
  <2>14. CASE FailStale(s)
    BY <2>14 DEF FailStale, SaveCompleted, Saveable, SaveFiles, BackToIdle, WritesApply
  <2>15. CASE SweepRollback(s)
    BY <2>15 DEF SweepRollback, BackToIdle, dbVars
  <2> QED
    BY <1>2, <2>1, <2>2, <2>3, <2>4, <2>5, <2>6, <2>7, <2>8, <2>9, <2>10, <2>11,
       <2>12, <2>13, <2>14, <2>15 DEF ServerStep
<1>3. ASSUME NEW s \in Servers, Crash(s)
      PROVE  DocumentsAccounted' /\ SuccessMeansIndexed'
  BY <1>3 DEF Crash, BackToIdle, dbVars
<1>4. CASE Tick
  BY <1>4 DEF Tick, dbVars
<1>5. CASE UNCHANGED vars
  BY <1>5 DEF vars, dbVars, serverVars
<1> QED
  BY <1>1, <1>2, <1>3, <1>4, <1>5 DEF Next, Work

-------------------------------------------------------------------------------
(* The concurrency bound: what servers have reserved and what is in progress. *)
LEMMA FilesFinite ==
  \A S \in SUBSET Files : IsFiniteSet(S) /\ Cardinality(S) \in Nat
BY FS_Subset, FS_CardinalityType, ConstantsAssumption

LEMMA ReservedType ==
  ASSUME NEW a \in [Servers -> 0..MaxConcurrent], NEW b \in [Servers -> SUBSET Files], NEW p
  PROVE  [s \in Servers |-> a[s] + (IF p[s] = "claimed" THEN Cardinality(b[s]) ELSE 0)]
           \in [Servers -> Nat]
<1>1. ASSUME NEW s \in Servers
      PROVE  a[s] + (IF p[s] = "claimed" THEN Cardinality(b[s]) ELSE 0) \in Nat
  <2>1. a[s] \in Nat /\ Cardinality(b[s]) \in Nat
    BY FilesFinite, ConstantsAssumption
  <2> QED
    BY <2>1
<1> QED
  BY <1>1

LEMMA BoundIsWithin ==
  TypeOK => /\ Reserved \in [Servers -> Nat] /\ IsFiniteSet(InProgress)
            /\ ClaimsBounded <=> Within(Servers, MaxConcurrent, InProgress, Reserved)
<1>1. TypeOK => Reserved \in [Servers -> Nat]
  BY ReservedType DEF TypeOK, Reserved
<1>2. IsFiniteSet(InProgress)
  BY FilesFinite DEF InProgress
<1> QED
  BY <1>1, <1>2 DEF ClaimsBounded, Within

LEMMA NextBoundIsWithin ==
  TypeOK' => /\ Reserved' \in [Servers -> Nat]
             /\ ClaimsBounded' <=> Within(Servers, MaxConcurrent, InProgress', Reserved')
<1>1. TypeOK' => Reserved' \in [Servers -> Nat]
  BY ReservedType DEF TypeOK, Reserved
<1> QED
  BY <1>1 DEF ClaimsBounded, Within, MapThenSumSet, MapThenFoldSet

(* What a step does to a server's reservation unless it counts or claims. *)
ReservesNothing(t) ==
  \/ avail'[t] = avail[t] /\ pc'[t] = pc[t] /\ (pc[t] = "claimed" => batch'[t] = batch[t])
  \/ avail'[t] = 0 /\ pc'[t] # "claimed"

LEMMA BoundKept ==
  ASSUME TypeOK, TypeOK', ReservationsEnd, ClaimsBounded,
         \A f \in Files : status'[f] = PROCESSING => status[f] = PROCESSING,
         \A t \in Servers : ReservesNothing(t)
  PROVE  ReservationsEnd' /\ ClaimsBounded'
<1>1. ReservationsEnd'
  BY DEF ReservationsEnd, ReservesNothing
<1>2. InProgress' \subseteq InProgress
  BY DEF InProgress
<1>3. ASSUME NEW t \in Servers
      PROVE  Reserved'[t] =< Reserved[t]
  <2>1. avail[t] \in Nat /\ Cardinality(batch[t]) \in Nat
    BY FilesFinite, ConstantsAssumption DEF TypeOK
  <2>2. /\ Reserved[t] = avail[t] + (IF pc[t] = "claimed" THEN Cardinality(batch[t]) ELSE 0)
        /\ Reserved'[t] = avail'[t] + (IF pc'[t] = "claimed" THEN Cardinality(batch'[t]) ELSE 0)
    BY DEF Reserved
  <2> QED
    BY <2>1, <2>2 DEF ReservesNothing
<1>4. Within(Servers, MaxConcurrent, InProgress', Reserved')
  BY <1>2, <1>3, WithinKept, BoundIsWithin, NextBoundIsWithin, ConstantsAssumption
<1> QED
  BY <1>1, <1>4, NextBoundIsWithin

(* A server that counts reserves what its own maximum leaves. *)
LEMMA CountStep ==
  ASSUME TypeOK, TypeOK', EventsTellStatus, ReservationsEnd, ClaimsBounded,
         NEW s \in Servers, CountProcessing(s)
  PROVE  ReservationsEnd' /\ ClaimsBounded'
<1>1. ReservationsEnd'
  BY DEF ReservationsEnd, CountProcessing, TypeOK
<1>2. WithStatus(PROCESSING) = InProgress
  BY DEF WithStatus, InProgress, EventsTellStatus
<1>3. WorkersAvailable(Cardinality(ListProcessing))
        = IF Cardinality(InProgress) >= MaxConcurrent THEN 0
          ELSE MaxConcurrent - Cardinality(InProgress)
  <2> DEFINE l == Cardinality(ListProcessing)
  <2>1. InProgress \in SUBSET Nat /\ IsFiniteSet(InProgress) /\ Cardinality(InProgress) \in Nat
    BY FilesFinite, ConstantsAssumption DEF InProgress
  <2>2. ListProcessing \subseteq InProgress
    BY <1>2 DEF ListProcessing, Newest
  <2>3. l \in Nat /\ l =< Cardinality(InProgress)
    BY <2>1, <2>2, FS_Subset, FS_CardinalityType
  <2>4. l < ListLimit => ListProcessing = InProgress
    BY <1>2, <2>1, NewestComplete, ConstantsAssumption DEF ListProcessing, Newest
  <2> HIDE DEF l
  <2>5. l < MaxConcurrent => l = Cardinality(InProgress)
    BY <2>3, <2>4, ConstantsAssumption DEF l
  <2>6. WorkersAvailable(l) = IF Cardinality(InProgress) >= MaxConcurrent THEN 0
                              ELSE MaxConcurrent - Cardinality(InProgress)
    BY <2>1, <2>3, <2>5, ConstantsAssumption DEF WorkersAvailable
  <2> QED
    BY <2>6 DEF l
<1>4. /\ \A t \in Servers : Reserved[t] =< MaxConcurrent
      /\ \A t \in Servers \ {s} : Reserved'[t] = Reserved[t]
      /\ Reserved[s] = 0
      /\ Reserved'[s] = WorkersAvailable(Cardinality(ListProcessing))
  <2>1. ASSUME NEW t \in Servers
        PROVE  /\ Reserved[t] = avail[t] + (IF pc[t] = "claimed" THEN Cardinality(batch[t]) ELSE 0)
               /\ Reserved'[t] = avail'[t] + (IF pc'[t] = "claimed" THEN Cardinality(batch'[t]) ELSE 0)
               /\ avail[t] \in 0..MaxConcurrent /\ avail'[t] \in 0..MaxConcurrent
               /\ Cardinality(batch[t]) \in Nat
    BY FilesFinite DEF Reserved, TypeOK
  <2>2. ASSUME NEW t \in Servers
        PROVE  Reserved[t] =< MaxConcurrent
    BY <2>1, ConstantsAssumption DEF ReservationsEnd
  <2>3. ASSUME NEW t \in Servers \ {s}
        PROVE  Reserved'[t] = Reserved[t]
    BY <2>1 DEF CountProcessing, TypeOK
  <2>4. Reserved[s] = 0
    BY <2>1 DEF CountProcessing, ReservationsEnd
  <2>5. Reserved'[s] = WorkersAvailable(Cardinality(ListProcessing))
    <3>1. pc'[s] = "counted" /\ avail'[s] = WorkersAvailable(Cardinality(ListProcessing))
      BY DEF CountProcessing, TypeOK
    <3> QED
      BY <2>1, <3>1
  <2> QED
    BY <2>2, <2>3, <2>4, <2>5
<1>5. InProgress' = InProgress
  BY DEF InProgress, CountProcessing, dbVars
<1>6. Within(Servers, MaxConcurrent, InProgress, Reserved')
  BY <1>3, <1>4, WithinReserved, BoundIsWithin, NextBoundIsWithin, ConstantsAssumption
<1> QED
  BY <1>1, <1>5, <1>6, NextBoundIsWithin

(* A claim takes no more than was reserved for it. *)
LEMMA ListStep ==
  ASSUME TypeOK, TypeOK', ReservationsEnd, ClaimsBounded,
         NEW s \in Servers, ListUploaded(s)
  PROVE  ReservationsEnd' /\ ClaimsBounded'
<1> DEFINE taken == Oldest(Lockable, avail[s])
<1>1. avail[s] \in 0..MaxConcurrent /\ MaxConcurrent \in Nat /\ avail[s] \in Nat
  BY ConstantsAssumption DEF TypeOK
<1>2. Cardinality(taken) =< avail[s] /\ Cardinality(taken) \in Nat
  <2>1. Lockable \in SUBSET Nat /\ IsFiniteSet(Lockable) /\ taken \in SUBSET Files
    BY FilesFinite, ConstantsAssumption DEF Lockable, WithStatus, Oldest
  <2>2. Cardinality(Oldest(Lockable, avail[s])) =< avail[s]
    BY <1>1, <2>1, OldestBounded DEF Oldest
  <2> QED
    BY <2>1, <2>2, FilesFinite
<1>3. /\ batch'[s] = taken /\ avail'[s] = 0 /\ pc[s] = "counted"
      /\ \A t \in Servers \ {s} : pc'[t] = pc[t] /\ avail'[t] = avail[t] /\ batch'[t] = batch[t]
      /\ UNCHANGED status /\ pc'[s] \in {"ready", "claimed"}
  BY DEF ListUploaded, TypeOK, dbVars
<1> HIDE DEF taken
<1>4. ReservationsEnd'
  <2>1. Cardinality(batch'[s]) =< MaxConcurrent
    BY <1>1, <1>2, <1>3
  <2> QED
    BY <1>3, <2>1 DEF ReservationsEnd
<1>5. InProgress' = InProgress
  BY <1>3 DEF InProgress
<1>6. ASSUME NEW t \in Servers
      PROVE  Reserved'[t] =< Reserved[t]
  <2>1. /\ Reserved[t] = avail[t] + (IF pc[t] = "claimed" THEN Cardinality(batch[t]) ELSE 0)
        /\ Reserved'[t] = avail'[t] + (IF pc'[t] = "claimed" THEN Cardinality(batch'[t]) ELSE 0)
        /\ avail[t] \in Nat /\ Cardinality(batch[t]) \in Nat
    BY FilesFinite, ConstantsAssumption DEF Reserved, TypeOK
  <2>2. CASE t = s
    BY <1>1, <1>2, <1>3, <2>1, <2>2
  <2>3. CASE t # s
    BY <1>3, <2>1, <2>3
  <2> QED
    BY <2>2, <2>3
<1>7. Within(Servers, MaxConcurrent, InProgress', Reserved')
  BY <1>5, <1>6, WithinKept, BoundIsWithin, NextBoundIsWithin, ConstantsAssumption
<1> QED
  BY <1>4, <1>7, NextBoundIsWithin

(* A claim that commits puts in progress what it had reserved. *)
LEMMA CommitStep ==
  ASSUME TypeOK, TypeOK', ClaimsExclusive, ReservationsEnd, ClaimsBounded,
         NEW s \in Servers, ClaimCommit(s)
  PROVE  ReservationsEnd' /\ ClaimsBounded'
<1>1. /\ pc[s] = "claimed" /\ pc'[s] = "ready" /\ avail'[s] = avail[s] /\ avail[s] = 0
      /\ \A t \in Servers \ {s} : pc'[t] = pc[t] /\ avail'[t] = avail[t] /\ batch'[t] = batch[t]
  BY DEF ClaimCommit, TypeOK, ReservationsEnd
<1>2. ReservationsEnd'
  BY <1>1 DEF ReservationsEnd
<1>3. InProgress' = InProgress \cup batch[s] /\ InProgress \cap batch[s] = {}
  BY <1>1 DEF InProgress, ClaimCommit, SaveFiles, ClaimsExclusive, TypeOK, UPLOADED, PROCESSING
<1>4. /\ \A t \in Servers \ {s} : Reserved'[t] = Reserved[t]
      /\ Reserved[s] = Cardinality(batch[s])
      /\ Reserved'[s] = 0
      /\ IsFiniteSet(batch[s])
  <2>1. IsFiniteSet(batch[s]) /\ Cardinality(batch[s]) \in Nat
    BY FilesFinite DEF TypeOK
  <2> QED
    BY <1>1, <2>1 DEF Reserved
<1>5. Within(Servers, MaxConcurrent, InProgress \cup batch[s], Reserved')
  BY <1>3, <1>4, WithinCommitted, BoundIsWithin, NextBoundIsWithin, ConstantsAssumption
<1> QED
  BY <1>2, <1>3, <1>5, NextBoundIsWithin

LEMMA BoundStep ==
  ASSUME ControlInvariant, TypeOK', ReservationsEnd, ClaimsBounded, [Next]_vars
  PROVE  ReservationsEnd' /\ ClaimsBounded'
<1> USE DEF ControlInvariant
<1> DEFINE Kept == /\ \A f \in Files : status'[f] = PROCESSING => status[f] = PROCESSING
                   /\ \A t \in Servers : ReservesNothing(t)
<1>1. ASSUME NEW f \in Files, BeginInsert(f) \/ InsertEnds(f)
      PROVE  Kept
  <2> USE DEF ReservesNothing, TypeOK, UPLOADED, PROCESSING
  <2>1. CASE BeginInsert(f)
    BY <2>1 DEF BeginInsert, dbVars, serverVars
  <2>2. CASE CommitInsert(f)
    BY <2>2 DEF CommitInsert, SaveFiles, serverVars
  <2>3. CASE AbortInsert(f)
    BY <2>3 DEF AbortInsert, dbVars, serverVars
  <2> QED
    BY <1>1, <2>1, <2>2, <2>3 DEF InsertEnds
<1>2. ASSUME NEW s \in Servers, ServerStep(s),
             ~CountProcessing(s), ~ListUploaded(s), ~ClaimCommit(s)
      PROVE  Kept
  <2> USE DEF ReservesNothing, TypeOK, PROCESSING, PROCESSED_SUCCESSFULLY, PROCESSING_FAILED
  <2>1. CASE ClaimRollback(s)
    BY <2>1 DEF ClaimRollback, BackToIdle, dbVars
  <2>2. CASE StartFile(s) \/ SaveDocument(s) \/ ProcessingError(s)
    BY <2>2 DEF StartFile, SaveDocument, ProcessingError, dbVars, ReservationsEnd
  <2>3. CASE BeginSuccess(s) \/ SuccessRollback(s)
    BY <2>3 DEF BeginSuccess, SuccessRollback, dbVars, ReservationsEnd
  <2>4. CASE CommitSuccess(s) \/ RecordFailure(s)
    BY <2>4 DEF CommitSuccess, RecordFailure, SaveCompleted, SaveFiles, NextFile, ReservationsEnd
  <2>5. CASE FailureNotRecorded(s)
    BY <2>5 DEF FailureNotRecorded, NextFile, dbVars, ReservationsEnd
  <2>6. CASE ListStale(s)
    BY <2>6 DEF ListStale, dbVars, ReservationsEnd
  <2>7. CASE FailStale(s)
    BY <2>7 DEF FailStale, SaveCompleted, SaveFiles, BackToIdle
  <2>8. CASE SweepRollback(s)
    BY <2>8 DEF SweepRollback, BackToIdle, dbVars
  <2> QED
    BY <1>2, <2>1, <2>2, <2>3, <2>4, <2>5, <2>6, <2>7, <2>8 DEF ServerStep
<1>3. ASSUME NEW s \in Servers, Crash(s)
      PROVE  Kept
  BY <1>3 DEF Crash, BackToIdle, dbVars, ReservesNothing, TypeOK
<1>4. ASSUME Tick
      PROVE  Kept
  BY <1>4 DEF Tick, dbVars, ReservesNothing
<1>5. ASSUME UNCHANGED vars
      PROVE  Kept
  BY <1>5 DEF vars, dbVars, serverVars, ReservesNothing
<1>6. Kept => ReservationsEnd' /\ ClaimsBounded'
  BY BoundKept
<1> HIDE DEF Kept
<1>7. ASSUME NEW s \in Servers, CountProcessing(s) \/ ListUploaded(s) \/ ClaimCommit(s)
      PROVE  ReservationsEnd' /\ ClaimsBounded'
  BY <1>7, CountStep, ListStep, CommitStep
<1> QED
  BY <1>1, <1>2, <1>3, <1>4, <1>5, <1>6, <1>7 DEF Next, Work

LEMMA BoundInit == Init => ReservationsEnd /\ ClaimsBounded
<1> SUFFICES ASSUME Init
             PROVE  ReservationsEnd /\ ClaimsBounded
  OBVIOUS
<1>1. ReservationsEnd
  BY DEF Init, ReservationsEnd
<1>2. TypeOK
  BY ControlInit DEF ControlInvariant
<1>3. InProgress = {} /\ \A s \in Servers : Reserved[s] = 0
  BY DEF Init, InProgress, Reserved, ABSENT, PROCESSING
<1>4. Units(Reserved, Servers) = {}
  BY <1>3 DEF Units
<1>5. Cardinality(Servers) * MaxConcurrent >= 0
  BY FS_CardinalityType, ConstantsAssumption
<1>6. Cardinality(InProgress) + Cardinality(Units(Reserved, Servers))
        <= Cardinality(Servers) * MaxConcurrent
  BY <1>3, <1>4, <1>5, FS_EmptySet
<1> QED
  BY <1>1, <1>2, <1>6, WithinByUnits, BoundIsWithin, ConstantsAssumption

(* The inductive invariant the runs check holds for every instance. *)
THEOREM InductiveInvariantCorrect == Spec => []InductiveInvariant
<1>1. Init => InductiveInvariant
  BY ControlInit, BoundInit DEF ControlInvariant, InductiveInvariant, DocumentsAccounted,
     SuccessMeansIndexed, Init, Busy, ABSENT, UPLOADED, PROCESSING, PROCESSED_SUCCESSFULLY,
         PROCESSING_FAILED
<1>2. InductiveInvariant /\ [Next]_vars => InductiveInvariant'
  BY ControlStep, DocumentsStep, BoundStep DEF InductiveInvariant, ControlInvariant
<1> QED
  BY <1>1, <1>2, PTL DEF Spec

(* A file shown as processed has every document in the retriever, once. *)
THEOREM SuccessIndexed == Spec => []SuccessMeansIndexed
<1>1. InductiveInvariant => SuccessMeansIndexed
  BY DEF InductiveInvariant
<1> QED
  BY InductiveInvariantCorrect, <1>1, PTL

(* However many servers race, no more files are in progress, or claimed and   *)
(* about to be, than one maximum for each server.                            *)
THEOREM ConcurrencyBounded == Spec => []ClaimsBounded
<1>1. InductiveInvariant => ClaimsBounded
  BY DEF InductiveInvariant
<1> QED
  BY InductiveInvariantCorrect, <1>1, PTL
===============================================================================

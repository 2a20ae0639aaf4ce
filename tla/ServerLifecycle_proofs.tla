-------------------------- MODULE ServerLifecycle_proofs --------------------------
(***************************************************************************)
(* Proofs about ServerLifecycle for any number of servers, models and        *)
(* indexes.                                                               *)
(***************************************************************************)
EXTENDS ServerLifecycle, TLAPS

(* Before the migration is through a process has come to no model; a model    *)
(* that is being loaded is one of the server's.                             *)
BeforeModels == {"down", "migrating", "applying"}

StepsStart == \A s \in Servers : stage[s] \in BeforeModels => step[s] = 1

(* One server migrates at a time, on a dirty version, and who is past it has   *)
(* the tables; who serves has its index.                                    *)
SchemaTells ==
  /\ \A s \in Servers : stage[s] = "applying" => schema = "dirty"
  /\ \A s, t \in Servers : stage[s] = "applying" /\ stage[t] = "applying" => s = t
  /\ \A s \in Servers : stage[s] \notin BeforeModels => schema = "done"
  /\ \A s \in Servers : stage[s] = "serving" => IndexOf[s] \in indexes

(* The workers run from the start of serving until their stop has returned,   *)
(* and the session is open all that time.                                   *)
StageTells ==
  /\ \A s \in Servers :
       /\ session[s] => ModelsOf[s] # <<>>
       /\ ModelsOf[s] # <<>> /\ stage[s] \notin BeforeModels \cup {"return"} => session[s]
  /\ \A s \in Servers :
       /\ worker[s]["screenings"] # "off" =>
            stage[s] \in {"serving", "shutdown", "stopScreenings"}
       /\ worker[s]["files"] # "off" =>
            stage[s] \in {"serving", "shutdown", "stopScreenings", "stopFiles"}

InductiveInvariant == TypeOK /\ StepsStart /\ SchemaTells /\ StageTells

-------------------------------------------------------------------------------
(* The model a server has come to is one of its models. *)
LEMMA ModelAtType ==
  ASSUME TypeOK, NEW s \in Servers, stage[s] \in {"stat", "download", "writing", "pipeline"}
  PROVE  ModelAt(s) \in Models
<1>1. step[s] \in DOMAIN ModelsOf[s] /\ ModelsOf[s] \in Seq(Models)
  BY LifecycleAssumption DEF TypeOK
<1> QED
  BY <1>1 DEF ModelAt

(* Every step keeps the types. *)
LEMMA TypeStep ==
  ASSUME TypeOK, StepsStart, [Next]_vars
  PROVE  TypeOK' /\ StepsStart'
<1> USE LifecycleAssumption DEF TypeOK, StepsStart, Starting, Stopping, BeforeModels, Workers
<1>1. ASSUME NEW s \in Servers, Main(s)
      PROVE  TypeOK' /\ StepsStart'
  <2>1. CASE MigrationsUp(s)
    BY <2>1 DEF MigrationsUp, MainAt, shared
  <2>2. CASE MigrationsDone(s)
    BY <2>2 DEF MigrationsDone, MainAt, ToModels, OpenSession, shared
  <2>3. CASE NoChange(s)
    BY <2>3 DEF NoChange, MainAt, ToModels, OpenSession, shared
  <2>4. CASE MigrateFails(s)
    BY <2>4 DEF MigrateFails, Fatal, Exit, shared
  <2>5. CASE CheckModelExists(s)
    BY <2>5 DEF CheckModelExists, MainAt, shared
  <2>6. CASE DownloadModel(s)
    BY <2>6, ModelAtType DEF DownloadModel, MainAt, shared
  <2>7. CASE Downloaded(s)
    BY <2>7, ModelAtType DEF Downloaded, MainAt, shared
  <2>8. CASE NewPipeline(s)
    BY <2>8 DEF NewPipeline, MainAt, LastModel, shared
  <2>9. CASE NewPipelineFails(s)
    BY <2>9 DEF NewPipelineFails, Fatal, Exit, shared
  <2>10. CASE ListIndexes(s)
    BY <2>10 DEF ListIndexes, MainAt, shared
  <2>11. CASE CreateIndex(s)
    BY <2>11 DEF CreateIndex, MainAt, shared
  <2>12. CASE CreateIndexFails(s)
    BY <2>12 DEF CreateIndexFails, Fatal, Exit, shared
  <2>13. CASE Shutdown(s)
    BY <2>13 DEF Shutdown, MainAt, shared
  <2>14. CASE ShutdownTimesOut(s)
    BY <2>14 DEF ShutdownTimesOut, Fatal, Exit, shared
  <2>15. CASE StopProcessingScreenings(s)
    BY <2>15 DEF StopProcessingScreenings, MainAt, shared
  <2>16. CASE StopProcessingFiles(s)
    BY <2>16 DEF StopProcessingFiles, MainAt, shared
  <2>17. CASE DestroySession(s)
    BY <2>17 DEF DestroySession, MainAt, shared
  <2>18. CASE MainReturns(s)
    BY <2>18 DEF MainReturns, Exit, shared
  <2> QED
    BY <1>1, <2>1, <2>2, <2>3, <2>4, <2>5, <2>6, <2>7, <2>8, <2>9, <2>10, <2>11, <2>12,
       <2>13, <2>14, <2>15, <2>16, <2>17, <2>18 DEF Main
<1>2. ASSUME NEW s \in Servers,
             Start(s) \/ Signal(s) \/ Crash(s) \/ RequestBegins(s) \/ RequestEnds(s)
      PROVE  TypeOK' /\ StepsStart'
  <2>1. CASE Start(s)
    BY <2>1 DEF Start, MainAt, shared
  <2>2. CASE Signal(s)
    BY <2>2 DEF Signal, MainAt, shared
  <2>3. CASE Crash(s)
    BY <2>3 DEF Crash, Exit, shared
  <2>4. CASE RequestBegins(s)
    BY <2>4 DEF RequestBegins, shared
  <2>5. CASE RequestEnds(s)
    BY <2>5 DEF RequestEnds, shared
  <2> QED
    BY <1>2, <2>1, <2>2, <2>3, <2>4, <2>5
<1>3. ASSUME NEW s \in Servers, NEW w \in Workers,
             TickFires(s, w) \/ TickEnds(s, w) \/ WorkerReturns(s, w)
      PROVE  TypeOK' /\ StepsStart'
  <2>1. CASE TickFires(s, w)
    BY <2>1 DEF TickFires, WorkerAt, shared
  <2>2. CASE TickEnds(s, w)
    BY <2>2 DEF TickEnds, WorkerAt, shared
  <2>3. CASE WorkerReturns(s, w)
    BY <2>3 DEF WorkerReturns, WorkerAt, shared
  <2> QED
    BY <1>3, <2>1, <2>2, <2>3
<1>4. CASE UNCHANGED vars
  BY <1>4 DEF vars
<1> QED
  BY <1>1, <1>2, <1>3, <1>4 DEF Next

LEMMA SchemaStep ==
  ASSUME TypeOK, SchemaTells, [Next]_vars
  PROVE  SchemaTells'
<1> USE DEF TypeOK, SchemaTells, BeforeModels
<1>1. ASSUME NEW s \in Servers, Main(s)
      PROVE  SchemaTells'
  <2>1. CASE MigrationsUp(s)
    BY <2>1 DEF MigrationsUp, MainAt, shared, MigrationLock
  <2>2. CASE MigrationsDone(s)
    BY <2>2 DEF MigrationsDone, MainAt, ToModels, OpenSession, shared
  <2>3. CASE NoChange(s)
    BY <2>3 DEF NoChange, MainAt, ToModels, OpenSession, shared, MigrationLock
  <2>4. CASE MigrateFails(s)
    BY <2>4 DEF MigrateFails, Fatal, Exit, shared, MigrationLock
  <2>5. CASE CheckModelExists(s)
    BY <2>5 DEF CheckModelExists, MainAt, shared
  <2>6. CASE DownloadModel(s)
    BY <2>6 DEF DownloadModel, MainAt, shared
  <2>7. CASE Downloaded(s)
    BY <2>7 DEF Downloaded, MainAt, shared
  <2>8. CASE NewPipeline(s)
    BY <2>8 DEF NewPipeline, MainAt, LastModel, shared
  <2>9. CASE NewPipelineFails(s)
    BY <2>9 DEF NewPipelineFails, Fatal, Exit, shared
  <2>10. CASE ListIndexes(s)
    BY <2>10 DEF ListIndexes, MainAt, shared, IndexExists
  <2>11. CASE CreateIndex(s)
    BY <2>11 DEF CreateIndex, MainAt, shared
  <2>12. CASE CreateIndexFails(s)
    BY <2>12 DEF CreateIndexFails, Fatal, Exit, shared
  <2>13. CASE Shutdown(s)
    BY <2>13 DEF Shutdown, MainAt, shared
  <2>14. CASE ShutdownTimesOut(s)
    BY <2>14 DEF ShutdownTimesOut, Fatal, Exit, shared
  <2>15. CASE StopProcessingScreenings(s)
    BY <2>15 DEF StopProcessingScreenings, MainAt, shared
  <2>16. CASE StopProcessingFiles(s)
    BY <2>16 DEF StopProcessingFiles, MainAt, shared
  <2>17. CASE DestroySession(s)
    BY <2>17 DEF DestroySession, MainAt, shared
  <2>18. CASE MainReturns(s)
    BY <2>18 DEF MainReturns, Exit, shared
  <2> QED
    BY <1>1, <2>1, <2>2, <2>3, <2>4, <2>5, <2>6, <2>7, <2>8, <2>9, <2>10, <2>11, <2>12,
       <2>13, <2>14, <2>15, <2>16, <2>17, <2>18 DEF Main
<1>2. ASSUME NEW s \in Servers,
             Start(s) \/ Signal(s) \/ Crash(s) \/ RequestBegins(s) \/ RequestEnds(s)
      PROVE  SchemaTells'
  <2>1. CASE Start(s)
    BY <2>1 DEF Start, MainAt, shared
  <2>2. CASE Signal(s)
    BY <2>2 DEF Signal, MainAt, shared
  <2>3. CASE Crash(s)
    BY <2>3 DEF Crash, Exit, shared
  <2>4. CASE RequestBegins(s)
    BY <2>4 DEF RequestBegins, shared
  <2>5. CASE RequestEnds(s)
    BY <2>5 DEF RequestEnds, shared
  <2> QED
    BY <1>2, <2>1, <2>2, <2>3, <2>4, <2>5
<1>3. ASSUME NEW s \in Servers, NEW w \in Workers,
             TickFires(s, w) \/ TickEnds(s, w) \/ WorkerReturns(s, w)
      PROVE  SchemaTells'
  <2>1. CASE TickFires(s, w)
    BY <2>1 DEF TickFires, WorkerAt, shared
  <2>2. CASE TickEnds(s, w)
    BY <2>2 DEF TickEnds, WorkerAt, shared
  <2>3. CASE WorkerReturns(s, w)
    BY <2>3 DEF WorkerReturns, WorkerAt, shared
  <2> QED
    BY <1>3, <2>1, <2>2, <2>3
<1>4. CASE UNCHANGED vars
  BY <1>4 DEF vars
<1> QED
  BY <1>1, <1>2, <1>3, <1>4 DEF Next

LEMMA StageStep ==
  ASSUME TypeOK, StageTells, [Next]_vars
  PROVE  StageTells'
<1> USE DEF TypeOK, StageTells, BeforeModels, Workers
<1>1. ASSUME NEW s \in Servers, Main(s)
      PROVE  StageTells'
  <2>1. CASE MigrationsUp(s)
    BY <2>1 DEF MigrationsUp, MainAt, shared
  <2>2. CASE MigrationsDone(s)
    BY <2>2 DEF MigrationsDone, MainAt, ToModels, OpenSession, shared
  <2>3. CASE NoChange(s)
    BY <2>3 DEF NoChange, MainAt, ToModels, OpenSession, shared
  <2>4. CASE MigrateFails(s)
    BY <2>4 DEF MigrateFails, Fatal, Exit, shared
  <2>5. CASE CheckModelExists(s)
    BY <2>5 DEF CheckModelExists, MainAt, shared
  <2>6. CASE DownloadModel(s)
    BY <2>6 DEF DownloadModel, MainAt, shared
  <2>7. CASE Downloaded(s)
    BY <2>7 DEF Downloaded, MainAt, shared
  <2>8. CASE NewPipeline(s)
    BY <2>8 DEF NewPipeline, MainAt, LastModel, shared
  <2>9. CASE NewPipelineFails(s)
    BY <2>9 DEF NewPipelineFails, Fatal, Exit, shared
  <2>10. CASE ListIndexes(s)
    BY <2>10 DEF ListIndexes, MainAt, shared
  <2>11. CASE CreateIndex(s)
    BY <2>11 DEF CreateIndex, MainAt, shared
  <2>12. CASE CreateIndexFails(s)
    BY <2>12 DEF CreateIndexFails, Fatal, Exit, shared
  <2>13. CASE Shutdown(s)
    BY <2>13 DEF Shutdown, MainAt, shared
  <2>14. CASE ShutdownTimesOut(s)
    BY <2>14 DEF ShutdownTimesOut, Fatal, Exit, shared
  <2>15. CASE StopProcessingScreenings(s)
    BY <2>15 DEF StopProcessingScreenings, MainAt, shared, Stopped
  <2>16. CASE StopProcessingFiles(s)
    BY <2>16 DEF StopProcessingFiles, MainAt, shared, Stopped
  <2>17. CASE DestroySession(s)
    BY <2>17 DEF DestroySession, MainAt, shared
  <2>18. CASE MainReturns(s)
    BY <2>18 DEF MainReturns, Exit, shared
  <2> QED
    BY <1>1, <2>1, <2>2, <2>3, <2>4, <2>5, <2>6, <2>7, <2>8, <2>9, <2>10, <2>11, <2>12,
       <2>13, <2>14, <2>15, <2>16, <2>17, <2>18 DEF Main
<1>2. ASSUME NEW s \in Servers,
             Start(s) \/ Signal(s) \/ Crash(s) \/ RequestBegins(s) \/ RequestEnds(s)
      PROVE  StageTells'
  <2>1. CASE Start(s)
    BY <2>1 DEF Start, MainAt, shared
  <2>2. CASE Signal(s)
    BY <2>2 DEF Signal, MainAt, shared
  <2>3. CASE Crash(s)
    BY <2>3 DEF Crash, Exit, shared
  <2>4. CASE RequestBegins(s)
    BY <2>4 DEF RequestBegins, shared
  <2>5. CASE RequestEnds(s)
    BY <2>5 DEF RequestEnds, shared
  <2> QED
    BY <1>2, <2>1, <2>2, <2>3, <2>4, <2>5
<1>3. ASSUME NEW s \in Servers, NEW w \in Workers,
             TickFires(s, w) \/ TickEnds(s, w) \/ WorkerReturns(s, w)
      PROVE  StageTells'
  <2>1. CASE TickFires(s, w)
    BY <2>1 DEF TickFires, WorkerAt, shared
  <2>2. CASE TickEnds(s, w)
    BY <2>2 DEF TickEnds, WorkerAt, shared
  <2>3. CASE WorkerReturns(s, w)
    BY <2>3 DEF WorkerReturns, WorkerAt, shared
  <2> QED
    BY <1>3, <2>1, <2>2, <2>3
<1>4. CASE UNCHANGED vars
  BY <1>4 DEF vars
<1> QED
  BY <1>1, <1>2, <1>3, <1>4 DEF Next

LEMMA Initially == Init => InductiveInvariant
BY LifecycleAssumption
   DEF Init, InductiveInvariant, TypeOK, StepsStart, SchemaTells, StageTells, BeforeModels,
       Starting, Stopping, Workers

LEMMA Holds == Spec => []InductiveInvariant
<1>1. InductiveInvariant /\ [Next]_vars => InductiveInvariant'
  BY TypeStep, SchemaStep, StageStep DEF InductiveInvariant
<1> QED
  BY <1>1, Initially, PTL DEF Spec

(* Type correctness: no server comes to a model it does not have. *)
THEOREM TypeCorrect == Spec => []TypeOK
<1>1. InductiveInvariant => TypeOK
  BY DEF InductiveInvariant
<1> QED
  BY Holds, <1>1, PTL

(* The session is open while a worker may use its pipelines. *)
THEOREM SessionCorrect == Spec => []SessionOutlivesWorkers
<1>1. InductiveInvariant => SessionOutlivesWorkers
  BY DEF InductiveInvariant, StageTells, SessionOutlivesWorkers, BeforeModels, Workers
<1> QED
  BY Holds, <1>1, PTL

(* Who serves has the tables and its index, whoever made them. *)
THEOREM ReadyCorrect == Spec => []ServingIsReady
<1>1. InductiveInvariant => ServingIsReady
  BY DEF InductiveInvariant, SchemaTells, ServingIsReady, BeforeModels
<1> QED
  BY Holds, <1>1, PTL
===============================================================================

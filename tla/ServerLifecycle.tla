---------------------------- MODULE ServerLifecycle ----------------------------
(***************************************************************************)
(* The main programs of examples/: how servers that share a database, a       *)
(* retriever and a directory of models start side by side, and how one stops. *)
(* A server migrates the database, opens a hugot session and makes a pipeline *)
(* of each model, which it downloads if its directory is not there, makes     *)
(* sure that the index exists, and serves with an HTTP server and two workers, *)
(* ProcessFiles and ProcessScreenings.  Whatever goes wrong on the way is      *)
(* log.Fatal, an exit that runs no deferred call.                           *)
(***************************************************************************)
EXTENDS Naturals, Sequences

CONSTANTS
  Servers,
  Models, Indexes,
  ModelsOf,  \* the models of each server in the order it loads them, <<>> without hugot
  IndexOf,   \* the index, or class, each server searches
  MaxFaults  \* bound: failed calls and crashes in a behaviour

ASSUME LifecycleAssumption ==
  /\ ModelsOf \in [Servers -> Seq(Models)]
  /\ IndexOf \in [Servers -> Indexes]
  /\ MaxFaults \in Nat

Workers == {"files", "screenings"}

VARIABLES
  \* what the servers share
  schema,    \* the version of the database: no migration, dirty, all of them
  model,     \* the directory of each model: not there, partly written, whole
  indexes,   \* the indexes that exist
  \* each process
  stage,     \* where main is
  step,      \* the model it has come to
  session,   \* whether its hugot session is open
  cancelled, \* whether ctx is
  worker,    \* what its two goroutines do
  request,   \* whether a request is being served
  faults

vars == <<schema, model, indexes, stage, step, session, cancelled, worker, request, faults>>

shared == <<schema, model, indexes>>

Starting == {"migrating", "applying", "stat", "download", "writing", "pipeline", "list", "create"}
Stopping == {"shutdown", "stopScreenings", "stopFiles", "destroy", "return"}

TypeOK ==
  /\ schema \in {"none", "dirty", "done"}
  /\ model \in [Models -> {"absent", "partial", "whole"}]
  /\ indexes \in SUBSET Indexes
  /\ stage \in [Servers -> {"down", "serving"} \cup Starting \cup Stopping]
  /\ step \in [Servers -> Nat]
  /\ \A s \in Servers : stage[s] \in {"stat", "download", "writing", "pipeline"} =>
       step[s] \in DOMAIN ModelsOf[s]
  /\ session \in [Servers -> BOOLEAN]
  /\ cancelled \in [Servers -> BOOLEAN]
  /\ worker \in [Servers -> [Workers -> {"off", "waiting", "busy"}]]
  /\ request \in [Servers -> BOOLEAN]
  /\ faults \in 0..MaxFaults

Init ==
  /\ schema = "none"
  /\ model = [m \in Models |-> "absent"]
  /\ indexes = {}
  /\ stage = [s \in Servers |-> "down"]
  /\ step = [s \in Servers |-> 1]
  /\ session = [s \in Servers |-> FALSE]
  /\ cancelled = [s \in Servers |-> FALSE]
  /\ worker = [s \in Servers |-> [w \in Workers |-> "off"]]
  /\ request = [s \in Servers |-> FALSE]
  /\ faults = 0

-------------------------------------------------------------------------------
MainAt(s, here, next) ==
  /\ stage[s] = here
  /\ stage' = [stage EXCEPT ![s] = next]

(* The process is gone: what it had in memory, its session and goroutines. *)
Exit(s) ==
  /\ stage' = [stage EXCEPT ![s] = "down"]
  /\ step' = [step EXCEPT ![s] = 1]
  /\ session' = [session EXCEPT ![s] = FALSE]
  /\ cancelled' = [cancelled EXCEPT ![s] = FALSE]
  /\ worker' = [worker EXCEPT ![s] = [w \in Workers |-> "off"]]
  /\ request' = [request EXCEPT ![s] = FALSE]

(* log.Fatal after an error; what the servers share is left as it is. *)
Fatal(s) == Exit(s) /\ UNCHANGED <<shared, faults>>

(* An operator or a supervisor starts it, for the first time or again. *)
Start(s) ==
  /\ MainAt(s, "down", "migrating")
  /\ UNCHANGED <<shared, step, session, cancelled, worker, request, faults>>

(* Migrate: the library takes an advisory lock and marks the version dirty    *)
(* until its statements are through.  A dirty version is an error for good.   *)
MigrationLock == \E s \in Servers : stage[s] = "applying"

(* The session is opened before the models are loaded, if any are configured. *)
OpenSession(s) == session' = [session EXCEPT ![s] = ModelsOf[s] # <<>>]

ToModels(s) == IF ModelsOf[s] = <<>> THEN "list" ELSE "stat"

MigrationsUp(s) ==
  /\ ~MigrationLock /\ schema = "none"
  /\ MainAt(s, "migrating", "applying")
  /\ schema' = "dirty"
  /\ UNCHANGED <<model, indexes, step, session, cancelled, worker, request, faults>>

MigrationsDone(s) ==
  /\ MainAt(s, "applying", ToModels(s))
  /\ schema' = "done"
  /\ OpenSession(s)
  /\ UNCHANGED <<model, indexes, step, cancelled, worker, request, faults>>

NoChangeUnlocked(s) ==
  /\ MainAt(s, "migrating", ToModels(s))
  /\ OpenSession(s)
  /\ UNCHANGED <<shared, step, cancelled, worker, request, faults>>

NoChange(s) ==
  /\ ~MigrationLock /\ schema = "done"
  /\ MainAt(s, "migrating", ToModels(s))
  /\ OpenSession(s)
  /\ UNCHANGED <<shared, step, cancelled, worker, request, faults>>

(* The version is dirty, or the lock was not to be had in time. *)
MigrateFails(s) ==
  /\ stage[s] = "migrating"
  /\ MigrationLock \/ schema = "dirty"
  /\ Fatal(s)

(* checkModelExists looks for the directory only. *)
ModelAt(s) == ModelsOf[s][step[s]]

CheckModelExists(s) ==
  /\ MainAt(s, "stat", IF model[ModelAt(s)] = "absent" THEN "download" ELSE "pipeline")
  /\ UNCHANGED <<shared, step, session, cancelled, worker, request, faults>>

(* DownloadModel writes into the directory, over what is there. *)
DownloadModel(s) ==
  /\ MainAt(s, "download", "writing")
  /\ model' = [model EXCEPT ![ModelAt(s)] = "partial"]
  /\ UNCHANGED <<schema, indexes, step, session, cancelled, worker, request, faults>>

Writes(t, m) == stage[t] = "writing" /\ ModelAt(t) = m

Downloaded(s) ==
  /\ MainAt(s, "writing", "pipeline")
  /\ model' = [model EXCEPT ![ModelAt(s)] =
                 IF \E t \in Servers : t # s /\ Writes(t, ModelAt(s)) THEN "partial" ELSE "whole"]
  /\ UNCHANGED <<schema, indexes, step, session, cancelled, worker, request, faults>>

(* A pipeline is made of a whole model only. *)
LastModelOffByOne(s) == step[s] = Len(ModelsOf[s]) + 1

LastModel(s) == step[s] = Len(ModelsOf[s])

NewPipeline(s) ==
  /\ stage[s] = "pipeline"
  /\ model[ModelAt(s)] = "whole"
  /\ MainAt(s, "pipeline", IF LastModel(s) THEN "list" ELSE "stat")
  /\ step' = [step EXCEPT ![s] = IF LastModel(s) THEN 1 ELSE @ + 1]
  /\ UNCHANGED <<shared, session, cancelled, worker, request, faults>>

NewPipelineFails(s) ==
  /\ stage[s] = "pipeline"
  /\ model[ModelAt(s)] = "partial"
  /\ Fatal(s)

(* The retriever's init: list the indexes, create the one that is missing. *)
IndexExistsNever(s) == FALSE

IndexExists(s) == IndexOf[s] \in indexes

ListIndexes(s) ==
  /\ MainAt(s, "list", IF IndexExists(s) THEN "serving" ELSE "create")
  /\ worker' = IF IndexExists(s) THEN [worker EXCEPT ![s] = [w \in Workers |-> "waiting"]]
               ELSE worker
  /\ UNCHANGED <<shared, step, session, cancelled, request, faults>>

CreateIndex(s) ==
  /\ IndexOf[s] \notin indexes
  /\ MainAt(s, "create", "serving")
  /\ indexes' = indexes \cup {IndexOf[s]}
  /\ worker' = [worker EXCEPT ![s] = [w \in Workers |-> "waiting"]]
  /\ UNCHANGED <<schema, model, step, session, cancelled, request, faults>>

(* Another server has created it since the list. *)
CreateIndexFails(s) ==
  /\ stage[s] = "create"
  /\ IndexOf[s] \in indexes
  /\ Fatal(s)

-------------------------------------------------------------------------------
(* The loop of ProcessFiles and ProcessScreenings.  A tick that fires after    *)
(* the cancellation ends in jitter or in BeginTx and changes nothing.         *)
WorkerAt(s, w, here, next) ==
  /\ worker[s][w] = here
  /\ worker' = [worker EXCEPT ![s][w] = next]
  /\ UNCHANGED <<shared, stage, step, session, cancelled, request, faults>>

TickFires(s, w) == ~cancelled[s] /\ WorkerAt(s, w, "waiting", "busy")

(* The batch and the sweep are through: processed, or failed one after the    *)
(* other on the cancelled context.                                          *)
TickEnds(s, w) == WorkerAt(s, w, "busy", "waiting")

WorkerReturns(s, w) == cancelled[s] /\ WorkerAt(s, w, "waiting", "off")

RequestBegins(s) ==
  /\ stage[s] = "serving" /\ ~request[s]
  /\ request' = [request EXCEPT ![s] = TRUE]
  /\ UNCHANGED <<shared, stage, step, session, cancelled, worker, faults>>

RequestEnds(s) ==
  /\ request[s]
  /\ request' = [request EXCEPT ![s] = FALSE]
  /\ UNCHANGED <<shared, stage, step, session, cancelled, worker, faults>>

(* SIGINT or SIGTERM while main waits for one: cancel(), httpServer.Shutdown. *)
SignalWithoutCancel(s) ==
  /\ MainAt(s, "serving", "shutdown")
  /\ UNCHANGED <<shared, step, session, cancelled, worker, request, faults>>

Signal(s) ==
  /\ MainAt(s, "serving", "shutdown")
  /\ cancelled' = [cancelled EXCEPT ![s] = TRUE]
  /\ UNCHANGED <<shared, step, session, worker, request, faults>>

Shutdown(s) ==
  /\ ~request[s]
  /\ MainAt(s, "shutdown", "stopScreenings")
  /\ UNCHANGED <<shared, step, session, cancelled, worker, request, faults>>

(* A request outlasts the ten seconds. *)
ShutdownTimesOut(s) ==
  /\ stage[s] = "shutdown" /\ request[s]
  /\ Fatal(s)

(* The deferred calls, the last one first: each stop waits for its worker. *)
StopAtOnce(s, w) == TRUE

Stopped(s, w) == worker[s][w] = "off"

StopProcessingScreenings(s) ==
  /\ Stopped(s, "screenings")
  /\ MainAt(s, "stopScreenings", "stopFiles")
  /\ UNCHANGED <<shared, step, session, cancelled, worker, request, faults>>

StopProcessingFiles(s) ==
  /\ Stopped(s, "files")
  /\ MainAt(s, "stopFiles", "destroy")
  /\ UNCHANGED <<shared, step, session, cancelled, worker, request, faults>>

DestroySession(s) ==
  /\ MainAt(s, "destroy", "return")
  /\ session' = [session EXCEPT ![s] = FALSE]
  /\ UNCHANGED <<shared, step, cancelled, worker, request, faults>>

MainReturns(s) == stage[s] = "return" /\ Exit(s) /\ UNCHANGED <<shared, faults>>

(* A call of the start fails, the port is taken, the process is killed: by a  *)
(* signal too, as long as main does not wait for one.                       *)
Crash(s) ==
  /\ stage[s] # "down"
  /\ faults < MaxFaults /\ faults' = faults + 1
  /\ Exit(s)
  /\ UNCHANGED shared

-------------------------------------------------------------------------------
Main(s) ==
  \/ MigrationsUp(s) \/ MigrationsDone(s) \/ NoChange(s) \/ MigrateFails(s)
  \/ CheckModelExists(s) \/ DownloadModel(s) \/ Downloaded(s)
  \/ NewPipeline(s) \/ NewPipelineFails(s)
  \/ ListIndexes(s) \/ CreateIndex(s) \/ CreateIndexFails(s)
  \/ Shutdown(s) \/ ShutdownTimesOut(s)
  \/ StopProcessingScreenings(s) \/ StopProcessingFiles(s)
  \/ DestroySession(s) \/ MainReturns(s)

Next ==
  \E s \in Servers :
    \/ Main(s)
    \/ Start(s) \/ Signal(s) \/ Crash(s)
    \/ RequestBegins(s) \/ RequestEnds(s)
    \/ \E w \in Workers : TickFires(s, w) \/ TickEnds(s, w) \/ WorkerReturns(s, w)

Spec == Init /\ [][Next]_vars

(* Main goes on, a batch ends, and the select of a worker sees that ctx is done. *)
(* Nobody owes a start, a signal or the end of a request.                     *)
Fairness ==
  \A s \in Servers :
    /\ WF_vars(Main(s))
    /\ \A w \in Workers : WF_vars(TickEnds(s, w)) /\ WF_vars(WorkerReturns(s, w))

FairSpec == Spec /\ Fairness

-------------------------------------------------------------------------------
(* The hugot session is destroyed after the workers that run its pipelines    *)
(* have returned, however long their batch takes.                           *)
SessionOutlivesWorkers ==
  \A s \in Servers :
    ModelsOf[s] # <<>> /\ (\E w \in Workers : worker[s][w] = "busy") => session[s]

(* No server claims work or takes requests before the tables and its index are *)
(* there, whichever of the servers makes them.                              *)
ServingIsReady ==
  \A s \in Servers :
    stage[s] = "serving" => schema = "done" /\ IndexOf[s] \in indexes

(* What is left of a start that was cut short and that no later one repairs:  *)
(* a dirty version, or the directory of a model that nobody completes.        *)
Wrecked(s) ==
  \/ schema = "dirty" /\ ~\E t \in Servers : stage[t] = "applying"
  \/ \E i \in DOMAIN ModelsOf[s] :
       /\ model[ModelsOf[s][i]] = "partial"
       /\ ~\E t \in Servers : Writes(t, ModelsOf[s][i])

(* The races of servers that start together, for the migration, a model or the *)
(* index, cost the losers a start, no more: a server that is started again     *)
(* and again serves, unless a fault has cut a migration or a download short.   *)
RestartsSucceed ==
  \A s \in Servers :
    []<>(stage[s] = "migrating") => <>(stage[s] = "serving" \/ (faults > 0 /\ Wrecked(s)))

(* A server that was told to stop stops, with a worker in a batch or a client  *)
(* that does not hang up.                                                  *)
SignalledStops ==
  \A s \in Servers : stage[s] = "shutdown" ~> stage[s] = "down"
===============================================================================

---------------------------- MODULE FileProcessing ----------------------------
(***************************************************************************)
(* The asynchronous file pipeline of ragserver (file_processing.go): every  *)
(* server runs one ProcessFiles goroutine that, on each tick, claims a      *)
(* batch of UPLOADED files in a database transaction, processes the batch   *)
(* one file after the other, and then fails the files that have been        *)
(* PROCESSING for too long, whichever server claimed them.                  *)
(*                                                                         *)
(* A file stands for a row of "ragserver"."file"; files are numbered in the *)
(* order of their "created" column.  Time is counted in ticks and only the  *)
(* ages the code compares are kept.                                         *)
(***************************************************************************)
EXTENDS Naturals, FiniteSets, FiniteSetsExt

CONSTANTS
  Servers,        \* the ragserver processes sharing one database
  Files,          \* the files, numbered by their "created" time
  DocCount,       \* how many documents extracting a file yields
  MaxConcurrent,  \* maxConcurrentFiles
  ListLimit,      \* defaultFileSortParams.Limit
  Timeout,        \* processFileTimeout, in ticks
  Grace,          \* the extra minute of the sweep, in ticks
  MaxFaults       \* bound: crashes and failed store operations in a behaviour

ASSUME ConstantsAssumption ==
  /\ IsFiniteSet(Servers)
  /\ Files \subseteq Nat /\ IsFiniteSet(Files)
  /\ DocCount \in [Files -> Nat]
  /\ MaxConcurrent \in Nat \ {0}
  /\ ListLimit \in Nat /\ ListLimit >= MaxConcurrent
  /\ Timeout \in Nat \ {0}
  /\ Grace \in Nat
  /\ MaxFaults \in Nat

ABSENT                 == "ABSENT"
UPLOADED               == "UPLOADED"
PROCESSING             == "PROCESSING"
PROCESSED_SUCCESSFULLY == "PROCESSED_SUCCESSFULLY"
PROCESSING_FAILED      == "PROCESSING_FAILED"

Terminal   == {PROCESSED_SUCCESSFULLY, PROCESSING_FAILED}
FileStatus == {UPLOADED, PROCESSING} \cup Terminal

(* The first age at which the sweep's "updated" < now - Timeout - Grace holds. *)
StaleAge == Timeout + Grace + 1

VARIABLES
  \* the shared database and retriever
  status,     \* "file"."status" of every row, ABSENT when there is no row
  events,     \* the statuses of the file's rows in "file_status_evt"
  docs,       \* how many documents of the file the retriever holds
  age,        \* ticks since the last "updated" stamp of a claimed file
  inserting,  \* the files whose insert transaction is open
  \* the goroutine of each server
  pc,         \* where it is
  avail,      \* workersAvailable, between the count and the claim
  batch,      \* the claimed files it has not finished
  mem,        \* aFile.Status of the file it processes
  saved,      \* how many documents of that file it has saved
  elapsed,    \* ticks since processCtx of that file was created
  stale,      \* the files its sweep has listed
  faults      \* crashes and failed store operations so far

dbVars     == <<status, events>>
serverVars == <<pc, avail, batch, mem, saved, elapsed, stale>>
vars       == <<dbVars, docs, age, inserting, serverVars, faults>>

PC == {"idle", "counted", "claimed", "ready", "processing", "completing",
       "failing", "listed"}

TypeOK ==
  /\ status \in [Files -> FileStatus \cup {ABSENT}]
  /\ events \in [Files -> SUBSET FileStatus]
  /\ docs \in [Files -> Nat]
  /\ age \in [Files -> 0..StaleAge]
  /\ inserting \in SUBSET Files
  /\ pc \in [Servers -> PC]
  /\ avail \in [Servers -> 0..MaxConcurrent]
  /\ batch \in [Servers -> SUBSET Files]
  /\ mem \in [Servers -> FileStatus]
  /\ saved \in [Servers -> Nat]
  /\ elapsed \in [Servers -> 0..Timeout]
  /\ stale \in [Servers -> SUBSET Files]
  /\ faults \in 0..MaxFaults

Init ==
  /\ status = [f \in Files |-> ABSENT]
  /\ events = [f \in Files |-> {}]
  /\ docs = [f \in Files |-> 0]
  /\ age = [f \in Files |-> 0]
  /\ inserting = {}
  /\ pc = [s \in Servers |-> "idle"]
  /\ avail = [s \in Servers |-> 0]
  /\ batch = [s \in Servers |-> {}]
  /\ mem = [s \in Servers |-> PROCESSING]
  /\ saved = [s \in Servers |-> 0]
  /\ elapsed = [s \in Servers |-> 0]
  /\ stale = [s \in Servers |-> {}]
  /\ faults = 0

-------------------------------------------------------------------------------
(* Selecting rows. *)

(* The inner join with file_status_evt hides a row without an event for the *)
(* status it is in.                                                         *)
WithStatus(st) == {f \in Files : status[f] = st /\ st \in events[f]}

(* order by "created" asc / desc limit n *)
Oldest(S, n) == {f \in S : Cardinality({g \in S : g < f}) < n}
Newest(S, n) == {f \in S : Cardinality({g \in S : g > f}) < n}

ListProcessing == Newest(WithStatus(PROCESSING), ListLimit)

(* The rows "for update skip locked" returns: every row of the join is       *)
(* locked, the one of file_status too, so a claim that is open elsewhere, or  *)
(* an insert that references that row, leaves nothing to take.               *)
ClaimOpen == \E s \in Servers : pc[s] = "claimed"

Lockable == IF ClaimOpen \/ inserting # {} THEN {} ELSE WithStatus(UPLOADED)

WorkersAvailableUncapped(processing) == MaxConcurrent - processing

WorkersAvailableUnsubtracted(processing) ==
  IF processing >= MaxConcurrent THEN 0 ELSE MaxConcurrent

WorkersAvailable(processing) ==
  IF processing >= MaxConcurrent THEN 0 ELSE MaxConcurrent - processing

StaleFilesNone == {}

StaleFiles ==
  Newest({f \in WithStatus(PROCESSING) : age[f] > Timeout + Grace}, ListLimit)

(* Saving rows: the upsert sets the status whatever it was, and the event's  *)
(* primary key (file, status) refuses a status the file has had before.      *)
Saveable(S, st) == \A f \in S : st \notin events[f]

SaveFilesRowOnly(S, st) ==
  /\ status' = [f \in Files |-> IF f \in S THEN st ELSE status[f]]
  /\ UNCHANGED events

SaveFiles(S, st) ==
  /\ status' = [f \in Files |-> IF f \in S THEN st ELSE status[f]]
  /\ events' = [f \in Files |-> IF f \in S THEN events[f] \cup {st} ELSE events[f]]

(* File.CompleteWithStatus looks at the copy of the file in memory only. *)
CanComplete(st) == st = PROCESSING

Fault == faults < MaxFaults /\ faults' = faults + 1

-------------------------------------------------------------------------------
(* CreateFile's transaction, as far as the pipeline sees it: from the insert, *)
(* which locks the row of file_status it references against a claim, to the   *)
(* commit that makes the file visible, or the rollback.                      *)
BeginInsert(f) ==
  /\ status[f] = ABSENT /\ f \notin inserting
  /\ ~ClaimOpen
  /\ inserting' = inserting \cup {f}
  /\ UNCHANGED <<dbVars, docs, age, serverVars, faults>>

CommitInsert(f) ==
  /\ f \in inserting
  /\ SaveFiles({f}, UPLOADED)
  /\ inserting' = inserting \ {f}
  /\ UNCHANGED <<docs, age, serverVars, faults>>

AbortInsert(f) ==
  /\ f \in inserting
  /\ Fault
  /\ inserting' = inserting \ {f}
  /\ UNCHANGED <<dbVars, docs, age, serverVars>>

-------------------------------------------------------------------------------
(* One round of processFiles on server s. *)

(* The file being processed: the loop runs in the order of the list. *)
Current(s) == Min(batch[s])

(* The goroutine is back at the ticker with nothing in memory. *)
BackToIdle(s) ==
  /\ pc' = [pc EXCEPT ![s] = "idle"]
  /\ avail' = [avail EXCEPT ![s] = 0]
  /\ batch' = [batch EXCEPT ![s] = {}]
  /\ mem' = [mem EXCEPT ![s] = PROCESSING]
  /\ saved' = [saved EXCEPT ![s] = 0]
  /\ elapsed' = [elapsed EXCEPT ![s] = 0]
  /\ stale' = [stale EXCEPT ![s] = {}]

(* The tick: the claim transaction begins and counts the files in processing. *)
CountProcessing(s) ==
  /\ pc[s] = "idle"
  /\ avail' = [avail EXCEPT ![s] = WorkersAvailable(Cardinality(ListProcessing))]
  /\ pc' = [pc EXCEPT ![s] = "counted"]
  /\ UNCHANGED <<dbVars, docs, age, inserting, batch, mem, saved, elapsed, stale, faults>>

(* The claim locks the oldest uploaded files and stamps them in memory; with *)
(* none to take the transaction ends and the round goes on with an empty batch. *)
ListUploaded(s) ==
  /\ pc[s] = "counted"
  /\ LET taken == Oldest(Lockable, avail[s]) IN
       /\ batch' = [batch EXCEPT ![s] = taken]
       /\ age' = [f \in Files |-> IF f \in taken THEN 0 ELSE age[f]]
       /\ pc' = [pc EXCEPT ![s] = IF taken = {} THEN "ready" ELSE "claimed"]
  /\ avail' = [avail EXCEPT ![s] = 0]
  /\ UNCHANGED <<dbVars, docs, inserting, mem, saved, elapsed, stale, faults>>

ClaimCommit(s) ==
  /\ pc[s] = "claimed"
  /\ Saveable(batch[s], PROCESSING)
  /\ SaveFiles(batch[s], PROCESSING)
  /\ pc' = [pc EXCEPT ![s] = "ready"]
  /\ UNCHANGED <<docs, age, inserting, avail, batch, mem, saved, elapsed, stale, faults>>

ClaimRollbackIgnored(s) ==
  /\ pc[s] = "claimed"
  /\ Fault
  /\ pc' = [pc EXCEPT ![s] = "ready"]
  /\ UNCHANGED <<dbVars, docs, age, inserting, avail, batch, mem, saved, elapsed, stale>>

(* A claim that fails leaves the function before the loop and the sweep. *)
ClaimRollback(s) ==
  /\ pc[s] \in {"counted", "claimed"}
  /\ \/ Fault
     \/ pc[s] = "claimed" /\ ~Saveable(batch[s], PROCESSING) /\ UNCHANGED faults
  /\ BackToIdle(s)
  /\ UNCHANGED <<dbVars, docs, age, inserting>>

(* The deadline of processCtx starts when the file's turn comes. *)
StartFile(s) ==
  /\ pc[s] = "ready" /\ batch[s] # {}
  /\ pc' = [pc EXCEPT ![s] = "processing"]
  /\ mem' = [mem EXCEPT ![s] = PROCESSING]
  /\ saved' = [saved EXCEPT ![s] = 0]
  /\ elapsed' = [elapsed EXCEPT ![s] = 0]
  /\ UNCHANGED <<dbVars, docs, age, inserting, avail, batch, stale, faults>>

Expired(s) == elapsed[s] >= Timeout

(* Once the file is read, extracted and embedded, the retriever saves its *)
(* documents one by one.                                                  *)
SaveDocument(s) ==
  /\ pc[s] = "processing" /\ ~Expired(s)
  /\ saved[s] < DocCount[Current(s)]
  /\ docs' = [docs EXCEPT ![Current(s)] = @ + 1]
  /\ saved' = [saved EXCEPT ![s] = @ + 1]
  /\ UNCHANGED <<dbVars, age, inserting, pc, avail, batch, mem, elapsed, stale, faults>>

(* Reading, extracting, embedding or saving returns an error, or the deadline *)
(* ends one of them; a document may be in the retriever without an answer.    *)
ProcessingError(s) ==
  /\ pc[s] = "processing"
  /\ \/ UNCHANGED docs
     \/ /\ saved[s] < DocCount[Current(s)]
        /\ docs' = [docs EXCEPT ![Current(s)] = @ + 1]
  /\ pc' = [pc EXCEPT ![s] = "failing"]
  /\ UNCHANGED <<dbVars, age, inserting, avail, batch, mem, saved, elapsed, stale, faults>>

AllButOneSaved(s) == saved[s] + 1 >= DocCount[Current(s)]

AllSaved(s) == saved[s] = DocCount[Current(s)]

(* processingFileSucceeded changes the copy in memory before it saves it. *)
BeginSuccess(s) ==
  /\ pc[s] = "processing" /\ ~Expired(s)
  /\ AllSaved(s)
  /\ CanComplete(mem[s])
  /\ mem' = [mem EXCEPT ![s] = PROCESSED_SUCCESSFULLY]
  /\ pc' = [pc EXCEPT ![s] = "completing"]
  /\ UNCHANGED <<dbVars, docs, age, inserting, avail, batch, saved, elapsed, stale, faults>>

(* The loop goes on to the next file of the batch. *)
NextFile(s) ==
  /\ pc' = [pc EXCEPT ![s] = "ready"]
  /\ batch' = [batch EXCEPT ![s] = @ \ {Current(s)}]
  /\ mem' = [mem EXCEPT ![s] = PROCESSING]
  /\ saved' = [saved EXCEPT ![s] = 0]
  /\ elapsed' = [elapsed EXCEPT ![s] = 0]
  /\ UNCHANGED <<avail, stale>>

(* A completed row is stamped again; its age is of no use to the sweep. *)
SaveCompleted(S, st) ==
  /\ Saveable(S, st)
  /\ SaveFiles(S, st)
  /\ age' = [f \in Files |-> IF f \in S THEN 0 ELSE age[f]]

CommitSuccess(s) ==
  /\ pc[s] = "completing" /\ ~Expired(s)
  /\ SaveCompleted({Current(s)}, PROCESSED_SUCCESSFULLY)
  /\ NextFile(s)
  /\ UNCHANGED <<docs, inserting, faults>>

(* The commit that fails leaves the copy in memory completed. *)
SuccessRollback(s) ==
  /\ pc[s] = "completing"
  /\ \/ Fault
     \/ /\ Expired(s) \/ ~Saveable({Current(s)}, PROCESSED_SUCCESSFULLY)
        /\ UNCHANGED faults
  /\ pc' = [pc EXCEPT ![s] = "failing"]
  /\ UNCHANGED <<dbVars, docs, age, inserting, avail, batch, mem, saved, elapsed, stale>>

(* processingFileFailed runs under the server's context: no deadline. *)
RecordFailure(s) ==
  /\ pc[s] = "failing" /\ CanComplete(mem[s])
  /\ SaveCompleted({Current(s)}, PROCESSING_FAILED)
  /\ NextFile(s)
  /\ UNCHANGED <<docs, inserting, faults>>

(* An error of processingFileFailed is logged and the row stays as it was. *)
FailureNotRecorded(s) ==
  /\ pc[s] = "failing"
  /\ \/ Fault
     \/ /\ ~CanComplete(mem[s]) \/ ~Saveable({Current(s)}, PROCESSING_FAILED)
        /\ UNCHANGED faults
  /\ NextFile(s)
  /\ UNCHANGED <<dbVars, docs, age, inserting>>

(* After the batch: the sweep transaction lists, without a lock, the files *)
(* that have been PROCESSING too long ...                                  *)
ListStale(s) ==
  /\ pc[s] = "ready" /\ batch[s] = {}
  /\ stale' = [stale EXCEPT ![s] = StaleFiles]
  /\ pc' = [pc EXCEPT ![s] = IF StaleFiles = {} THEN "idle" ELSE "listed"]
  /\ UNCHANGED <<dbVars, docs, age, inserting, avail, batch, mem, saved, elapsed, faults>>

(* ... and saves them all as failed, whatever happened to them since.  That    *)
(* CompleteWithStatus takes only a PROCESSING file goes without saying: it is   *)
(* asked about the copies the list has filtered by that status.              *)
FailStale(s) ==
  /\ pc[s] = "listed"
  /\ SaveCompleted(stale[s], PROCESSING_FAILED)
  /\ BackToIdle(s)
  /\ UNCHANGED <<docs, inserting, faults>>

SweepRollback(s) ==
  /\ \/ pc[s] = "ready" /\ batch[s] = {} /\ Fault
     \/ /\ pc[s] = "listed"
        /\ \/ Fault
           \/ ~Saveable(stale[s], PROCESSING_FAILED) /\ UNCHANGED faults
  /\ BackToIdle(s)
  /\ UNCHANGED <<dbVars, docs, age, inserting>>

(* The process dies, or is shut down: its open transaction is rolled back,   *)
(* the files of its batch stay as they are, and a new process starts afresh. *)
Crash(s) ==
  /\ pc[s] # "idle"
  /\ Fault
  /\ BackToIdle(s)
  /\ UNCHANGED <<dbVars, docs, age, inserting>>

-------------------------------------------------------------------------------
(* One tick of the wall clock: ages stop counting where no comparison of the *)
(* code tells them apart any more.                                           *)
Stamped == {f \in Files : status[f] = PROCESSING}
             \cup UNION {batch[s] : s \in {t \in Servers : pc[t] = "claimed"}}

Tick ==
  /\ age' = [f \in Files |->
               IF f \in Stamped /\ age[f] < StaleAge THEN age[f] + 1 ELSE age[f]]
  /\ elapsed' = [s \in Servers |->
                   IF pc[s] \in {"processing", "completing"} /\ elapsed[s] < Timeout
                     THEN elapsed[s] + 1 ELSE elapsed[s]]
  /\ UNCHANGED <<dbVars, docs, inserting, pc, avail, batch, mem, saved, stale, faults>>

(* What the goroutine of s does next, store errors included. *)
ServerStep(s) ==
  \/ CountProcessing(s) \/ ListUploaded(s) \/ ClaimCommit(s) \/ ClaimRollback(s)
  \/ StartFile(s) \/ SaveDocument(s) \/ ProcessingError(s)
  \/ BeginSuccess(s) \/ CommitSuccess(s) \/ SuccessRollback(s)
  \/ RecordFailure(s) \/ FailureNotRecorded(s)
  \/ ListStale(s) \/ FailStale(s) \/ SweepRollback(s)

InsertEnds(f) == CommitInsert(f) \/ AbortInsert(f)

Work ==
  \/ \E f \in Files : BeginInsert(f) \/ InsertEnds(f)
  \/ \E s \in Servers : ServerStep(s) \/ Crash(s)

Next == Work \/ Tick

Spec == Init /\ [][Next]_vars

(* The ticker fires again and again, every call of the loop returns, time     *)
(* passes and an open transaction ends.  Clients and faults owe nothing.      *)
Fairness ==
  /\ \A s \in Servers : WF_vars(ServerStep(s))
  /\ \A f \in Files : WF_vars(InsertEnds(f))
  /\ WF_vars(Tick)

FairSpec == Spec /\ Fairness

(* The behaviours in which a claim commits and its first file starts in less *)
(* than a tick.                                                             *)
StartsPromptly ==
  \A s \in Servers : pc[s] # "claimed" /\ (pc[s] = "ready" => batch[s] = {})

PromptSpec == Init /\ [][Work \/ (StartsPromptly /\ Tick)]_vars

-------------------------------------------------------------------------------
(* What the pipeline guarantees. *)

(* The recorded events tell the life of each row: a PROCESSING row has no     *)
(* terminal event, so the primary key of file_status_evt never keeps the      *)
(* sweep from failing it, and every row has the event of its status, without  *)
(* which the inner joins of ListFiles and FindFile would lose the file.       *)
EventsTellStatus ==
  \A f \in Files :
    /\ status[f] = ABSENT => events[f] = {}
    /\ status[f] = UPLOADED => events[f] = {UPLOADED}
    /\ status[f] = PROCESSING => events[f] = {UPLOADED, PROCESSING}
    /\ status[f] \in Terminal => {UPLOADED, PROCESSING, status[f]} \subseteq events[f]

(* However servers race for the uploaded files, crash, and roll claims back,  *)
(* no file is in the hands of two servers; the committed files of a batch     *)
(* are PROCESSING, or were failed by a sweep while they waited.               *)
ClaimsExclusive ==
  /\ \A s, t \in Servers : s # t => batch[s] \cap batch[t] = {}
  /\ \A s \in Servers : \A f \in batch[s] :
       IF pc[s] = "claimed" THEN status[f] = UPLOADED
       ELSE status[f] \in {PROCESSING, PROCESSING_FAILED}

(* A file the API shows as processed has all its documents in the retriever, *)
(* each saved once.                                                          *)
SuccessMeansIndexed ==
  \A f \in Files : status[f] = PROCESSED_SUCCESSFULLY => docs[f] = DocCount[f]

InProgress == {f \in Files : status[f] = PROCESSING}

(* What a server may still claim, or has claimed and not committed. *)
Reserved ==
  [s \in Servers |-> avail[s] + (IF pc[s] = "claimed" THEN Cardinality(batch[s]) ELSE 0)]

(* The count and the claim are separate statements, so maxConcurrentFiles is *)
(* exceeded, but never by more than each server's own maximum: rows in       *)
(* processing plus the claims under way stay below Servers * MaxConcurrent,  *)
(* and one server alone keeps to MaxConcurrent.                              *)
ClaimsBounded ==
  Cardinality(InProgress)
    + MapThenSumSet(LAMBDA s : Reserved[s], Servers)
    <= Cardinality(Servers) * MaxConcurrent

(* What the comment on checkFileConcurrency says it enforces. *)
MaxConcurrentEnforced ==
  Cardinality(InProgress) <= MaxConcurrent

OnlyForward ==
  \A f \in Files :
    status'[f] # status[f] =>
      \/ status[f] = ABSENT /\ status'[f] = UPLOADED
      \/ status[f] = UPLOADED /\ status'[f] = PROCESSING
      \/ /\ status[f] \in {PROCESSING} \cup Terminal
         /\ status'[f] \in Terminal \ events[f]

(* A status moves from UPLOADED to PROCESSING to an outcome and never back;  *)
(* an outcome may be replaced by the other one, but only once per file.      *)
StatusMoves == [][OnlyForward]_vars

(* A client stops polling a file at its first outcome (upload-file.sh), and  *)
(* CompleteWithStatus refuses to complete a file that is not PROCESSING: the *)
(* outcome of a file does not change any more.                               *)
OutcomeIsFinal ==
  [][\A f \in Files : status[f] \in Terminal => status'[f] = status[f]]_vars

(* Every uploaded file reaches an outcome, whatever crashes and whichever    *)
(* writes are lost, as long as the faults end.                               *)
UploadedSettles ==
  \A f \in Files : status[f] = UPLOADED ~> status[f] \in Terminal

(* The strengthening under which the invariants above are inductive. *)
Busy(s) == pc[s] \in {"processing", "completing", "failing"}

(* A goroutine holds files exactly between its claim and its sweep, and lists *)
(* stale files only in the sweep.                                            *)
HandsMatchPC ==
  \A s \in Servers :
    /\ pc[s] \in {"idle", "counted", "listed"} => batch[s] = {}
    /\ Busy(s) => batch[s] # {}
    /\ pc[s] # "listed" => stale[s] = {}

(* The rows a transaction is about to write are not behind its back what it  *)
(* could not write: an open insert has no row yet, and a listed stale file    *)
(* was claimed before.                                                       *)
WritesApply ==
  /\ \A f \in inserting : status[f] = ABSENT
  /\ \A s \in Servers : \A f \in stale[s] : status[f] \in {PROCESSING} \cup Terminal

(* Only the worker a file is being processed by has put documents of it in   *)
(* the retriever, and it knows how many.                                     *)
DocumentsAccounted ==
  /\ \A f \in Files : status[f] \in {ABSENT, UPLOADED} => docs[f] = 0
  /\ \A s \in Servers : \A f \in batch[s] :
       ~(Busy(s) /\ f = Current(s)) => docs[f] = 0
  /\ \A s \in Servers :
       /\ pc[s] \in {"processing", "completing"} => docs[Current(s)] = saved[s]
       /\ pc[s] = "completing" => saved[s] = DocCount[Current(s)]

(* Workers are counted for one claim only, and it takes no more than counted. *)
ReservationsEnd ==
  \A s \in Servers :
    /\ pc[s] # "counted" => avail[s] = 0
    /\ pc[s] = "claimed" => Cardinality(batch[s]) <= MaxConcurrent

InductiveInvariant ==
  /\ TypeOK
  /\ EventsTellStatus
  /\ ClaimsExclusive
  /\ HandsMatchPC
  /\ WritesApply
  /\ DocumentsAccounted
  /\ SuccessMeansIndexed
  /\ ReservationsEnd
  /\ ClaimsBounded

(* The row of a file, read as a job of the abstract queue. *)
JobPhase(f) ==
  CASE status[f] = ABSENT     -> "absent"
    [] status[f] = UPLOADED   -> "pending"
    [] status[f] = PROCESSING -> "running"
    [] OTHER                  -> "settled"

Queue == INSTANCE JobQueue WITH
  Jobs     <- Files,
  Outcomes <- Terminal,
  Withdrawable <- {},
  phase    <- [f \in Files |-> JobPhase(f)],
  outcome  <- [f \in Files |-> IF status[f] \in Terminal THEN status[f] ELSE "none"],
  recorded <- [f \in Files |-> events[f] \cap Terminal]

(* The pipeline implements the queue: a file is claimed once, gets an        *)
(* outcome, and no outcome is recorded twice for it.                         *)
ImplementsQueue == Queue!Spec
===============================================================================

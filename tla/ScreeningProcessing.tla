-------------------------- MODULE ScreeningProcessing --------------------------
(***************************************************************************)
(* The screening pipeline of ragserver (screening_processings.go) together  *)
(* with the requests that create and delete screenings (screening.go).      *)
(* Every server runs one ProcessScreenings goroutine: it claims a batch of  *)
(* REQUESTED screenings, answers the questions of each in turn, saving each *)
(* answer in a transaction of its own, and sweeps the screenings that have  *)
(* been GENERATING for too long.                                           *)
(*                                                                         *)
(* A screening is numbered by its "created" column.  Its files, questions   *)
(* and their contents are abstracted: of a question the model keeps whether *)
(* it has its rows, of the answers how many rows there are.                 *)
(***************************************************************************)
EXTENDS Naturals, FiniteSets, FiniteSetsExt

CONSTANTS
  Servers,        \* the ragserver processes sharing one database
  Screenings,     \* the screenings, numbered by their "created" time
  QuestionCount,  \* how many questions each screening asks
  MaxConcurrent,  \* maxConcurrentScreenings
  ListLimit,      \* defaultScreeningSortParams.Limit
  Timeout,        \* processScreeningTimeout, in ticks
  Grace,          \* the extra minute of the sweep, in ticks
  MaxFaults       \* bound: crashes and failed store operations in a behaviour

ASSUME ConstantsAssumption ==
  /\ IsFiniteSet(Servers)
  /\ Screenings \subseteq Nat /\ IsFiniteSet(Screenings)
  /\ QuestionCount \in [Screenings -> Nat \ {0}]
  /\ MaxConcurrent \in Nat \ {0}
  /\ ListLimit \in Nat /\ ListLimit >= MaxConcurrent
  /\ Timeout \in Nat \ {0}
  /\ Grace \in Nat
  /\ MaxFaults \in Nat

ABSENT     == "ABSENT"
REQUESTED  == "REQUESTED"
GENERATING == "GENERATING"
COMPLETED  == "COMPLETED"
FAILED     == "FAILED"

Terminal        == {COMPLETED, FAILED}
ScreeningStatus == {REQUESTED, GENERATING} \cup Terminal

StaleAge == Timeout + Grace + 1

VARIABLES
  \* the database
  status,   \* "screening"."status", ABSENT when there is no row
  events,   \* the statuses in the screening's rows of "screening_status_evt"
  linked,   \* whether its rows in "screening_file" and "question" exist
  answers,  \* how many rows "answer" holds for its questions
  deleted,  \* history: the screenings a delete request has removed
  requesting, \* the screenings whose insert has not been committed yet
  age,      \* ticks since the last "updated" stamp of a claimed screening
  \* the goroutine of each server
  pc, avail, batch,
  mem,      \* aScreening.Status of the screening it processes
  done,     \* how many questions of that screening it has answered
  elapsed,  \* ticks since its processCtx was created
  stale,    \* the screenings its sweep has listed
  faults

rowVars    == <<status, events>>
dbVars     == <<rowVars, linked, answers, deleted, requesting>>
serverVars == <<pc, avail, batch, mem, done, elapsed, stale>>
vars       == <<dbVars, age, serverVars, faults>>

TypeOK ==
  /\ status \in [Screenings -> ScreeningStatus \cup {ABSENT}]
  /\ events \in [Screenings -> SUBSET ScreeningStatus]
  /\ linked \in [Screenings -> BOOLEAN]
  /\ answers \in [Screenings -> Nat]
  /\ deleted \in SUBSET Screenings
  /\ requesting \in SUBSET Screenings
  /\ age \in [Screenings -> 0..StaleAge]
  /\ pc \in [Servers -> {"idle", "counted", "claimed", "ready", "answering",
                         "completing", "failing", "listed"}]
  /\ avail \in [Servers -> 0..MaxConcurrent]
  /\ batch \in [Servers -> SUBSET Screenings]
  /\ mem \in [Servers -> ScreeningStatus]
  /\ done \in [Servers -> Nat]
  /\ elapsed \in [Servers -> 0..Timeout]
  /\ stale \in [Servers -> SUBSET Screenings]
  /\ faults \in 0..MaxFaults

Init ==
  /\ status = [c \in Screenings |-> ABSENT]
  /\ events = [c \in Screenings |-> {}]
  /\ linked = [c \in Screenings |-> FALSE]
  /\ answers = [c \in Screenings |-> 0]
  /\ deleted = {}
  /\ requesting = {}
  /\ age = [c \in Screenings |-> 0]
  /\ pc = [s \in Servers |-> "idle"]
  /\ avail = [s \in Servers |-> 0]
  /\ batch = [s \in Servers |-> {}]
  /\ mem = [s \in Servers |-> GENERATING]
  /\ done = [s \in Servers |-> 0]
  /\ elapsed = [s \in Servers |-> 0]
  /\ stale = [s \in Servers |-> {}]
  /\ faults = 0

-------------------------------------------------------------------------------
(* Selecting and saving rows, as in the file pipeline: inner join with the   *)
(* status events, order by "created", "for update skip locked" over every     *)
(* table of the join, upsert, primary key of the events.                     *)
WithStatus(st) == {c \in Screenings : status[c] = st /\ st \in events[c]}

Oldest(S, n) == {c \in S : Cardinality({d \in S : d < c}) < n}
Newest(S, n) == {c \in S : Cardinality({d \in S : d > c}) < n}

ListGenerating == Newest(WithStatus(GENERATING), ListLimit)

ClaimOpen == \E s \in Servers : pc[s] = "claimed"

Lockable == IF ClaimOpen \/ requesting # {} THEN {} ELSE WithStatus(REQUESTED)

WorkersAvailableOffByOne(generating) ==
  IF generating > MaxConcurrent THEN 0 ELSE MaxConcurrent + 1 - generating

WorkersAvailableUnsubtracted(generating) ==
  IF generating >= MaxConcurrent THEN 0 ELSE MaxConcurrent

WorkersAvailable(generating) ==
  IF generating >= MaxConcurrent THEN 0 ELSE MaxConcurrent - generating

StaleScreeningsNone == {}

StaleScreenings ==
  Newest({c \in WithStatus(GENERATING) : age[c] > Timeout + Grace}, ListLimit)

Saveable(S, st) == \A c \in S : st \notin events[c]

SaveScreeningsRowOnly(S, st) ==
  /\ status' = [c \in Screenings |-> IF c \in S THEN st ELSE status[c]]
  /\ UNCHANGED events

(* An upsert: a row that was deleted meanwhile is inserted again, alone. *)
SaveScreenings(S, st) ==
  /\ status' = [c \in Screenings |-> IF c \in S THEN st ELSE status[c]]
  /\ events' = [c \in Screenings |-> IF c \in S THEN events[c] \cup {st} ELSE events[c]]

CanComplete(st) == st = GENERATING

Fault == faults < MaxFaults /\ faults' = faults + 1

-------------------------------------------------------------------------------
(* The requests. *)

(* One transaction saves the screening, its files and its questions; from    *)
(* its first insert it holds off a claim, and a claim holds it off, by the   *)
(* row of screening_status both of them lock.                                *)
BeginRequest(c) ==
  /\ status[c] = ABSENT /\ c \notin deleted \cup requesting
  /\ ~ClaimOpen
  /\ requesting' = requesting \cup {c}
  /\ UNCHANGED <<rowVars, linked, answers, deleted, age, serverVars, faults>>

CommitRequest(c) ==
  /\ c \in requesting
  /\ SaveScreenings({c}, REQUESTED)
  /\ linked' = [linked EXCEPT ![c] = TRUE]
  /\ requesting' = requesting \ {c}
  /\ UNCHANGED <<answers, deleted, age, serverVars, faults>>

(* A question of an unknown type, a file that has gone, a lost connection. *)
AbortRequest(c) ==
  /\ c \in requesting
  /\ Fault
  /\ requesting' = requesting \ {c}
  /\ UNCHANGED <<rowVars, linked, answers, deleted, age, serverVars>>

DeletableAny(c) == status[c] # ABSENT

(* A screening that waits or is being processed is not deleted. *)
Deletable(c) == status[c] \in Terminal

(* Its files, answers, questions, events and row go in one transaction. *)
DeleteScreening(c) ==
  /\ Deletable(c)
  /\ status' = [status EXCEPT ![c] = ABSENT]
  /\ events' = [events EXCEPT ![c] = {}]
  /\ linked' = [linked EXCEPT ![c] = FALSE]
  /\ answers' = [answers EXCEPT ![c] = 0]
  /\ deleted' = deleted \cup {c}
  /\ UNCHANGED <<requesting, age, serverVars, faults>>

-------------------------------------------------------------------------------
(* One round of processScreenings on server s. *)

Current(s) == Min(batch[s])

BackToIdle(s) ==
  /\ pc' = [pc EXCEPT ![s] = "idle"]
  /\ avail' = [avail EXCEPT ![s] = 0]
  /\ batch' = [batch EXCEPT ![s] = {}]
  /\ mem' = [mem EXCEPT ![s] = GENERATING]
  /\ done' = [done EXCEPT ![s] = 0]
  /\ elapsed' = [elapsed EXCEPT ![s] = 0]
  /\ stale' = [stale EXCEPT ![s] = {}]

CountGenerating(s) ==
  /\ pc[s] = "idle"
  /\ avail' = [avail EXCEPT ![s] = WorkersAvailable(Cardinality(ListGenerating))]
  /\ pc' = [pc EXCEPT ![s] = "counted"]
  /\ UNCHANGED <<dbVars, age, batch, mem, done, elapsed, stale, faults>>

ListRequested(s) ==
  /\ pc[s] = "counted"
  /\ LET taken == Oldest(Lockable, avail[s]) IN
       /\ batch' = [batch EXCEPT ![s] = taken]
       /\ age' = [c \in Screenings |-> IF c \in taken THEN 0 ELSE age[c]]
       /\ pc' = [pc EXCEPT ![s] = IF taken = {} THEN "ready" ELSE "claimed"]
  /\ avail' = [avail EXCEPT ![s] = 0]
  /\ UNCHANGED <<dbVars, mem, done, elapsed, stale, faults>>

ClaimCommit(s) ==
  /\ pc[s] = "claimed"
  /\ Saveable(batch[s], GENERATING)
  /\ SaveScreenings(batch[s], GENERATING)
  /\ pc' = [pc EXCEPT ![s] = "ready"]
  /\ UNCHANGED <<linked, answers, deleted, requesting, age, avail, batch, mem, done, elapsed,
                 stale, faults>>

ClaimRollbackIgnored(s) ==
  /\ pc[s] = "claimed"
  /\ Fault
  /\ pc' = [pc EXCEPT ![s] = "ready"]
  /\ UNCHANGED <<dbVars, age, avail, batch, mem, done, elapsed, stale>>

ClaimRollback(s) ==
  /\ pc[s] \in {"counted", "claimed"}
  /\ Fault
  /\ BackToIdle(s)
  /\ UNCHANGED <<dbVars, age>>

StartScreening(s) ==
  /\ pc[s] = "ready" /\ batch[s] # {}
  /\ pc' = [pc EXCEPT ![s] = "answering"]
  /\ mem' = [mem EXCEPT ![s] = GENERATING]
  /\ done' = [done EXCEPT ![s] = 0]
  /\ elapsed' = [elapsed EXCEPT ![s] = 0]
  /\ UNCHANGED <<dbVars, age, avail, batch, stale, faults>>

Expired(s) == elapsed[s] >= Timeout

(* One question is checked, embedded, searched, generated and its answer     *)
(* saved: the answer's foreign key wants the question's row.                 *)
AnswerQuestion(s) ==
  /\ pc[s] = "answering" /\ ~Expired(s)
  /\ done[s] < QuestionCount[Current(s)]
  /\ linked[Current(s)]
  /\ answers' = [answers EXCEPT ![Current(s)] = @ + 1]
  /\ done' = [done EXCEPT ![s] = @ + 1]
  /\ UNCHANGED <<rowVars, linked, deleted, requesting, age, pc, avail, batch, mem, elapsed, stale, faults>>

(* A question fails: a file is not processed or not of this server's         *)
(* adapters, a call errs, no document is found, the question has gone or the  *)
(* deadline passes.  The commit of an answer may have gone through unheard.   *)
AnswerError(s) ==
  /\ pc[s] = "answering"
  /\ \/ UNCHANGED answers
     \/ /\ done[s] < QuestionCount[Current(s)] /\ linked[Current(s)]
        /\ answers' = [answers EXCEPT ![Current(s)] = @ + 1]
  /\ pc' = [pc EXCEPT ![s] = "failing"]
  /\ UNCHANGED <<rowVars, linked, deleted, requesting, age, avail, batch, mem, done, elapsed, stale, faults>>

AllButOneAnswered(s) == done[s] + 1 >= QuestionCount[Current(s)]

AllAnswered(s) == done[s] = QuestionCount[Current(s)]

BeginSuccess(s) ==
  /\ pc[s] = "answering" /\ ~Expired(s)
  /\ AllAnswered(s)
  /\ CanComplete(mem[s])
  /\ mem' = [mem EXCEPT ![s] = COMPLETED]
  /\ pc' = [pc EXCEPT ![s] = "completing"]
  /\ UNCHANGED <<dbVars, age, avail, batch, done, elapsed, stale, faults>>

NextScreening(s) ==
  /\ pc' = [pc EXCEPT ![s] = "ready"]
  /\ batch' = [batch EXCEPT ![s] = @ \ {Current(s)}]
  /\ mem' = [mem EXCEPT ![s] = GENERATING]
  /\ done' = [done EXCEPT ![s] = 0]
  /\ elapsed' = [elapsed EXCEPT ![s] = 0]
  /\ UNCHANGED <<avail, stale>>

SaveCompleted(S, st) ==
  /\ Saveable(S, st)
  /\ SaveScreenings(S, st)
  /\ age' = [c \in Screenings |-> IF c \in S THEN 0 ELSE age[c]]
  /\ UNCHANGED <<linked, answers, deleted, requesting>>

CommitSuccess(s) ==
  /\ pc[s] = "completing" /\ ~Expired(s)
  /\ SaveCompleted({Current(s)}, COMPLETED)
  /\ NextScreening(s)
  /\ UNCHANGED faults

SuccessRollback(s) ==
  /\ pc[s] = "completing"
  /\ \/ Fault
     \/ Expired(s) /\ UNCHANGED faults
  /\ pc' = [pc EXCEPT ![s] = "failing"]
  /\ UNCHANGED <<dbVars, age, avail, batch, mem, done, elapsed, stale>>

RecordFailure(s) ==
  /\ pc[s] = "failing" /\ CanComplete(mem[s])
  /\ SaveCompleted({Current(s)}, FAILED)
  /\ NextScreening(s)
  /\ UNCHANGED faults

FailureNotRecorded(s) ==
  /\ pc[s] = "failing"
  /\ \/ Fault
     \/ /\ ~CanComplete(mem[s]) \/ ~Saveable({Current(s)}, FAILED)
        /\ UNCHANGED faults
  /\ NextScreening(s)
  /\ UNCHANGED <<dbVars, age>>

ListStale(s) ==
  /\ pc[s] = "ready" /\ batch[s] = {}
  /\ stale' = [stale EXCEPT ![s] = StaleScreenings]
  /\ pc' = [pc EXCEPT ![s] = IF StaleScreenings = {} THEN "idle" ELSE "listed"]
  /\ UNCHANGED <<dbVars, age, avail, batch, mem, done, elapsed, faults>>

(* CompleteWithStatus is asked about the copies that were listed, all of them  *)
(* GENERATING, and never refuses.                                           *)
FailStale(s) ==
  /\ pc[s] = "listed"
  /\ SaveCompleted(stale[s], FAILED)
  /\ BackToIdle(s)
  /\ UNCHANGED faults

SweepRollback(s) ==
  /\ \/ pc[s] = "ready" /\ batch[s] = {} /\ Fault
     \/ /\ pc[s] = "listed"
        /\ \/ Fault
           \/ ~Saveable(stale[s], FAILED) /\ UNCHANGED faults
  /\ BackToIdle(s)
  /\ UNCHANGED <<dbVars, age>>

Crash(s) ==
  /\ pc[s] # "idle"
  /\ Fault
  /\ BackToIdle(s)
  /\ UNCHANGED <<dbVars, age>>

Stamped == {c \in Screenings : status[c] = GENERATING}
             \cup UNION {batch[s] : s \in {t \in Servers : pc[t] = "claimed"}}

Tick ==
  /\ age' = [c \in Screenings |->
               IF c \in Stamped /\ age[c] < StaleAge THEN age[c] + 1 ELSE age[c]]
  /\ elapsed' = [s \in Servers |->
                   IF pc[s] \in {"answering", "completing"} /\ elapsed[s] < Timeout
                     THEN elapsed[s] + 1 ELSE elapsed[s]]
  /\ UNCHANGED <<dbVars, pc, avail, batch, mem, done, stale, faults>>

ServerStep(s) ==
  \/ CountGenerating(s) \/ ListRequested(s) \/ ClaimCommit(s) \/ ClaimRollback(s)
  \/ StartScreening(s) \/ AnswerQuestion(s) \/ AnswerError(s)
  \/ BeginSuccess(s) \/ CommitSuccess(s) \/ SuccessRollback(s)
  \/ RecordFailure(s) \/ FailureNotRecorded(s)
  \/ ListStale(s) \/ FailStale(s) \/ SweepRollback(s)

Next ==
  \/ \E c \in Screenings : 
       BeginRequest(c) \/ CommitRequest(c) \/ AbortRequest(c) \/ DeleteScreening(c)
  \/ \E s \in Servers : ServerStep(s) \/ Crash(s)
  \/ Tick

Spec == Init /\ [][Next]_vars

(* As in the file pipeline: the tickers fire, calls return, time passes and    *)
(* an open transaction ends; clients and faults owe nothing.                 *)
RequestEnds(c) == CommitRequest(c) \/ AbortRequest(c)

Fairness ==
  /\ WF_vars(Tick)
  /\ \A s \in Servers : WF_vars(ServerStep(s))
  /\ \A c \in Screenings : WF_vars(RequestEnds(c))

FairSpec == Spec /\ Fairness

-------------------------------------------------------------------------------
(* A screening shown as COMPLETED has exactly one answer for each of its     *)
(* questions, although every answer is committed on its own, a failed round   *)
(* leaves answers behind and nothing in the schema forbids a second answer.   *)
CompletedIsAnswered ==
  \A c \in Screenings :
    status[c] = COMPLETED /\ linked[c] => answers[c] = QuestionCount[c]

(* The rows of a screening agree: work that is waiting or under way has its  *)
(* files and questions, a deleted screening leaves no answer behind, and     *)
(* every row has the event the inner joins need.                             *)
RowsAgree ==
  \A c \in Screenings :
    /\ status[c] \in {REQUESTED, GENERATING} => linked[c]
    /\ ~linked[c] => answers[c] = 0
    /\ status[c] # ABSENT => status[c] \in events[c]

(* No screening is in the hands of two servers, deleted and saved again or not. *)
ClaimsExclusive ==
  /\ \A s, t \in Servers : s # t => batch[s] \cap batch[t] = {}
  /\ \A s \in Servers : \A c \in batch[s] :
       (pc[s] = "claimed") <=> (status[c] = REQUESTED)

InProgress == {c \in Screenings : status[c] = GENERATING}

(* What a server may still claim, or has claimed and not committed. *)
Reserved ==
  [s \in Servers |-> avail[s] + (IF pc[s] = "claimed" THEN Cardinality(batch[s]) ELSE 0)]

(* maxConcurrentScreenings is exceeded by servers that count before either     *)
(* claims, and by no more than that: what is generated, and what every server *)
(* may still claim or is about to commit, stays within one maximum per server. *)
ClaimsBounded ==
  Cardinality(InProgress)
    + MapThenSumSet(LAMBDA s : Reserved[s], Servers)
    <= Cardinality(Servers) * MaxConcurrent

(* What a late worker brings back of a deleted screening is never work again. *)
DeletedNeverRuns ==
  \A c \in deleted : status[c] \in {ABSENT} \cup Terminal

OnlyForward ==
  \A c \in Screenings :
    status'[c] # status[c] =>
      \/ status[c] = ABSENT /\ c \notin deleted /\ status'[c] = REQUESTED
      \/ status[c] = REQUESTED /\ status'[c] = GENERATING
      \/ status[c] \in {GENERATING} \cup Terminal /\ status'[c] \in Terminal
      \/ status[c] \in Terminal /\ status'[c] = ABSENT /\ c \in deleted'
      \/ status[c] = ABSENT /\ c \in deleted /\ status'[c] \in Terminal

(* The status of a screening moves forward: from waiting to under way to an    *)
(* outcome, which a late worker or a sweep may exchange for the other one.    *)
(* Only an outcome is ever deleted, and all that a deleted screening can come  *)
(* back with is an outcome.                                                 *)
StatusMoves == [][OnlyForward]_vars

(* Every requested screening reaches an outcome once the faults end. *)
RequestedSettles ==
  \A c \in Screenings :
    status[c] = REQUESTED ~> status[c] \notin {REQUESTED, GENERATING}

(* The API answers a delete with "Screening deleted successfully": the       *)
(* screening is gone.                                                       *)
DeletedStaysDeleted == \A c \in deleted : status[c] = ABSENT

(* What a client that polls a screening can tell of it. *)
JobPhase(c) ==
  CASE status[c] = REQUESTED  -> "pending"
    [] status[c] = GENERATING -> "running"
    [] status[c] \in Terminal -> "settled"
    [] OTHER                  -> IF c \in deleted THEN "withdrawn" ELSE "absent"

Queue == INSTANCE JobQueue WITH
  Jobs     <- Screenings,
  Outcomes <- Terminal,
  Withdrawable <- Screenings,
  phase    <- [c \in Screenings |-> JobPhase(c)],
  outcome  <- [c \in Screenings |-> IF status[c] \in Terminal THEN status[c] ELSE "none"],
  recorded <- [c \in Screenings |-> events[c] \cap Terminal]

(* The pipeline implements the queue: a screening is claimed once, gets an     *)
(* outcome, no outcome is recorded twice for it unless it was deleted, and it  *)
(* is deleted with an outcome only and never runs after that.                *)
ImplementsQueue == Queue!Spec

(* The strengthening under which the invariants above are inductive. *)
Busy(s) == pc[s] \in {"answering", "completing", "failing"}

HandsMatchPC ==
  \A s \in Servers :
    /\ pc[s] \in {"idle", "counted", "listed"} => batch[s] = {}
    /\ Busy(s) => batch[s] # {}
    /\ pc[s] # "listed" => stale[s] = {}

(* Whose row a transaction is about to write: an open insert has none yet, a  *)
(* screening that is swept or in hand has been claimed, has not been completed *)
(* by anybody else, and has lost its row only to a delete.                   *)
WritesApply ==
  /\ \A c \in requesting : status[c] = ABSENT /\ c \notin deleted
  /\ \A s \in Servers : \A c \in stale[s] :
       /\ status[c] # REQUESTED
       /\ status[c] = ABSENT => c \in deleted
  /\ \A s \in Servers : \A c \in batch[s] :
       /\ status[c] # COMPLETED
       /\ status[c] = ABSENT => c \in deleted

(* Only the worker a screening is with has saved answers to it, and it knows  *)
(* how many, unless the screening has been deleted.                         *)
AnswersAccounted ==
  /\ \A c \in Screenings :
       /\ linked[c] => status[c] # ABSENT
       /\ status[c] = REQUESTED => answers[c] = 0
  /\ \A s \in Servers : \A c \in batch[s] :
       linked[c] /\ ~(Busy(s) /\ c = Current(s)) => answers[c] = 0
  /\ \A s \in Servers :
       /\ pc[s] \in {"answering", "completing"} /\ linked[Current(s)] =>
            answers[Current(s)] = done[s]
       /\ pc[s] = "completing" => done[s] = QuestionCount[Current(s)]

(* Workers are counted for one claim only, and it takes no more than counted. *)
ReservationsEnd ==
  \A s \in Servers :
    /\ pc[s] # "counted" => avail[s] = 0
    /\ pc[s] = "claimed" => Cardinality(batch[s]) <= MaxConcurrent

InductiveInvariant ==
  /\ TypeOK
  /\ RowsAgree
  /\ ClaimsExclusive
  /\ DeletedNeverRuns
  /\ HandsMatchPC
  /\ WritesApply
  /\ AnswersAccounted
  /\ CompletedIsAnswered
  /\ ReservationsEnd
  /\ ClaimsBounded
===============================================================================

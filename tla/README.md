# Formal models of ragserver

ragserver is a Go library: a server for retrieval-augmented generation that keeps uploaded files in a
knowledge base and answers *screenings* (a list of questions about some of the files) with evidence from
them. This directory holds TLA+ models of the parts of it that keep state, TLC configurations that check
the models on small instances, and TLAPS proofs for instances of any size.

Line numbers refer to `src/` at the modelled commit. `PROJECT.json` lists, per definition, the lines it
stands for, and per property a mutation of the model that breaks it.

```
tlc -workers 4 -config FileProcessing.cfg MCFileProcessing      # every other .cfg with its MC module
tlapm FileProcessing_proofs.tla                                 # and every other *_proofs.tla, CountingTheorems.tla
```

## 1. The system

### Parts

| part | code | state it keeps | operations |
|---|---|---|---|
| file pipeline | `file_processing.go`, `file.go` | `file.status`, `file_status_evt`, documents in the retriever; per server the claimed batch and the copies in memory | `ProcessFiles` loop: count, claim, process, complete, fail, sweep |
| screening pipeline | `screening_processings.go` | `screening.status`, `screening_status_evt`, `answer`; per server as above | `ProcessScreenings` loop: count, claim, answer each question, complete, fail, sweep |
| screening requests | `screening.go`, `adapter/rest/screening.go` | `screening`, `screening_file`, `question` | `CreateScreening`, `FindScreening`, `ListScreenings`, `DeleteScreening` |
| answering | `screening_processings.go`, `document.go`, retrievers, models | local to one call, then `answer` | check the files, embed, search, generate, match, save |
| uploads and deletes | `file.go`, `adapter/filestorage` | blobs named by hash, temporary files, the file's row | `CreateFile`, `DeleteFile` |
| store adapter | `adapter/store` | Postgres tables | begin, commit, rollback; listings with joins, limits and row locks; upserts |
| redis, weaviate retrievers | `adapter/redis`, `adapter/weaviate` | vector index | save, search, list, delete documents |
| extractors, models | `adapter/pdf`, `adapter/document`, `adapter/google-genai`, `adapter/hugot` | none | extract, embed, generate |
| main programs | `examples/redis`, `examples/weaviate`, `migrate.go`, the `init` of the adapters | schema version, directories of models, indexes; the hugot session | start, serve, stop |
| REST, sorting, authz | `adapter/rest`, `api`, `sorting.go`, `pkg/authz`, `ragserver.go` | none | decode, validate, filter |

### How they interact

* A client uploads a file (`CreateFile`): the content goes to a temporary file, is hashed, is copied to a
  blob named by the hash unless one exists, and a row `UPLOADED` is saved in a transaction.
* Every server runs one goroutine per pipeline. On each tick it begins a transaction, counts the rows that
  are being processed, locks at most `maxConcurrentFiles` minus that many waiting rows with
  `for update skip locked`, saves them as `PROCESSING`, and commits. It then processes the batch one after
  the other, each under a deadline of 15 (screenings: 30) minutes, and after the batch *sweeps*: it lists
  the rows that have been in processing for longer than the timeout plus a minute, whichever server claimed
  them, and saves them as failed.
* The servers share nothing but Postgres, the retriever and (where configured so) the directory of blobs.
* A client polls the status and stops at the first outcome (`scripts/upload-file.sh`). What it is shown of a
  screening is put together from several statements.
* A screening is answered by the server that claimed it, through that server's own embedder, retriever and
  model. Files are found only by servers with the embedder and retriever they were uploaded through
  (`filePpartial`); screenings are found by all (`screeningPartial`).
* Servers that start together run one migration, download into one directory of models and create one index.
  A stopping server cancels the context of its workers, lets requests end, waits for the workers and then
  destroys the session they use.

### What is hard

* **Interleavings.** Several servers count, claim, process and sweep the same rows; READ COMMITTED
  transactions hold no lock between a listing and the save that depends on it, except in the claim.
* **Stale state.** `CompleteWithStatus` checks the copy in memory; the save is an unconditional upsert. The
  only thing the database refuses is a second event of one status, by the primary key of the events.
* **Timeouts.** The sweep's age starts at the claim, the deadline of an item when its turn in the batch
  comes: a worker can outlive the sweep of its own item.
* **Crashes and failed calls.** A claim outlives its server; an outcome may fail to be saved; documents are
  saved one by one without a transaction; a blob may be half-written under its final name.
* **Deletes.** A screening can be deleted while some worker or sweep still has it in memory, or between two
  statements of a read.
* **Mixed servers.** Nothing keeps a server from claiming a screening whose files it cannot see.
* **Starts side by side.** Each "create it if it is missing" is two calls, and what is left of one that was
  cut short looks like one that was finished.

### What makes each part correct

* Pipelines: nothing is processed by two servers, every row is visible to the joins, statuses only move
  forward, a success means that all documents (answers) are there once, every submitted job settles, the
  concurrency maximum is exceeded at most in a known way, and an outcome is final (which fails, section 5).
* Screening deletes: the rows of a screening agree with each other, and a deleted screening never becomes
  work again (that it stays deleted fails, section 5).
* Uploads: every row has a blob, a blob ends up whole however many requests write it (that an accepted
  upload's blob already is whole fails), and deletes succeed (which fails).
* Reads: a screening shown as completed is shown with all of its answers. When it is deleted between two
  statements of the read, what is shown is a beginning of it, with all of its answers or with none.
* Answering: evidence comes from the files of the screening, found by the embedder that made their vectors;
  the documents cited are in search order, each for a line of its own, and none is lost; a screening fails
  for a reason.
* Starts and stops: a server serves only when everything it needs is there, a lost race costs one start, a
  stop ends, and no worker is left with a destroyed session.

`PROJECT.json` lists the hazards one by one with their lines and the properties that cover them.

## 2. Modules and plan

| module | models | theorems in |
|---|---|---|
| `JobQueue` | abstract: what a client that submits a job and polls may rely on | `FileProcessing_proofs`, `ScreeningProcessing_proofs` (both implement its safety part) |
| `FileProcessing` | file pipeline on all servers | `FileProcessing_proofs` |
| `ScreeningProcessing` | screening pipeline, and the create and delete requests | `ScreeningProcessing_proofs` |
| `ScreeningReads` | a client's reads, on top of `ScreeningProcessing` | `ScreeningReads_proofs` |
| `FileUploads` | `CreateFile` and `DeleteFile` over the blobs | `FileUploads_proofs` |
| `SnippetMatching` | `MatchSnippetsToDocuments` | `SnippetMatching_proofs` |
| `Answering` | one screening from request to outcome on servers with different adapters, on top of `SnippetMatching` | `Answering_proofs` |
| `ServerLifecycle` | start and stop of several servers | `ServerLifecycle_proofs` |
| `CountingTheorems` | nothing of the program: minima, sums over finite sets, induction and recursion over data, as the proofs share them | itself |

Each pipeline module composes its server goroutines, the clients' transactions, the database and the clock;
both instantiate `JobQueue` as their refinement target, `FileProcessing` with no job that can be withdrawn and
`ScreeningProcessing` with all of them. `ScreeningReads` extends `ScreeningProcessing` and adds the reader's
variables; every step of one is a stutter of the other, which is proved (`ReadsImplementPipeline`).
`Answering` extends `SnippetMatching`, takes its steps in the stage `matching`, and implements it
(`MatchingImplemented`); of the pipeline around it,
it uses that one worker holds a screening (`ScreeningProcessing!ClaimsExclusive`, proved) and that a file's
outcome may be overwritten. `FileUploads` sees of the file pipeline only that a row settles; `FileProcessing` sees of an upload only the open insert and its commit.
`ServerLifecycle` sees of the pipelines only that a worker is in a batch or not; that a stop may cut a batch
short is the `Crash` and the error actions of the pipelines.

What is left, in this order:

* a `DeleteFile` whose listing is corrected: the blob race and the retriever's partial delete, which the present
  error hides (section 5);
* a file pipeline with adapters per server, to show which files wait for a server that never comes back.

## 3. How the models correspond to the code

### FileProcessing

| variable | code |
|---|---|
| `status`, `events` | `"file"."status"`, the rows of `"file_status_evt"` per file |
| `docs` | how many documents of the file the retriever holds |
| `age` | time since `file.updated` of a claimed file, in ticks, cut off where no comparison tells ages apart |
| `inserting` | `CreateFile` transactions between insert and commit |
| `pc`, `avail`, `batch`, `mem`, `saved`, `elapsed`, `stale` | locals of one server's goroutine: program point, `workersAvailable`, the files left of the claim, `aFile.Status` in memory, documents saved so far, time of `processCtx`, files listed by the sweep |
| `faults` | counter that bounds crashes and failed calls |

| action | code (`file_processing.go`) |
|---|---|
| `BeginInsert`, `CommitInsert`, `AbortInsert` | the transaction of `CreateFile` (`file.go`) |
| `CountProcessing` | `checkFileConcurrency` in the claim's transaction |
| `ListUploaded` | the locking listing and the stamp in memory; nothing to take skips to the sweep |
| `ClaimCommit`, `ClaimRollback` | saving the batch and committing; an error leaves `processFiles` before loop and sweep |
| `StartFile` | `context.WithTimeout` at the file's turn |
| `SaveDocument` | one `HSET` of the redis retriever's `SaveDocuments` |
| `ProcessingError` | any error of read, extract, embed or save; a document may have been saved unheard |
| `BeginSuccess`, `CommitSuccess`, `SuccessRollback` | `processingFileSucceeded`: the copy in memory changes before the save |
| `RecordFailure`, `FailureNotRecorded` | `processingFileFailed`, whose error is only logged |
| `ListStale`, `FailStale`, `SweepRollback` | the sweep after the batch |
| `Crash` | the process dies; Postgres rolls its transaction back, memory is lost |
| `Tick` | wall-clock time |

The guards that decide about rows stand in operators: `WithStatus` (the inner join on the event of the
status the row is in), `Lockable` (`for update skip locked` over the whole join: the row of the status table is locked
as well, so an open claim or an open insert leaves nothing to take), `Oldest`/`Newest` (order and limit),
`Saveable` (the primary key of the events) and `SaveFiles` (the upsert of row and event).

### ScreeningProcessing

The same loop with `answers` in place of `docs`, and with requests that create (`BeginRequest`,
`CommitRequest`, `AbortRequest`) and delete (`DeleteScreening`) screenings. `linked` tells whether the
screening's `question` and `screening_file` rows exist: an upsert after a delete brings back the row of the
screening and its event but not these, and the foreign key of `answer` refuses answers then.
`deleted` is a history variable. Each answer is committed in a transaction of its own (`AnswerQuestion`);
`AnswerError` covers every error of a question; which ones there are is the subject of `Answering`.

### ScreeningReads

`statement` is the statement the read has come to, `shown` what it has put together so far, `reading` the
screening it is about. `SelectRow` (from `FindScreening` or from a listing) reads the row with its status,
`SelectFiles`, `SelectQuestions`, `SelectAnswers` the rest, `Respond` is the mapping and the answer to the
client, `ReadFails` any error in between. All steps of the pipeline and of other clients may come between two
statements: the transactions are READ COMMITTED. Of a listing one screening is followed; the statements about
the others only take time.

### Answering and SnippetMatching

| variable | code |
|---|---|
| `fileStatus`, `content` | status of each file; the lines its documents contain |
| `stage`, `question`, `server`, `loaded` | where `answwerQuestion` has come to, for which question, on which server, and `aScreening.FileIDs()` there |
| `asked` | the rows of `"screening_file"` |
| `found`, `reply`, `evidence` | the result of `SearchDocuments`, the form of a model's reply that could not be read, the documents named by saved answers |
| `possible`, `documents`, `snippets`, `matched`, `next`, `pc` | parameters and locals of `MatchSnippetsToDocuments` |

`ServerHas` gives each server an embedder, a retriever and a generative model by the names the main programs
know. `Visible` is the partial on files, `RedisQuery` and `WeaviateWhere` are the two ways a filter by files
is built (both are no filter at all when the list is empty), `Nearest` any order of distances, `Understood`
the replies that unmarshal: only hugot's adapter takes off a code fence. Servers of one retriever search
one index, whatever their embedders: a configuration with an index per embedder has fewer candidates.
Every call may fail once per fault.

`Sanitize` splits snippets into lines and drops blank ones (`FlattenSeq` and `NonBlank`, the two loops of the
code one after the other), `MatchDocument` is one round of the loop over
the documents, `Return` is the early or regular return. A document is the set of lines it contains,
comparison being up to case and white space as in `Sanitize`.

### ServerLifecycle

`schema`, `model` and `indexes` are what servers share; `stage` is where `main` is and `step` the model it has
come to, `session`, `cancelled`, `worker` and `request` are the process. `Start` is the beginning of `main`;
`MigrationsUp`, `MigrationsDone`, `NoChange` and `MigrateFails` are `Migrate` with the library's lock and
dirty version; `CheckModelExists`, `DownloadModel`, `Downloaded`, `NewPipeline` and `NewPipelineFails` are
`init` of the hugot adapter per model; `OpenSession` is what `initHugot` does before it; `ListIndexes`, `CreateIndex` and `CreateIndexFails` are `init` of the
retriever. `Fatal` is `log.Fatal`, which runs no deferred call. `TickFires`, `TickEnds` and `WorkerReturns` are
the goroutines, `Signal`, `Shutdown` and `ShutdownTimesOut` the end of `main`, and
`StopProcessingScreenings`, `StopProcessingFiles` and `DestroySession` its deferred calls in their order.
`Crash` is a failed call of the start, or a kill. A directory that two servers write at once is `partial`
until the last of them is through.

### FileUploads

One `step` per upload request, following `CreateFile`: `OpenTemp`, `CheckAndHash`, `CheckExists`,
`CreateBlob` (`os.Create` truncates), `WritePiece` (`io.Copy`), `WriteEnds`, `SaveRow`. `CallFails` and
`Crash` are the errors; what they leave on disk stays. A blob is the set of pieces written at their offsets,
so requests that write one blob at once overwrite each other with equal bytes, and what matters is who
truncates when. `DeleteFile` is one step: its listing by hash fails, which aborts its transaction, and the
statements behind it are never effective. What a working listing would lead to is written down in the same
step so that the consequence of naming the right column can be shown (the mutation of `RowsHaveBlob`).
`broken` is a history variable: contents one of whose writes was cut short.

### JobQueue

Jobs are submitted, claimed in batches and get outcomes; no outcome is recorded twice for a job, and every
pending job settles. It deliberately allows one change of outcome, because the pipelines do (section 5). A job of
`Withdrawable` that has settled can be withdrawn: nothing is left of it, unless an outcome is recorded for it
afterwards, which makes it settled and never pending or running. That is the most that can be promised of a
deleted screening.

| of the queue | files | screenings |
|---|---|---|
| `phase` | `status` | `status`; without a row `withdrawn` or `absent`, as `deleted` tells |
| `outcome`, `recorded` | the terminal status, the terminal events | the same |
| `Submit` | `CommitInsert` | `CommitRequest` |
| `Claim` | `ClaimCommit` | `ClaimCommit` |
| `Record` | `CommitSuccess`, `RecordFailure`, `FailStale` | the same |
| `Withdraw` | none | `DeleteScreening` |

## 4. Runs

| run | instance | distinct states | shows |
|---|---|---|---|
| `files_safety` | 2 servers (symmetric), 3 files with 1, 0 and 1 documents, claims of up to 2, 2 faults | 596,482 | the invariants of the file pipeline, and the strengthening the proofs use |
| `files_settle` | 2 servers, 2 files with 2 and 0 documents, claims of up to 2, 1 fault, fairness | 37,833 | `UploadedSettles`: an upload reaches an outcome although a server crashes or a write is lost; `StatusMoves`; the pipeline implements `JobQueue`, its liveness included |
| `files_cap` | 2 servers, 2 files, maximum 1, no fault | violation | the maximum is not enforced across servers |
| `files_outcome` | 2 servers, 2 files, claims of 2, no fault, prompt starts | violation | an outcome is overwritten |
| `screenings_safety` | 2 servers, 2 screenings of 1 and 2 questions, claims of up to 2, 1 fault, fairness | 76,672 | the invariants of the screening pipeline with deletes and the strengthening the proofs use, `StatusMoves`, `RequestedSettles`; the pipeline implements `JobQueue`, its liveness included |
| `screenings_deleted` | the same without faults | violation | a deleted screening comes back |
| `screenings_reads` | the instance of `screenings_safety` and one reader, no fairness | 2,120,776 | what a client is shown as completed is complete, or cut off by a delete before its answers |
| `uploads_safety` | 3 uploads of one content, 1 of a refused type, 2 pieces, 1 fault | 88,318 | every row has its blob; concurrent writes leave it whole |
| `uploads_stored` | the same | violation | an upload is accepted over a partial blob |
| `uploads_delete` | the same | violation | no processed file can be deleted |
| `answers` | 3 servers with 3 pairs of embedder and retriever, 5 files of which one has no documents, 5 documents, 2 questions, replies of up to 2 snippets, searches of up to 3 documents, 1 fault | 2,468,234 | the evidence is of the screening's files and of one embedder, in order, exclusive and complete; a screening fails for a reason |
| `lifecycle` | 2 servers with 2 models each and one index, 2 faults, fairness | 10,805 | starts side by side and stops |

### Why the bounds are enough

* Two servers give every pair of worker, sweeper and claimer on different servers. That a second sweep by a
  third server adds nothing is what the proofs show, which bound no number of servers.
* Two files in a claim are the smallest batch in which one waits while another is processed; the third file
  of `files_safety` makes `Oldest`/`Newest` and the free places of `WorkersAvailable` matter.
* Documents per file: none, one and two tell "all saved" from "some saved". Pieces likewise.
* One tick of `Timeout` and none of `Grace` suffice: the code compares ages with the two thresholds only, and the model lets any number of steps happen within a tick and any number of ticks between steps.
  The sweep's threshold is still one tick above the deadline (`StaleAge`).
* `MaxFaults` bounds crashes and failed calls per behaviour. Without a bound nothing settles, and rightly so.
* `answers`: two questions are the fewest at which a file's outcome can change between two checks of one
  screening; two files of one server, one of each other one, and one without documents give every mix of
  visible and invisible, found and empty. The documents of one file contain any lines; those of the others all
  of them, as they only have to be found. The limit of a search (25 in the code) never cuts with three
  documents, so no property depends on it.
* `lifecycle`: two servers race for everything that is shared, and two models let one be whole when the other
  is not. Two faults allow a crash in a download and another in the start after it.
* The proofs make no use of any of these bounds.

Deadlock is checked in all pipeline runs (a goroutine can always tick) and in `lifecycle` (a server can always be
started). `FileUploads` and `Answering` end when their finitely many requests, or the screening, have ended;
deadlock is not checked there.

### Fairness

`FairSpec` of both pipelines assumes weak fairness of

* each server's next step: the ticker fires again and again, and every call of the loop returns (the
  processing context has a deadline; database calls return or fail);
* the clock;
* the end of an open insert transaction: Postgres keeps none open without its client.

Clients owe nothing: nobody need upload, request or delete. Faults owe nothing. Errors of calls are part of a
server's step, so progress is not assumed to be success. Liveness rests on a server that comes back after a
crash or on another server; the sweep of any of them suffices.

`PromptSpec` has no fairness but restricts time: a claim commits and its first file starts in less than a
tick. The code does not guarantee this; `files_outcome` uses it to show that an outcome is overwritten even when
servers are prompt.

`FairSpec` of `ServerLifecycle` assumes weak fairness of each server's `main` (its calls return), of the end of a
batch (calls on a cancelled context fail one after the other, those that do not take the context return
eventually) and of a worker's return (`select` sees the closed `Done`, and the jitter does). There is
none on `Start`: nothing in the repository restarts a server. `RestartsSucceed` therefore has the restarts in
its antecedent: *if* it is started again and again, it serves, unless a fault has left something that no start
repairs. There is none on signals or the end of requests either: `SignalledStops` holds with a client
that never hangs up, by the deadline of `Shutdown`.

## 5. Where the code and its documentation disagree

1. **The concurrency maximum** (`files_cap`). `checkFileConcurrency` is documented to "enforce a maximum
   number of concurrent file processing jobs". Servers that count before either claims exceed it.
   `ClaimsBounded` is what holds: at most the number of servers times the maximum, provided one listing is
   not cut off below the maximum (`ListLimit >= MaxConcurrent`). The screening pipeline counts and claims in the
   same way, with the same bound. Both are proved for any number of servers (`ConcurrencyBounded`).
2. **Outcomes are overwritten** (`files_outcome`). A file that waited in a batch is listed by another
   server's sweep, its worker commits success, and the sweep saves failure over it. The client that polled
   has stopped at the success. The other direction exists as well; each outcome is written at most once
   (`StatusMoves`), so there is at most one change.
3. **A deleted screening comes back** (`screenings_deleted`): the sweep, or a worker that outlived a sweep,
   upserts it. `DeletedNeverRuns` and `RowsAgree` show what still holds: it comes back with an outcome and
   without questions or answers, and no server ever works on it.
4. **An upload is accepted over a partial blob** (`uploads_stored`). `Exists` finds the blob from the moment
   of its creation. `BlobsHeal` shows that without a fault the blob becomes whole when the writers are
   through; after a write that was cut short, it never does.
5. **Files cannot be deleted** (`uploads_delete`). The listing by hash names the column `"hash"`, the table
   has `"file_hash"`; the error is ignored and the transaction is aborted. The lines behind the listing
   (`file.go:238-251`) therefore never take effect. Correcting the name would expose three things: an upload that
   has found the blob saves its row after a delete has removed the blob (the mutation of `RowsHaveBlob` shows
   it); blob and documents are removed before the commit that may fail; and redis lists at most 100 of a file's
   documents to delete. They are not hazards of the present code, and are not listed as such.

Two observations that no run depends on. A client whose read is overtaken by a delete is answered with a completed
screening that lacks its files, its questions or its answers, not with "not found": `ShownWholeOrDeleted` says which
shapes there are. And the comment at `document.go:97-98` says the returned snippets "could
not be matched to any document". A remaining line may be in a document that was already cited for another
line; `NoEvidenceLost` states what does hold, that it is in no document that was looked at and not cited.

What the runs of `answers` and `lifecycle` say about mixed and racing servers contradicts no document, and stands in
their properties instead: a screening claimed by a server that cannot see its files fails
(`FailsForReason`), a server that loses a race for a model or the index exits (`RestartsSucceed`), and
a dirty version or a partial model's directory stays until somebody removes it (`Wrecked`).

## 6. Proofs

All proofs hold for every value of the constants that satisfies the module's assumption: finite
sets of servers, files and screenings, positive limits and timeouts, listings no shorter than the maximum (the
code lists up to 100 rows, a maximum above that would not be kept to by one server alone); for
`ScreeningReads` at least one screening; for `SnippetMatching` and `Answering` any lines, any snippets that are not
empty sequences (`strings.Split` returns one line at least) and any bounds; for
`Answering` any assignment of adapters to servers and of files and documents to them, for `ServerLifecycle` any
servers, models and indexes.

**FileProcessing_proofs.** `EventsTellStatus`, `ClaimsExclusive` and `SuccessMeansIndexed` are not inductive
by themselves. `InductiveInvariant` adds

* `HandsMatchPC`: a goroutine holds files exactly between claim and sweep, and stale files only in the sweep;
* `WritesApply`: an open insert has no row yet, and a listed stale file has been claimed before, so that a
  sweep never writes an outcome to a file that was not processed;
* `DocumentsAccounted`: the documents of a file that nobody has started are none, and the worker of a file
  knows how many it has saved. This rests on `ClaimsExclusive`, and gives `SuccessMeansIndexed`.

The proof has one step per action and one per conjunct the action can disturb. That the sweep can take a row
away from a worker is why `ClaimsExclusive` allows `PROCESSING_FAILED` for a held file; that it never makes a
held file waiting again is why no second server claims it. `StatusMovesCorrect` follows from the invariant
and a lemma on which rows each action may move.

`QueueImplemented` is the refinement without its liveness. Under the mapping, the queue's state is a function of
`status` and `events`; each action either leaves both alone, a stutter, or is one of `Submit` (`CommitInsert`),
`Claim` (`ClaimCommit`) and `Record` (`CommitSuccess`, `RecordFailure`, `FailStale`), whose guards follow from
the invariant: `WritesApply` says that what a sweep or a late worker records was claimed before, and the
primary key of the events that the same outcome is not recorded twice.

**ScreeningProcessing_proofs.** The argument is the same for the loop, and deletes make the difference.
`InductiveInvariant` has, besides `HandsMatchPC`, `WritesApply`: what a server holds or has listed for its sweep has
been claimed, has not been completed by another one, and has lost its row only to a delete. So an upsert can bring
a row back, but never one that waits; with it, `DeletedNeverRuns` and `ClaimsExclusive` are inductive.
`AnswersAccounted` relates the answers in the table to those the holder has counted, for a screening that still
has its questions; `RowsAgree` and `CompletedIsAnswered` are kept with its help. The bound on claims is proved as
for the files.

`QueueImplemented` is the same refinement with withdrawals. `Deletable` is why only a settled job is withdrawn, and
`WritesApply` why a late save of a row that is gone is an outcome recorded for a withdrawn job, never for one that
was not submitted. `ReadsImplementPipeline` (in `ScreeningReads_proofs`) carries all of this over to a pipeline that is
read: no statement of a read is a step of the pipeline.

**ScreeningReads_proofs.** `KeptLinked` says that a screening has its questions until it is deleted and none
afterwards, its row saved again or not. With it, the row
of a completed screening is a `WholeRow`: it has all of its answers, and is in no server's hands. A lemma
(`WholeStays`) shows that every step of the pipeline keeps such a row whole unless it deletes it, whence what was
true when the row was read is true when the later statements run (`ShownWhole`). A statement that runs after the
delete finds nothing, since `KeptLinked` and `RowsAgree` leave a deleted screening no questions and no answers; so
answers that are shown were read before it, and with them the questions and the files (`ShownTogether`). The order
of the statements matters: if the row is read last it may be newer than the answers, if the files are, they may
be gone under questions already read. These are the two mutations of the property.

**FileUploads_proofs.** `RowsHaveBlob` rests on no blob ever being removed: `HashFilter # HashColumn` makes
`DeleteFile` ineffective, and the proof uses this fact. `BlobsHeal` needs the last conjunct of
`InductiveInvariant`: of the requests that write a blob, the one that truncated it last has everything
it has copied in it. Whoever writes a piece only adds to it; whoever truncates becomes the last one with
nothing copied yet; and if the last one ends it has copied, and the blob holds, every piece.

**SnippetMatching_proofs.** First the operators on sequences: `Sanitized` returns lines without blanks
(`FlattenType`, `NonBlankType`, both by `FiniteRecursion` and `NatSetInduction`), `RemoveAt` takes one element and
with it one occurrence of one line (`RemoveAtType`, `TimesRemoved`), `FirstFound` is the index of a line that
the document contains, or 0 when there is none (`FirstFoundIs`). `MatchInvariant` adds to the three properties
`MatchedBehind`: the evidence lies behind the document of this round, and before the snippets are sanitized there
is none. So a round that finds a line (`TakenKeeps`) appends an index larger than all others, takes one occurrence
away from the lines left and adds one document that contains that line; a round that finds none (`PassedKeeps`)
leaves a document without any of the lines left, which stays so since lines only go.

**Answering_proofs.** The invariant says that the files in the worker's memory are those of the rows and not
none (`FilesKnown`: `CreateScreening` refuses an empty list, and the claim loads without a partial) and that what was
found is among the candidates of these files, which the check before the search has made visible. The filter of an
empty list would search everything; that the list is never empty is what `EvidenceCorrect` and `EmbedderCorrect` rest
on. Every step is one of `SnippetMatching` or leaves its variables alone (`MatchNextStep`, whose only premise is the
type of what was found and its bound), so `MatchInvariant` is kept here because it is kept there, and
`MatchingImplemented` holds.

**ServerLifecycle_proofs.** `ServingIsReady` is shown stage by stage: past `migrating` and `applying` the schema is done,
for a version only turns dirty while nobody is past it, and past the list of indexes the index is there, which nobody
drops. `SessionOutlivesWorkers` follows from what `main` knows at each stage of its end: past
`stopScreenings` that worker is off, past `stopFiles` both are, and a worker that is off stays off.

| theorem | module | statement |
|---|---|---|
| `TypeCorrect`, `InductiveInvariantCorrect` | `FileProcessing_proofs`, `ScreeningProcessing_proofs`, `FileUploads_proofs` | `Spec => []TypeOK`, `Spec => []InductiveInvariant` |
| `EventsCorrect`, `SuccessIndexed` | `FileProcessing_proofs` | `Spec => []EventsTellStatus`, `Spec => []SuccessMeansIndexed` |
| `ClaimsCorrect`, `ConcurrencyBounded`, `StatusMovesCorrect` | `FileProcessing_proofs`, `ScreeningProcessing_proofs` | `Spec => []ClaimsExclusive`, `Spec => []ClaimsBounded`, `Spec => StatusMoves` |
| `QueueImplemented` | `FileProcessing_proofs`, `ScreeningProcessing_proofs` | `Spec => Queue!SafeSpec` |
| `DeletedCorrect`, `RowsCorrect`, `CompletedCorrect` | `ScreeningProcessing_proofs` | `Spec => []DeletedNeverRuns`, `Spec => []RowsAgree`, `Spec => []CompletedIsAnswered` |
| `ReadsTypeCorrect`, `ShownCorrect` | `ScreeningReads_proofs` | `ReadsSpec => []ReadsTypeOK`, `ReadsSpec => []ShownWholeOrDeleted` |
| `ReadsImplementPipeline` | `ScreeningReads_proofs` | `ReadsSpec => Spec /\ Queue!SafeSpec` |
| `RowsCorrect`, `BlobsCorrect` | `FileUploads_proofs` | `Spec => []RowsHaveBlob`, `Spec => []BlobsHeal` |
| `MatchingCorrect` | `SnippetMatching_proofs` | `MatchSpec => [](OneLineEach /\ OrderKept /\ NoEvidenceLost)` |
| `TypeCorrect`, `EvidenceCorrect`, `EmbedderCorrect`, `FailuresCorrect` | `Answering_proofs` | `Spec => []TypeOK`, `Spec => []EvidenceOfItsFiles`, `Spec => []SameEmbedder`, `Spec => []FailsForReason` |
| `OrderCorrect`, `LinesCorrect`, `NothingLost` | `Answering_proofs` | `Spec => []OrderKept`, `Spec => []OneLineEach`, `Spec => []NoEvidenceLost` |
| `MatchingImplemented` | `Answering_proofs` | `Spec => MatchSpec` |
| `TypeCorrect`, `SessionCorrect`, `ReadyCorrect` | `ServerLifecycle_proofs` | `Spec => []TypeOK`, `Spec => []SessionOutlivesWorkers`, `Spec => []ServingIsReady` |

**Model-checked only.** Every invariant that a run checks is proved, and the action properties `StatusMoves`. What
stays with TLC is liveness under fairness (`UploadedSettles`, `RequestedSettles`, `RestartsSucceed`,
`SignalledStops`, and the `Settles` in `ImplementsQueue`), which is out of the prover's reach, as are statements about
`ENABLED` and `RECURSIVE` operators; the proved modules declare none. Of `Sanitized` it is proved what it returns a
sequence of, not that it equals another definition of the same. The disagreements of section 5 are counterexamples
of TLC.

## 7. Not modelled, and why

* The text of SQL, prompts and JSON; the validation of sort parameters; the decoding of requests and the generated
  code of `api`: stateless.
* The distances of a search and the words of a model: any order and any reply is possible in `Answering`; the file
  pipeline sees a call succeed or fail.
* The PDF and document extractors: no state, and what could be wrong in them (a sentence split in the wrong place, a
  table read askew) is about text, which a model would have to spell out character by character. The layout service
  and the language model behind them are external.
* Weaviate's batch call per file and what it does with single objects of it; its list and delete of documents are not
  implemented in the code.
* Several servers over one directory of blobs behave as more requests of one server do in `FileUploads`, except that a crash of one
  leaves the others running; that case is not modelled.
* Configuration errors at the start (an unknown adapter, a missing file): they end the process at once, as
  `Crash` does.
* Servers with different embedders or retrievers in the *file* pipeline: its listings are filtered by both
  (`filePpartial`), so servers of one kind form a pipeline of their own, which `FileProcessing` is. Their
  counts are separate as well: `maxConcurrentFiles` is per kind.
* The servers' clock skew: all servers read one clock in the models, and the sweep compares stamps made by
  one server with the clock of another.

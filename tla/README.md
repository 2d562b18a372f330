# Doxly: TLA+ specifications

Doxly lets users upload documents, has workers parse, chunk and embed them, and answers
questions about them (chat, search, extraction, summary, comparison). A FastAPI process, four
RQ queues on Redis, Postgres with pgvector and an object store share the state; a Next.js
frontend drives them. The specifications here say what that concurrent core does, what it
promises, and which promises hold.

All source paths below are relative to `src/Doxly/`; `app/` stands for `backend/app/`.

## 1. Inventory

### Components, their state and their operations

| Component | State | Operations | What makes it correct | Module |
|---|---|---|---|---|
| Document upload and lifecycle (`app/services/document_service.py`, `app/repositories/document_repository.py`) | `documents`, the stored object | presign, confirm, reprocess, delete | a document that is queued has a job; ready documents have chunks | `DocumentPipeline` |
| Document processing worker (`app/services/document_processing_service.py`, `app/workers/document_processing_worker.py`, `app/core/queue.py`) | `document_chunks`, `documents.status`, RQ jobs | one job: extract, chunk, embed, replace chunks, publish; retry; failure callback | one generation of chunks; no flash to failed between attempts; every confirmed document settles | `DocumentPipeline` |
| Storage quota, bulk actions, tags (`document_service.py`, `document_repository.py`) | `users.storage_used_bytes`, `tags`, `document_tags` | presign, confirm, delete, bulk delete and tag, rename, replace tags, create and delete a tag | the counter is what the documents weigh; tags and pairs are consistent; uploads do not deadlock | `DocumentLibrary` |
| Analysis jobs (`app/services/{extraction,summary,comparison}*_service.py`, their workers and repositories) | `extractions`, `document_summaries`, `comparisons`, RQ jobs | create, run, fail after retries, correct an extraction | outcomes are final; output iff completed | `AnalysisJobs` |
| Graphs (`app/ai/graphs/*.py`) | the state of one run (`MemorySaver`, lost with the process) | draft, check, bounded redo; align, classify, report | the redo loop ends; no segment is lost or reported twice | `AnalysisJobs`, `AnalysisGraphs` |
| Request transaction (`app/core/database.py`) | one session per request | commit after the route returned, also on a `DoxlyError`; rollback otherwise | what a handler did before the commit (an enqueue) is visible first | every module with requests |
| Chat turns (`app/services/chat_service.py`, `app/core/chat_stream_control.py`) | `messages`, `conversations`, the Redis stop key of a user message | send, regenerate, stop; classify, retrieve, answer, relay, persist | one answer per turn; a stop never ends a later turn | `ChatTurn` |
| Retrieval and citations (`app/services/retrieval_service.py`, `citation_service.py`) | none of their own | similarity search, de-duplication, token budget, citation rows | only chunks in scope, that still exist when they are cited | `DocumentReaders`, `TextWindows` |
| Viewer and search (`document_service.py`, `app/services/search_service.py`, `app/repositories/search_repository.py`) | none | pages and tables of a document; ranked hits with excerpts | all of a document in its order; no hit lost | `DocumentReaders`, `DocumentViews` |
| Status stream (`app/api/v1/routers/documents.py`) | one session per stream | poll and emit until terminal | each poll says what is committed | `DocumentReaders` |
| Sessions (`app/services/auth_service.py`, `app/repositories/user_repository.py`, `app/core/dependencies.py`) | `refresh_tokens`, `users` | register, sign in by password or Google, refresh (rotation), logout, reset | after a revocation no earlier session is usable; a token is exchanged once | `Sessions` |
| Accounts and admin (`app/services/user_service.py`, `admin_service.py`) | `users.status` | delete account, suspend, unsuspend | a suspension holds until it is lifted | `Sessions` |
| Rate limits (`app/core/rate_limit.py`) | Redis token buckets, failure counters, cooldowns | check, record failure, reset | no more than the cap; counters expire | `RateLimit` |
| Chunking (`app/document_processing/chunking.py`) | none | split text or CSV rows into token windows | size bounds, coverage, order | `TextWindows` |
| Object storage (`app/core/storage.py`) | the bytes | presigned PUT, read, delete | (I/O) | `object` in `DocumentPipeline` |
| Frontend clients (`frontend/hooks`, `frontend/lib/api`) | upload items, the chat draft, session cookies | three-step upload, streaming, token refresh | | their requests only |
| Parsers, providers, analytics, CSRF, email, configuration, pages, migrations | little or none | reads and single calls | not state machines | outcomes only |

### How they interact

* **Calls through one database session.** A handler reads, writes and *enqueues*; only when it
  has returned does `get_db_session` commit. Workers open a session of their own per attempt
  and commit it also when the attempt raised. Isolation is READ COMMITTED; a session does not
  refresh an object it has loaded, and a flush sends only the columns that changed.
* **Jobs.** Redis carries (user id, row id); everything else is re-read from the row. A retry
  is put in RQ's scheduled registry and moved back by RQ's scheduler. The failure callback runs
  on every failed attempt and looks at `job.should_retry`.
* **Redis keys** are shared between API replicas (stop keys, buckets, throttles).
* **Polling, streams and retrieval** read committed rows, by several statements each, while
  the pipeline changes them.

### What is hard

Interleavings of requests and workers on one row; the enqueue that precedes the commit; stale
session copies; an attempt that fails, times out or dies at any point; retries; Redis outages
(every Redis call fails open); row locks taken in different orders; clocks of several
processes; greedy packing at its boundaries. `PROJECT.json` lists each hazard at its line with
the properties that cover it.

## 2. What is modelled

| Module | Stands for |
|---|---|
| `DocumentLifecycle` | what readers of a document rely on: pending, ready (with chunks), failed, deleted, and the moves between them; and what is left of it when jobs and requests of one document overtake each other |
| `DocumentPipeline` | upload, confirm, reprocess, delete and the processing worker, transaction by transaction; refines both specifications of `DocumentLifecycle` |
| `DocumentReaders` | the viewer, search, the status stream and a chat turn's retrieval, composed with the disturbed `DocumentLifecycle` |
| `DocumentLibrary` | one user's storage counter, quotas, bulk actions and tags |
| `AnalysisJobs` | extractions, summaries, comparisons and corrections of extractions |
| `ChatTurn` | the turns of one conversation: send, regenerate, the streaming generator, and stop |
| `Sessions` | the sessions of one account and the calls that end them |
| `RateLimit` | token buckets, the sign-in throttle and the resend cooldown |
| `TextWindows`, `DocumentViews`, `AnalysisGraphs` | pure functions: packing of text; what is put together from chunks; the graphs of the analysis workers |
| `Selections` | comprehensions with a condition, which the last two use |
| `DocumentPipeline_proofs`, `DocumentReaders_proofs`, `DocumentLibrary_proofs`, `AnalysisJobs_proofs`, `ChatTurn_proofs`, `Sessions_proofs`, `RateLimit_proofs`, `Algorithms_proofs` | theorems about these modules (section 4) |
| `MC*` | instances for TLC: fault budgets, sizes, symmetry sets; `MCAlgorithms` enumerates the inputs of the pure functions |

The modules meet in three places. `DocumentPipeline` is shown to implement `DocumentLifecycle`:
its `DisturbedSpec` always, its `Spec` while each job is worked off once. `DocumentReaders` is
built on `DisturbedSpec` instead of the pipeline, so that what it shows of readers carries over to
the pipeline as it is. `DocumentViews` extends `TextWindows`: pages and tables are put together
from the chunks that `PackAtoms` and `ChunkCsvRows` cut.

### DocumentLifecycle

`phase[d]` is the status as readers see it (the four non-terminal ones are "pending"), `indexed[d]`
whether the document has chunks. `Spec` is the promise: ready comes and stays with chunks, and only
a failed document goes back to pending, without any. The code keeps it as long as its jobs and
requests come one after the other. It does not always: `reprocess_document` admits a stale,
non-terminal row, deletes the chunks, and may by then be deleting those of a document that has
become ready (`Discard`: the flush of an unchanged status sends nothing); a second job, a requeuing
or the last failure callback set the status of a document that is ready already, and an attempt that
its timeout cuts off commits chunks without it (`Rework`); a late job replaces the chunks of
another (`Overwrite`). `DisturbedSpec` adds these. What it still says is that no step makes a document
ready without chunks, and that deleted documents do not come back.

### DocumentPipeline

| State | In the code |
|---|---|
| `doc[d]` | the committed `documents` row: `status`, `confirmed` (the checksum is not empty), `deleted` (`deleted_at`), `stale` (`updated_at` older than `document_processing_stale_threshold_seconds`) |
| `object` | documents whose bytes are in object storage |
| `chunks[d]` | the committed `document_chunks`, one generation per job that stored them |
| `usage[d]` | how often d's size was added to `storage_used_bytes` |
| `lock[d]` | holder of the row lock of d (taken by UPDATE, released by commit or rollback) |
| `txn[t]` | the open session of request or worker `t`: where it is (`pc`), its loaded status (`view`), the row version it wrote (`row`), its pending chunk deletes and inserts |
| `job[j]` | RQ's job: state, document, attempts |
| `faultsLeft` | what remains of the bound on faults |

Requests take these steps: `ConfirmRead`, then `ConfirmWrite` or `ConfirmLost`;
`ReprocessRead`, `ReprocessClear`, then `ReprocessEnqueue` or `ReprocessGone`;
`DeleteDocument`; finally `CommitRequest`. Between any two steps another transaction may
run. `AbortRequest` is a request that dies: its writes vanish, a job it enqueued does not. A
worker takes `TakeJob`, `StartExtracting`, `Extract`, `Chunk`, `Embed`, `ClearChunks`,
`InsertChunks`, `Publish`, `CommitJob` and `FinishJob`; `CommitJob` is also how an attempt that
raised ends (`_process_document_async` commits before it re-raises), after which `RetryLater` or
`GiveUp` stand for `on_processing_failure`. `RollBackJob` follows an integrity error or a
cancelled event loop.

`SetStatus` is the central helper. It stands for `DocumentRepository.set_status` *and*
SQLAlchemy's flush: if the session's copy already has the status nothing is sent, no row lock
is taken and `updated_at` does not move. That is what the stale-reprocess finding turns on.

External code: RQ's scheduler (`RetryDue`), a dying worker (`CrashWorker`; the job is lost, or
found abandoned so that its failure callback runs elsewhere), RQ's job timeout
(`TimeOutJob`; `queue.py` sets none, so RQ's 180 s default applies), Postgres' deadlock
detection (`BreakDeadlock`).

Abstracted: contents, names, sizes (a document counts as one unit of usage; the bytes, the
stale read of the counter and the refund of a delete are `DocumentLibrary`'s), the parsers (their
outcomes are alternatives of `Extract`), backoff intervals, ownership checks (one user).
Bulk delete is `DeleteDocument` per document.

### DocumentReaders

`phase` and `indexed` are the variables of `DocumentLifecycle`, whose steps, those of
`DisturbedSpec`, are `LifecycleStep`; `ready` is the status column, which a deleted document
keeps. `disturbed` is history: the documents that have been through a step which `Spec` does not
have. The properties except them where they have to. `reader[r]` is one request: what it was asked
about (`docs`) and what it has handed on (`shown`).

* The viewer reads the row (`GetContent`) and then the chunks (`ListChunks`).
* Search is one statement after the query has been embedded (`FuseCandidates`).
* The status stream polls (`StreamStatus`, `PollStatus`, `Disconnect`). `Polled` is the identity
  map: the generator still holds the object of its first poll when it polls again, so the
  session gives it that object with the attributes it was loaded with.
* A chat turn is prepared (`CreateConversation`, `PrepareTurn`), searches
  (`SimilaritySearch`) and, much later, inserts its citations (`RecordCitations`).
  `VerifyDocumentsReady` looks at the status, `SimilaritySearch` at neither the status nor
  `deleted_at`, as in the code.

### DocumentLibrary

| State | In the code |
|---|---|
| `doc[d]` | how far the upload is, and by which call it was deleted |
| `used` | `users.storage_used_bytes` |
| `tags`, `tagged` | the committed `tags` and `document_tags` rows |
| `req[r]` | a request: its arguments, the usage it has read, and all that its transaction has written |
| `overlapped` | history: the kinds of request of which two were ever open at once |

There are ten calls (`PresignUpload`, `ConfirmUpload`, `DeleteDocument`, `UpdateDocument` three
ways, `BulkAction` two ways, `CreateTag`, `DeleteTag`) and a step per statement. The point is what
READ COMMITTED does: `ReadUser` reads the counter and `UpdateUser` writes an absolute value later;
`FindPairs` finds the pairs that are committed and `ClearPairs` deletes those that are still there
when their locks are free. `Needs` says which row lock or unique-index entry the next statement
waits for, `Blockers` who holds it, and `BreakDeadlock` lets Postgres abort any member of a cycle.
A 404 after a rename has been flushed commits it (`CheckTags`).

### AnalysisJobs

A row has one job (`create_*` enqueues once, nothing re-enqueues), so `job` and `run` are
indexed by the row. `row[a].result` is the set of what the stored result holds: the
model's output, and the corrections a user made. `run[a]` is the worker's session and place:
`TakeJob`, `DraftOutput` and `RouteDraft` (the graph: a draft is accepted, redone while
`retry_count` allows, or given up), `StoreOutcome` (`set_result` and its flush), `CommitRun`.
`patch[c]` is one `PATCH /extractions/{id}`: `ReadForPatch`, `WritePatch`, `CommitPatch`.
`Flushed` is what an UPDATE of only the changed columns makes of the stored row.
`LoadForFailure` and `MarkFailed` are the failure callback's own session. A correction is named by
its request and concerns a field of its own. The three kinds differ in how often a draft is
redone (`DraftRetries`) and in that only an extraction can be corrected.

### ChatTurn

| State | In the code |
|---|---|
| `turn[t]` | one request that streams: `pc` (the place in `generate_turn_events`), `question` (the user message it answers), `at` (`now()` of its transaction, the `created_at` of what it writes), `written` (its uncommitted assistant messages), `marked` (`mark_turn_started` reached Redis) |
| `asked`, `answers[t]` | the committed user messages, and each turn's committed assistant messages by status |
| `lock` | the row lock of the conversation, which `touch()` takes and the end of the transaction releases |
| `key[q]` | the Redis key `chat_turn:<q>` |
| `stop[s]` | one `/stop` request; `hit` records which turns were streaming when it set the key (history, for `NoStaleStop`) |

A turn goes `SendMessage`, `TouchConversation` or `RegenerateMessage`; `MarkTurnStarted`;
`ClassifyQuery`, `RetrieveContext`, `GenerateAnswer` with their short cuts to a canned answer;
`CheckForStop` (no stop, or Redis cannot tell) or `Halt` at each of the three kinds of check;
`StoreAnswer`; `GenerationFails` and `StoreIncomplete` for the `except` block;
`MarkTurnFinished` for the `finally` block; `Commit`. `DatabaseFails` differs from other
exceptions: the `except` block's insert fails as well, so the whole turn is lost. `Cut` is a client
that disconnects (cancellation) or a server that dies. `/stop` takes `FindMessage`, `GetKey`,
`RequestStop`.

The session is taken to span the stream, as FastAPI does since 0.118 and as the docstring of
`get_preceding_user_message` presumes ("inside one request's single transaction");
`backend/pyproject.toml` asks for at least 0.115. The words of an answer are one check that counts
and any number that change nothing. Titles are left out; the history budget is `TextWindows`'.

### Sessions

`user` is the account's row (`rows` counts the rows with its email), `token[t]` the committed
refresh tokens, `req[r]` a request with its open transaction. A request issues at most one
token, which is named after it. The calls are `Register`, `Login`, `OAuthLoginOrLink`,
`Refresh`, `EndSession` (logout and the revocation of one session), `ConfirmPasswordReset`,
`SuspendUser`, `UnsuspendUser` and `DeleteAccount`; their later statements are the steps. Two
things in the code decide what holds: a `DoxlyError` *commits* (`CommitAndRaise`), which is how a
refresh that finds a reused token still ends every session while it answers 401; and
`revoke_all_for_user` is a SELECT (`Sweep`) and an UPDATE per token (`RevokeAll`), so tokens that are
inserted in between escape it. `Expire` is a token that reaches its `expires_at`.

### RateLimit

Time is relative: a bucket has the `age` of its timestamp and the time its key has left to live. A
token is `Period` units of refill, so that all arithmetic is on integers. A request reads its
clock when it enters the check and runs its script up to `MaxLag` later (`lag`); scripts of
several processes therefore run in another order than their clocks were read, and `slip` (history)
sums how far that has set a bucket back. `Call` picks a route, whose tiers (`TiersOf`) are passed
in order by `RunScript`; then the handler of a sign-in, a registration or a resend takes `Check`,
`Verify`, `Incr`, `Expire`, `Reset` or `CheckResendCooldown`. `CommandFails` is a `RedisError` at
any of them, after which the request goes on (fail open). `Tick` lets time pass and keys lapse.

`RateLimitAssumption` bounds the lag by the shortest period (`Period[k] \in MaxLag..MaxAge`): no
clock reading is older, when its script runs, than the time in which a bucket fills. The script
keeps a key for twice that time; a script with an older clock could recreate a
bucket that had lapsed, with a timestamp before the one that was forgotten, and
`AdmissionsAreBounded` would not hold. The periods of the code are 60 s and a day.

### TextWindows, DocumentViews, AnalysisGraphs, Selections

Pure functions; where the code loops, these are recursive functions of how far the loop has got.
A text is the sequence of the token counts of its pieces, so a chunk is an interval of pieces.
`Select` of `Selections` is what the code writes as a comprehension with a condition.

* `TextWindows`: `HardSplit`, `FlattenToAtoms`, `TrailingOverlap`, `PackAtoms`,
  `PageNumberAt` and `ChunkCsvRows` of `chunking.py`; `Dedupe` and `Retrieve` of
  `retrieval_service.py`; `AssembleHistory` of `chat_service.py`.
* `DocumentViews`: `PageBreaks` of `pdf_parser.py`; `PageNumbers`, which chunks carry; `PagesView`
  of `get_content`. A table is modelled down to the symbols that matter to CSV (comma, quote, end
  of line): `Line` and `ChunkContent` join cells and lines without quoting any, as
  `chunk_csv_rows` and `_flush_csv_group` do; `CsvReader` is Python's `csv.reader` with its
  default dialect (`ReadSymbol` is its automaton; it was compared with the library on all texts of
  up to five symbols); `TableView` reads each chunk and puts the rows together by `AsDictionary`.
  A lone carriage return, for which `csv.reader` raises an error, is left out, and the token
  counts of lines are independent of their cells. `Fuse`, the reciprocal rank fusion that
  `search_repository.py` writes in SQL (`Score`, as a fraction, and its ORDER BY, `Before`);
  `BuildSnippet`.
* `AnalysisGraphs`: a comparison as `Align` (the greedy loop is `Matched`), `Differences`,
  `Classify`, `ToResultJson` and `Compare`; `Summarize`, from what is still to come after so many
  rejected drafts (`Drafting`); `ResolveSchema`, and `Extract` from `Asking` likewise; `Recorded`,
  which provider calls leave a row in `ai_requests`. The similarity of two contents is a
  parameter, `Similarity`, of which `SimilarityAssumption` says that it is at most 1 (100
  hundredths) in either direction and 1 for what is the same, as a cosine is of vectors other than
  0; embeddings are not 0.

In `MCAlgorithms` a state is an input; its invariants compare what the functions make of
it with what they promise.

## 3. What is checked

A "violation" run shows a documented promise that the code does not keep; each is an entry of
`findings` in `PROJECT.json`.

| Run (cfg) | Checks | Instance (distinct states) | Shows |
|---|---|---|---|
| `PipelineFaults` | `TypeOK`, `OneGeneration`, `CountedOnce`, `FreshReadyHasChunks`, `OnlyOvertakingStrands`, `ImplementsDisturbedLifecycle` | 1 document, 2 requests, 2 workers, 2 jobs, 1 retry; an ageing row and a request that dies, or any two of a dying request, a crash, an outage and a timeout (987 654) | generations of chunks never mix, usage is counted once, no fault makes a ready document lose its chunks, what alone can strand a document, readers see what the disturbed lifecycle says |
| `PipelineLifecycle` | `NoFlashToFailed`, `ImplementsLifecycle`, `EventuallySettled` | 2 requests, 2 workers, 3 jobs, transient errors, a request that dies, under `WorkedOnce`, fairness (392 887) | while each job is worked off once, documents settle, nothing fails early, and readers see what the abstract lifecycle says |
| `AnalysisOutcomes` | `TypeOK`, `OutputIffCompleted`, `OutcomeIsFinal`, `FoundIsSettled` | an extraction with a correction and a summary; one fault of each kind, fairness | outcomes are final, a summary shows output exactly when completed, runs end |
| `ChatTurns` | `TypeOK`, `ExactlyOneAnswer`, `NoStaleStop`, `KeysAreFreed`, `TurnsEnd` | an answered turn, 2 more, 1 stop; one Redis outage, failing statement, cut stream and early expiry, fairness (119 615) | a turn that ran to its end stored one answer; a stop never ends a later turn; turns end, keys and locks are freed |
| `Library` | `TypeOK`, `UsageIsExact`, `TagsAreConsistent`, `NoDeadlockedUpload`, `PatchReplacesTags` | 2 requests, 2 documents of size 2, quota 4, limit 1, 3 tag rows of which 2 share a name; one request that dies (298 732) | what the counter is exact up to; what tags keep under races; who can deadlock |
| `Readers` | `TypeOK`, `ContentIsWhole`, `ContextIsInScope`, `CitedChunksExist` | 2 documents, 1 reader, 4 polls (24 657) | what readers see while documents change between their statements and their jobs overtake each other |
| `Sessions` | `TypeOK`, `SweepsAreComplete`, `OneSuccessor`, `SuspensionHolds` | an account with one session or none yet, 3 requests, one that dies (166 395) | revocations, rotations and suspensions hold in every interleaving |
| `RateLimits` | `TypeOK`, `AdmissionsAreBounded`, `RetryAfterIsEnough`, `ExcessOverlaps`, `CountersLapse` | 3 requests, buckets of 1 or 2 tokens, threshold 2, lag 1, one failing command (482 801) | the caps under racing clocks and overlapping attempts |
| `Algorithms` | `ChunksAreSound`, `ContextsAreSound`, `ViewsAreSound`, `GraphsAreSound` | every input up to the bounds of `MCAlgorithms` (126 606) | the pure functions keep their promises at the boundaries |
| `PipelineStaleReprocess` | `ReadyHasChunks` | 2 requests, 2 workers, one ageing row | **violation**: ready without chunks |
| `ReadersStream` | `PollsSeeLatest` | as `Readers`, 3 documents | **violation**: the status stream repeats the status it saw first |
| `ReadersDeleted` | `DeletedIsNotRetrieved` | as `Readers`, 3 documents | **violation**: a turn retrieves from a deleted document |

The properties in words, where the name does not say it:

* `UsageIsExact`: the counter is the size of the confirmed documents, *unless* two charging
  requests were ever open at once, or an unconfirmed document was deleted alone (which
  gives back what was never taken). Documents deleted in bulk go on counting. The three
  exceptions are what the code does; the property says that there is no fourth.
* `NoDeadlockedUpload`: only tag and bulk requests wait for each other; an upload, a rename or a
  single delete is never rolled back for the sake of another.
* `FoundIsSettled`: a job that has found its analysis row ends it (one that comes before the
  row is committed finds none; section 6).
* `SweepsAreComplete`: no session that had been issued when the sweep began survives it. One that is
  being issued meanwhile does.
* `OneSuccessor`: two refreshes exchange one token only if they overlap.
* `OnlyOvertakingStrands`: a confirmed document that waits to be processed has a job that is queued,
  to be retried, or with a worker that has more to do than acknowledge it. While no crash, timeout
  or outage has lost a job, one step ends that: the commit of a reprocess that writes "queued" over
  a "ready" that came after the reprocess was admitted. Nothing is assumed of the requests, and the
  step does occur in the run (on a row that grew stale).
* `ContentIsWhole`, `CitedChunksExist`: what a viewer found ready has its text, what a turn
  retrieved can be cited, *except* of a document whose jobs or requests overtook each other
  (`disturbed`). `ContextIsInScope` needs no exception.
* `ViewsAreSound`, of a table under a header of different names without commas, line breaks and
  leading quotes: a chunk none of whose rows has a line break or a quote at the beginning of a
  cell (`Tame`) is shown row by row, between what is shown of the chunks before and after it,
  whatever these hold; of each row, the cells before the first one with a comma are in their
  columns. If all chunks are tame there are as many rows as were read. A chunk that is not tame
  may be shown as more rows or fewer (section 6).
* `AdmissionsAreBounded`: in an interval a tier admits a full bucket, its refill, the lag of one
  clock and the time by which scripts out of order have set the bucket's clock back.
* `ExcessOverlaps`: an attempt that is counted above the threshold overlapped with as many others.

`ReadyHasChunks` appears both ways on purpose: it holds while nothing goes stale
(`FreshReadyHasChunks`) and fails beyond that. The pair of runs marks the border of what the code
guarantees.
`PipelineLifecycle` lets requests overlap under the hypothesis `WorkedOnce` of the theorems
(section 4): its specification takes the steps that satisfy it. The theorems add every other
fault.

**Bounds.** In the pipeline all races are on one row: documents do not interact, so one is enough
(usage is kept per document). Two requests and two workers are the least that race, two jobs are a
first job and a rival; the third job of `PipelineLifecycle` allows two reprocess runs after the first. One retry distinguishes
"attempts remain" from "none remain". `faultsLeft` bounds each kind of fault to the number given
in the run, and `PipelineFaults` allows two of them in one behaviour (its action constraint
`TwoFaults`; it has no liveness property). `JobIds` bounds jobs ever enqueued: when it is used up
an enqueue is not possible, so the system may stop there, and so it may wherever all requests of
an instance have been made; deadlock is not checked. In `ChatTurn` conversations do not interact,
so there is one; the run begins after a first answered turn (`LaterInit`), which leaves a message,
a regenerate that is stopped and one that must not be; the two turns are named in the order in
which they begin (`LaterNext`), which halves the states and loses none but for their names; the
clock advances once per turn. In `DocumentLibrary` two requests overlap in every way two can, two
documents are needed for lock orders, the sizes and quotas put each check on its boundary, and the
third tag row shares its name. `Sessions` needs three requests: one to issue, one to sweep, one to
use what was missed. `RateLimits` has one request more than the largest bucket holds, and time up
to twice a period. `Algorithms` puts pieces on both sides of each budget, alone and in sequence.
Requests, workers, jobs, documents and corrections are symmetric where the run has no liveness
property.

**Fairness.** `DocumentPipeline`'s `FairSpec` assumes that a worker that is up goes on with its
step (RQ's worker loop), that RQ's scheduler moves due retries (`RetryDue`; disabled, not merely
unfair, when `SchedulerRunning` is false), and that a request that has begun runs to its end;
`PipelineLifecycle` assumes the same of the steps that satisfy `WorkedOnce`. In `ChatTurn` a turn
that has begun goes on (the response drives the generator; providers answer or raise) and Redis
expires keys. In `DocumentReaders` a request that has begun is carried on, so that none of its
counterexamples is a request that merely stopped; nobody has to hang up.
No fairness is assumed of clients, nor of faults: nothing obliges anybody to confirm or reprocess.
`DocumentLibrary`, `Sessions` and `RateLimit` are checked for safety only and assume none.

**The algorithms** are checked as functions, not as processes: a state is an input, and
"distinct states" counts inputs.

## 4. What is proved

`tlapm` proves the theorems below for every value of the constants, from the named assumption
of each module (finite sets of requests or documents, names that do not clash, natural
bounds) and nothing else, unless a hypothesis is stated. A theorem `XCorrect` says
`Spec => []X` for the property `X` that a run checks (`Spec => X` for an action property or the
refinement); those called `...TypeCorrect` say `Spec => []TypeOK`. Every inductive invariant was
first checked by TLC on the instance of its run.

### `DocumentPipeline_proofs`

For any documents, requests, workers, jobs, retries and fault budget.

* `TypeCorrect`, with `Inv1`: an open transaction and a job that exists belong to a document
  that exists, and a row lock is held by an open transaction on that row.
* `CountedOnceCorrect`. The property is not inductive alone: a
  request that is about to commit carries `adds = 1`, so it has to be known that it holds the row
  lock, that its row version is the confirmed one, that the committed row is not
  confirmed yet, and that every other transaction that writes a row under its lock started from
  the committed `confirmed`. The proof first shows that a transaction keeps the lock from its
  first write to its end, then that what it will install agrees with what it adds
  (`Inv2`: `CountedOnce`, `AddsUnderLock` and `RowAgrees`).
* `OneGenerationCorrect`. The invariant relates the pending
  deletes and inserts of all transactions on a document to its committed chunks: a transaction
  that stores a generation has cleared every committed one, and no two transactions of a
  document hold pending chunk rows in conflict (the unique index on
  `(document_id, chunk_index)` and the row locks of the DELETE; `Inv3`).
* `FreshReadyHasChunksCorrect`. What is published together has to be written together (`Inv4`):
  a worker past parsing holds the row lock or has lost its document to a deletion
  (`WorkerKnows`); only a worker with chunks to insert writes "ready" (`RecordKnows`); nobody
  deletes a document whose row is locked, and a request holds a lock only at its commit
  (`LocksKnow`). While no row is stale, a request that has deleted chunks
  started from a failed row, so its status write takes the lock (`RequestKnows`). That last
  conjunct is the one that staleness breaks: the row may already say "queued", no
  UPDATE is sent, and the chunks are deleted without the lock (`PipelineStaleReprocess`).

### `DocumentPipeline_proofs`: the refinement

`ImplementsDisturbedLifecycleCorrect` has no hypothesis: whatever requests and jobs do to each
other, whatever grows stale, dies or times out, the pipeline implements `DisturbedSpec`. It needs
only that a worker that writes "ready" has chunks to install with it (from `Inv4`), that rows
which do not exist are blank, and that a request which is about to commit a status has locked a
document that is there.

`ImplementsLifecycleCorrect` and `NoFlashToFailedCorrect`: for any documents, requests, workers, jobs,
retry limit and fault budget, under the hypothesis `WorkedOnce` on the steps
(`Spec /\ [][WorkedOnce]_vars => ...`). Requests overlap, rows grow stale, requests and workers die,
Redis is unreachable and jobs time out as in `Spec`, but

* a reprocess requeues only a document that it found failed and that still is: two
  reprocess requests that both found it failed do not both requeue it, and a stale one
  is not requeued beside its job;
* a request does not die between its enqueue and its commit (a deletion, which enqueues nothing, may);
* a worker does not crash, and a job does not time out, between the commit of its work and RQ's
  acknowledgement;
* a timeout does not make a worker commit half of its work: it may cancel it, or end it before
  the chunks are stored.

Each of the four excludes a way in which a document comes to have two jobs, or a job and no
work; the code prevents none of them, and without any one of them TLC refutes one of the theorems on
an instance with two requests, two workers, three jobs and the fault in question.

The two have one reason: *a document has at most one job whose work is not committed yet, and,
until one is lost, has it exactly when a commit has said, or is about to say, that it is to be
processed* (`OnePending`, `PendingAwaited`, `Served`). "About to say" is what the enqueue before
the commit makes necessary: a worker may take the job before the request has committed
(`Awaited` looks at what the lock holder will install). The rest of `Inv5` says what it takes to
keep that: workers have jobs of their own (`WorkersApart`), an unconfirmed document is queued, a
document that waits for a job has no chunks (`ChunksPart`), a request that is about to commit has
the row to itself and has deleted chunks only of a document that is settled (`RequestSerial`), and
a worker's copy of the status is not terminal until it publishes (`WorkerSerial`). The last
holds of a worker that raised only while nothing has struck, which is why one part of it asks for
`Undisturbed`.

For the refinement, `StepMaps` shows that `PresignUpload` is `Create`, a commit of a request
`Remove`, `Requeue` or nothing, a commit of a job `Publish`, `Reject`, `StoreLate` or nothing,
and the failure callback `Reject` or nothing; no other step shows. `DocumentLifecycle`'s
specifications are safety only, so this is the whole refinement.

### `DocumentPipeline_proofs`: no document is stranded

`NoStrandedDocumentCorrect` says `Spec /\ [][NotOvertaken]_vars => [](Undisturbed =>
NoStrandedDocument)`. Requests overlap, die before their commit and are admitted on stale rows,
and a document may have several jobs that run side by side; only a reprocess that writes "queued"
over a "ready" newer than its admission is excluded (`OnlyOvertakingStrands` is about that step),
and, by `Undisturbed`, what plainly loses a job: a crash, an outage, a timeout.

The invariant (`Inv6`) is about what a document asks for, by its committed row or by what the
holder of its lock will install. If it asks to be processed, some job serves it (`Serves`): one
whose work is not committed. Jobs may overlap, so it does not matter which; what matters is that
the last of them stays until the row is settled. A worker that ends its job without doing anything
has found the row ready, which `NotOvertaken` keeps a waiting request from undoing. If a request
is about to requeue a failed row, its job must be one that nobody can finish before the commit
(`Untaken`: queued, or taken by a worker that waits for the row lock), since an attempt that
failed for the last time would find the row failed already and change nothing.

### `DocumentReaders_proofs`

For any documents, readers and number of polls: `ReadersTypeCorrect`, `ContentIsWholeCorrect`,
`ContextIsInScopeCorrect`, `CitedChunksExistCorrect`. What a reader saw must stay true until its
next statement. So the invariant says, of documents that are not `disturbed`, that those with
chunks are settled (`IndexedIsSettled`) and that one whose status is ready keeps its chunks even
when it is deleted (`ReadyIsIndexed`), and, per place of a reader, what it has established
(`ReaderKnows`). The module is about `DocumentLifecycle`'s `DisturbedSpec`; by
`ImplementsDisturbedLifecycleCorrect` it carries over to the pipeline without any hypothesis.

### `DocumentLibrary_proofs`

For any finite set of documents, sizes, quotas, tags and requests: `LibraryTypeCorrect`,
`UsageIsExactCorrect`, `TagsAreConsistentCorrect`, `NoDeadlockedUploadCorrect` and
`PatchReplacesTagsCorrect` (a step property).

* *The counter.* A confirm or delete that no other charging request has overlapped holds the
  current counter (`ChargeKnows`, `ConfirmKnows`, `DeleteKnows`), so the absolute value that it
  writes is right. The sum of the sizes folds over a set in the order of `CHOOSE`; that the order
  does not matter, and what one more document adds, is shown for a least set for which it fails
  (`LeastSet`), since sets are well-founded under strict inclusion.
* *Tags.* `TagKnows` and `PatchKnows` say per place of a request which rows it has
  flushed and which it still may meet; `Apart` says of two requests what row locks and unique
  indexes keep apart.
* *Deadlock.* In a least deadlocked set everyone holds what another member waits for
  (`EveryoneBlocks`); an upload, a rename or a single delete holds something while it waits only at
  the user's row, whose holder is about to commit.

### `AnalysisJobs_proofs`

For any analyses, corrections, retries and faults: `AnalysesTypeCorrect`,
`OutputIffCompletedCorrect` (of summaries and comparisons; an extraction keeps the corrections a
user made to it after it failed), `OutcomeIsFinalCorrect` (a step property). The attempts of a job
come one after the other. An attempt past the no-op test sees "processing" in its session, and the
row *is* processing until it commits, because only one attempt of a job runs and a correction does
not change the status (`AttemptKnows`, `PatchKnows`); a row lock is held by the row's run past
`set_result`, or by a correction that has flushed (`LockKnows`); what the failure callback has
loaded has not been undone.

### `ChatTurn_proofs`

For any turns, stops and faults: `TurnsTypeCorrect`, `ExactlyOneAnswerCorrect`,
`NoStaleStopCorrect`. A turn that has not reached its last check has written nothing, one that is
past it has written one message (`AnswerKnows`). A stop that a marked turn finds in
its key was accepted while the turn streamed: the key was reset when the turn was
marked, and only an accepted stop, which hits all turns then streaming on the key, sets it
(`StopIsFresh`).

### `Sessions_proofs`

For any devices, requests and number of requests that die: `SessionsTypeCorrect`,
`SweepsAreCompleteCorrect`, `OneSuccessorCorrect`, `SuspensionHoldsCorrect`. The three safety
properties speak about requests that ended before others began. The invariant (`Knows`) says for
each request, at each of its places, what its earlier reads still guarantee: a sweep has found
every active session that existed when it began (`SweepKnows`), a refresh presents a token no
earlier refresh has exchanged (`RefreshKnows`), a suspension is in force or somebody may lift it
(`SuspendKnows`), and so on. The lemma `KnowsStays` shows once that this survives any step that only
moves tokens forward, keeps ended requests as they are, and undoes a suspension only by a
request that lifts it; each action then has to establish just what it is about.

### `RateLimit_proofs`

For any requests, capacities, periods, thresholds, lags and failing commands: `LimitsTypeCorrect`,
`AdmissionsAreBoundedCorrect`, `RetryAfterIsEnoughCorrect`, `ExcessOverlapsCorrect`,
`CountersLapseCorrect`.

* *Buckets.* For every interval up to now, what was admitted in it plus what the bucket holds and
  will have gained never exceeds a full bucket plus what it gained (`WindowKnows`); once the key
  has lapsed the first filling is spent, which pays for the full bucket that comes next. A key
  lives for two periods after its timestamp (`AgeKnows`); that is long enough for clocks that lag
  by less than one, hence the assumption on `MaxLag`.
* *Retry-After.* The bucket that refused a request has since had at least the time
  that request waited, and gains in the announced time what it lacked (`RefusalKnows`, `math.ceil`).
* *The throttle.* Since an attempt was let through below the threshold, only attempts that overlap
  it have been counted (`ExcessKnows`).

### `Algorithms_proofs`

For any targets, overlaps and budgets that `TextWindowsAssumption` allows and *any* input, not
only those that `MCAlgorithms` enumerates: `AtomsAreCovered` (no atom is lost between chunks),
`ChunksFitTheTarget`, `RowsAreGrouped`, `PagesAreFound`, `SentencesAreCut`, `ParagraphsAreFlattened`,
`ContextsFitTheBudget`, `HistoriesFitTheBudget`. `ChunksAreSoundCorrect` and
`ContextsAreSoundCorrect` draw the conclusion for the specification that the run checks.

* *Recursive functions.* That `f[i \in S] == ...` is what its equation says is proved for each of
  them: functions on longer and longer prefixes exist, by a least prefix for which none
  does. `LeastNumber` is the library's `WFMin` for `<`; `Induction`, `StrongInduction` and
  `DownwardInduction` state it for the *set* of numbers for which a fact holds, which needs no
  operator as a parameter.
* *Packing* (`PackedKeeps`). After i atoms the chunks that are closed are in order, each begins at
  most one atom after the end of the one before and ends with an atom that one lacks (`Packs`),
  and the chunk that is open may follow them (`MayFollow`). What exceeds the target does so by the
  overlap or by a single piece, as the open chunk had fitted before the last atom.
* *Rows* are grouped by the same loop without overlap (`RowGroups`, `Filling`); *sentences*
  are cut where the guess at their length has shrunk enough, which is never before their first
  character (`ShorterIs`, `Spanned`).
* *Contexts* (`Kept`): a result is kept or says the same as a better one that is kept; the budget
  takes a prefix of these. *Histories* (`TakenFrom`): the messages that are taken from the
  newest back have no gap, and exceed the budget only if there is one of them; the loop ends for
  good at the first that does not fit.

About `AnalysisGraphs`, for any threshold, any numbers of retries and any similarity that is a
cosine: `ComparisonsAreComplete` (any two documents, nothing lost or reported twice however the
greedy alignment goes), `ItselfIsTheSame`, `ComparisonsLeaveRows`, `SummariesAreBounded`,
`ExtractionsAreBounded`, `SchemasAreChosen`; `GraphsAreSoundCorrect` draws the conclusion for the
specification that the run checks.

* *Selections* (`Picks`, `SelectIs`). The elements of a selection correspond one to one to the
  indices that meet its condition, so an element that was there once is in it once or not at all. A
  report is put together from three selections by type from one selection of pairs; that
  each segment is in it exactly once is counted through these (`Once`, `Never`).
* *The alignment* (`Matching`). After i segments there are i pairs, one for each, no segment of
  the other document is in two of them, and those that are used are exactly those in a pair. A
  segment that found no partner is dissimilar to every one that is left over, which stays so
  because segments are only ever used up. Compared with itself (`Itself`) a document has, at
  segment i, used up 1 to i - 1 and finds segment i the first of the most similar: equal
  similarity does not lead astray, because the comparison is strict and goes in order.
* *The loops over answers* (`Drafted`, `AskingIs`). Both are recursive from the end, so
  `DownwardInduction` shows what is still to come after r rejections: as many more drafts as are
  made cost `parts + 2` calls each, but for one that is cut short by the error that ends the run,
  and all of them but the last are rejected.

About `DocumentViews`, for any pool, window and constant of the fusion: `PagesAreInOrder` (any
atoms, any pages), `TablesAreShown` (any table whose rows are as long as its header, over any
symbols), `RankingsAreFair` (any two rankings), `SnippetsHaveTheirMatch`. `ViewsAreSoundCorrect`
draws the conclusion for the specification that the run checks.

* *Flattening* (`Tiles`, `FlattenTiles`). What is flattened is a sequence q if its parts are the
  consecutive intervals of q, which begin where the cuts say: the chunks that carry each
  page number.
* *Tables.* A text that is joined includes its parts at known places (`JoinedAt`), and a text is
  read symbol by symbol (`Reads`). A line without a break or a leading quote that begins where the
  reader is between records is read within one record, and the reader is never in quotes there
  (`TameRuns`); by induction on the cells, those before the first with a comma are cells of the
  record (`RecordOf`, `CellsAreRead`), which has at least as many as the line. By induction on the
  lines, the header of a chunk is its first record whatever follows, and a chunk of tame lines has
  a record for each (`ContentIsRead`). So the columns are the header of the first chunk
  (`ColumnsAre`), and what each chunk adds to the rows lies between two offsets that do not depend
  on what the others hold (`PartsEnd`).
* *Pages.* An offset is on exactly one page (`OnPage`), later offsets are not on earlier pages
  (`PagesAscend`), and chunks begin in the order of the text (`ChunksWithin`): so the numbers that
  they carry never fall, the chunks of a page are consecutive (`SelectConsecutive`), and the
  pages in the order of their numbers show all of them in theirs (`GroupsFlatten`).
* *Rankings.* A score falls with either rank (`ReciprocalsAreOrdered`, `SumsAreOrdered`: fractions
  are compared by cross-multiplication). The order by falling score and then key is strict and
  total (`BeforeIs`), so counting what comes before a candidate places each at a rank of its own
  (`PlacesAre`, by an injection between finite sets).

### What the proofs found

* `RateLimit`: `AdmissionsAreBounded` needs the bound on the lag (section 2), which the small instance
  satisfied by chance.
* `DocumentLibrary`: `None` has to differ from every number, or a request that has read no
  counter could pass for one that has read it.
* `DocumentPipeline`: the branches of `Phase` overlapped. TLC takes the first that is true, TLA+
  does not say which; for a document deleted while it was processed, the mapping was undefined.
* `Served`, under weaker and weaker hypotheses, led to the two ways in which a document can be
  stranded: a reprocess that writes "queued" over a newer "ready" (section 6), and a lost job.
  `NotOvertaken` excludes the first and is all that `NoStrandedDocumentCorrect` assumes.

### What is only model-checked

* Liveness (`EventuallySettled`, `FoundIsSettled`, `KeysAreFreed`, `TurnsEnd`): fairness
  and `ENABLED` are out of reach of this prover.
* Where `WorkedOnce` is broken the pipeline is only promised to keep `DisturbedSpec`, and where
  `NotOvertaken` is, documents may be stranded; section 6 says how. That no other step strands one
  (`OnlyOvertakingStrands`) is checked for the step, not proved.

## 5. Plan

Done: the models, their runs, and a theorem for each safety and step property of the stateful
modules. What would say more:

1. `DocumentReaders` composed with `DocumentPipeline` itself, so that `disturbed` is what has
   happened there and not what the lifecycle allows.

## 6. Known disagreements

Where the code does something else than a text of the repository says, or than one would
expect; the first three are runs.

* A stale document that is reprocessed while its first job publishes stays ready without chunks
  (`document_service.py:393`; `PipelineStaleReprocess`).
* The status stream goes on saying what it said first (`routers/documents.py:269`;
  `ReadersStream`): it never reports a stage transition or a terminal status to a client that
  connected before it.
* Chat retrieves from deleted documents (`document_repository.py:245`; `ReadersDeleted`).
* Chat retrieves from documents that are not ready (`document_repository.py:245`),
  though `specs/rag.md:88` lists the status among the filters. Such documents can have chunks: those
  of an attempt that was cut off by its timeout, or that were stored while a reprocess was on its way.
* Two overlapping reprocess requests can strand a queued document: the job of one makes it ready, the
  other's own job is a no-op, then its commit sets it back to queued (`document_service.py:399`).
  So can one request that was admitted on a stale row whose first job comes through after all.
  `specs/api.md:197` and `specs/document-processing.md:92` promise a fresh run. It is the step
  that `OnlyOvertakingStrands` names.
* A document that is ready can be marked failed, by the last failure callback of an attempt that
  timed out behind its commit, or of another job (`document_processing_worker.py:125`).
  `DocumentLifecycle`'s `Rework` allows for it.
* The worker command of `docker-compose.yml:142` starts no scheduler, so no delayed retry ever
  runs in that deployment. `SchedulerRunning` is an assumption of `EventuallySettled`.
* The job of an analysis may run before its row is committed, find nothing and be consumed; the
  row stays processing (`extraction_service.py:68`, `queue.py:86`).
* A correction of an extraction may be overwritten by a concurrent one, or by the worker's
  result (`extraction_service.py:141`), though FR-EXT-004 (`specs/requirements.md:254`) has
  corrections persist.
* `/stop` answers 404 for a message that is being answered for the first time, as the message is
  not committed yet (`chat_service.py:214`, `specs/api.md:268`); a stop after the last check is
  answered 200 and not honoured.
* The delay the sign-in throttle announces is not enough: the counter does not decrease, and the
  caller is refused until the window ends (`rate_limit.py:251`). `RetryAfterIsEnough` is about
  buckets.
* The daily AI cap is a bucket that refills all day, so that nearly twice the cap may be used in
  24 hours, and a refusal announces midnight (`rate_limit.py:185`).
* The rows of a table are not always shown as they were read: `chunking.py:209` joins cells
  without quoting them and `document_service.py:286` reads them back with `csv.reader`. A comma in
  a cell makes it two and shifts the rest of the row; a line break makes the row two; a quote at
  the beginning of a cell swallows what follows up to the next quote or the end of the chunk, rows
  included; a lone carriage return is an error of `csv.reader`, so that the viewer answers 500; a
  row of a single empty cell is shown without its column, and not at all at the end of a chunk.
  What `ViewsAreSound` says is that none of the first three reaches beyond its row or its chunk.
* Text of a PDF page on which no chunk begins is shown under an earlier page.
* The quotas are checked at presign and not again at confirm, so several presigned uploads
  exceed them together; two overlapping confirms or deletes lose an update of the counter.
* An exception of a structured provider call that is not a parse error leaves no row in
  `ai_requests` (`specs/observability.md:99`).
* A sign-in with Google does not look at a suspension; unsuspending makes an account that was
  pending deletion active; a deletion overwrites a suspension. Two tabs that refresh with one
  cookie one after the other end every session of the user.

## 7. What is not modelled

* **Data and pure I/O**: parsers (but for page breaks), embedding and LLM calls, prompts, the
  scores of Postgres, object storage, email, the rows of `audit_logs` and `ai_requests` (but for
  which calls leave one), analytics: reads or single inserts.
* **Single statements without a second party**: profile and preference updates, email
  verification, titles, listing and deleting conversations, listing with its pagination (a page
  by offset may skip or repeat a row that is inserted meanwhile; nothing promises otherwise).
* `purge_account_data`, which no job of the repository calls.
* **Clients**: the state of the hooks, reconnecting streams, pages. What matters to the server is in
  the modules: repeated confirms, hung-up streams, refreshes of one cookie by several tabs.
* **Configuration, CSRF, token signing, migrations, deployment**: no run-time state.

`PROJECT.json` gives the status of every component.

## 8. Running

    tlc -workers 2 -config PipelineFaults.cfg MCDocumentPipeline
    tlc -workers 2 -config PipelineLifecycle.cfg MCDocumentPipeline
    tlc -workers 2 -config PipelineStaleReprocess.cfg MCDocumentPipeline
    tlc -workers 2 -config AnalysisOutcomes.cfg MCAnalysisJobs
    tlc -workers 2 -config ChatTurns.cfg MCChatTurn
    tlc -workers 2 -config Library.cfg MCDocumentLibrary
    tlc -workers 2 -config Readers.cfg MCDocumentReaders
    tlc -workers 2 -config ReadersStream.cfg MCDocumentReaders
    tlc -workers 2 -config ReadersDeleted.cfg MCDocumentReaders
    tlc -workers 2 -config Sessions.cfg MCSessions
    tlc -workers 2 -config RateLimits.cfg MCRateLimit
    tlc -workers 2 -config Algorithms.cfg MCAlgorithms
    tlapm DocumentPipeline_proofs.tla
    tlapm DocumentReaders_proofs.tla
    tlapm DocumentLibrary_proofs.tla
    tlapm AnalysisJobs_proofs.tla
    tlapm ChatTurn_proofs.tla
    tlapm Sessions_proofs.tla
    tlapm RateLimit_proofs.tla
    tlapm Algorithms_proofs.tla

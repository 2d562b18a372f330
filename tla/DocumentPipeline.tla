--------------------------- MODULE DocumentPipeline ---------------------------
(***************************************************************************)
(* The life of an uploaded document: presign, upload, confirm, processing  *)
(* by RQ workers with retries, manual reprocess and soft delete.           *)
(*                                                                         *)
(* An API request and a job attempt each own one database transaction.     *)
(* What other transactions see is only what has been committed: "doc" and  *)
(* "chunks" hold the committed rows, "txn" what each open transaction has  *)
(* read and not yet written back.  A request enqueues its job BEFORE its   *)
(* transaction commits (the session commits after the route has returned). *)
(* Isolation is READ COMMITTED: an UPDATE waits for the row lock, a SELECT *)
(* does not, and an object already loaded in a session is not refreshed by *)
(* reading it again.                                                       *)
(***************************************************************************)
EXTENDS Naturals

CONSTANTS
  Docs,              (* documents of one user                               *)
  Requests,          (* API request handlers                                *)
  Workers,           (* RQ worker processes on the processing queue         *)
  JobIds,            (* bound: RQ jobs ever enqueued                        *)
  MaxRetries,        (* queue.py's _MAX_RETRIES                             *)
  SchedulerRunning,  (* is any worker started with --with-scheduler?        *)
  FaultBudget,       (* bound: how often each fault of FaultKinds may occur *)
  None               (* "no document", "no job", "no lock holder"           *)

Txns == Requests \cup Workers

FaultKinds == {"crash",   \* a worker process dies in the middle of a job
               "abort",   \* a request's transaction never commits
               "outage",  \* Redis is unreachable when a job is enqueued
               "age",     \* a row is left untouched past the stale threshold
               "timeout"} \* a job outlives RQ's default timeout

ASSUME PipelineAssumption ==
  /\ MaxRetries \in Nat
  /\ SchedulerRunning \in BOOLEAN
  /\ FaultBudget \in [FaultKinds -> Nat]
  /\ Requests \cap Workers = {}
  /\ None \notin Docs \cup Requests \cup Workers \cup JobIds

VARIABLES
  doc,         (* committed row of each document                            *)
  object,      (* documents whose bytes have reached object storage         *)
  chunks,      (* committed chunk rows: the jobs whose chunk set is present *)
  usage,       (* times a document's size was added to storage_used_bytes   *)
  lock,        (* row lock of each document row                             *)
  txn,         (* open transaction of each request and worker               *)
  job,         (* RQ's view of each job                                     *)
  faultsLeft   (* what is left of FaultBudget                               *)

vars == <<doc, object, chunks, usage, lock, txn, job, faultsLeft>>

-------------------------------------------------------------------------------
(* Rows, transactions and jobs.                                            *)

NonTerminal == {"queued", "extracting", "chunking", "embedding"}
Statuses == NonTerminal \cup {"ready", "failed"}

Row == [status : Statuses \cup {"absent"}, confirmed : BOOLEAN,
        deleted : BOOLEAN, stale : BOOLEAN]

NoRow == [status |-> "absent", confirmed |-> FALSE,
          deleted |-> FALSE, stale |-> FALSE]

RequestPCs == {"idle", "confirm", "reprocess", "requeue", "request_commit"}
WorkerPCs == {"idle", "start", "extracting", "chunking", "embedding", "clear", "insert",
              "publish", "job_commit", "raise", "abort", "callback", "ack"}

(* "view" is the status attribute of the session's Document object, "row"  *)
(* the version this transaction has written (meaningful while it holds the *)
(* row lock), "cleared" and "stored" its pending chunk deletes and inserts.*)
Txn == [pc : RequestPCs \cup WorkerPCs, doc : Docs \cup {None},
        job : JobIds \cup {None}, view : Statuses, row : Row,
        cleared : SUBSET JobIds, stored : SUBSET JobIds, adds : {0, 1}]

Idle == [pc |-> "idle", doc |-> None, job |-> None, view |-> "queued",
         row |-> NoRow, cleared |-> {}, stored |-> {}, adds |-> 0]

JobStates == {"free", "queued", "running", "retry", "finished", "failed", "lost"}

Job == [state : JobStates, doc : Docs \cup {None}, attempts : Nat]

Begin(pc, d, j, view) ==
  [Idle EXCEPT !.pc = pc, !.doc = d, !.job = j, !.view = view]

(* A worker whose transaction is over goes on with the same job. *)
Ended(w, pc) == Begin(pc, txn[w].doc, txn[w].job, txn[w].view)

(* Transaction t moves on to state x; the others stay where they are. *)
Becomes(t, x) == txn' = [txn EXCEPT ![t] = x]

(* The row as transaction t reads it: its own version, or the committed one. *)
Seen(t) == IF lock[txn[t].doc] = t THEN txn[t].row ELSE doc[txn[t].doc]

(* The other open transactions on t's document. *)
Rivals(t) == {u \in Txns \ {t} : txn[u].doc = txn[t].doc}

Released(t) == [d \in Docs |-> IF lock[d] = t THEN None ELSE lock[d]]

Suffer(kind) ==
  /\ faultsLeft[kind] > 0
  /\ faultsLeft' = [faultsLeft EXCEPT ![kind] = @ - 1]

(* DocumentRepository.set_status followed by the flush: nothing happens to *)
(* a row that is deleted, and no UPDATE is sent (so no lock is taken and   *)
(* updated_at does not move) when the session's copy already has status s. *)
SetStatus(t, s, next) ==
  \/ /\ Seen(t).deleted \/ txn[t].view = s
     /\ Becomes(t, [txn[t] EXCEPT !.pc = next])
     /\ UNCHANGED lock
  \/ /\ ~Seen(t).deleted
     /\ txn[t].view # s
     /\ lock[txn[t].doc] \in {None, t}
     /\ lock' = [lock EXCEPT ![txn[t].doc] = t]
     /\ Becomes(t, [txn[t] EXCEPT !.pc = next, !.view = s,
                      !.row = [Seen(t) EXCEPT !.status = s, !.stale = FALSE]])

(* enqueue_document_processing: fails open when Redis is unreachable. *)
Enqueue(d) ==
  \/ /\ \E j \in JobIds :
          /\ job[j].state = "free"
          /\ job' = [job EXCEPT ![j] = [state |-> "queued", doc |-> d, attempts |-> 0]]
     /\ UNCHANGED faultsLeft
  \/ /\ Suffer("outage")
     /\ UNCHANGED job

(* COMMIT and ROLLBACK of transaction t, as the other transactions see them. *)
Install(t) ==
  LET d == txn[t].doc IN
  /\ doc' = [doc EXCEPT ![d] = Seen(t)]
  /\ chunks' = [chunks EXCEPT ![d] = (@ \ txn[t].cleared) \cup txn[t].stored]
  /\ usage' = [usage EXCEPT ![d] = @ + txn[t].adds]
  /\ lock' = Released(t)

Discard(t) ==
  /\ lock' = Released(t)
  /\ UNCHANGED <<doc, chunks, usage>>

-------------------------------------------------------------------------------
(* The API.                                                                *)

Present(d) == doc[d].status # "absent" /\ ~doc[d].deleted

(* Mutant: a status the documents table does not know. *)
PresignUpload_Uploading(d) ==
  /\ doc[d].status = "absent"
  /\ doc' = [doc EXCEPT ![d].status = "uploading"]
  /\ UNCHANGED <<object, chunks, usage, lock, txn, job, faultsLeft>>

(* presign_upload: the row is created "queued", with an empty checksum. *)
PresignUpload(d) ==
  /\ doc[d].status = "absent"
  /\ doc' = [doc EXCEPT ![d].status = "queued"]
  /\ UNCHANGED <<object, chunks, usage, lock, txn, job, faultsLeft>>

(* The client PUTs the bytes to the presigned URL. *)
PutObject(d) ==
  /\ doc[d].status # "absent"
  /\ d \notin object
  /\ object' = object \cup {d}
  /\ UNCHANGED <<doc, chunks, usage, lock, txn, job, faultsLeft>>

(* confirm_upload up to its checks; a confirmed document returns at once. *)
ConfirmRead(r, d) ==
  /\ txn[r].pc = "idle"
  /\ Present(d)
  /\ ~doc[d].confirmed
  /\ d \in object
  /\ Becomes(r, Begin("confirm", d, None, doc[d].status))
  /\ UNCHANGED <<doc, object, chunks, usage, lock, job, faultsLeft>>

(* The guarded UPDATE ... WHERE checksum_sha256 = '' matches no row: a     *)
(* concurrent request confirmed (or deleted) the document first.           *)
ConfirmLost(r) ==
  /\ txn[r].pc = "confirm"
  /\ lock[txn[r].doc] = None
  /\ doc[txn[r].doc].confirmed \/ doc[txn[r].doc].deleted
  /\ Becomes(r, Idle)
  /\ UNCHANGED <<doc, object, chunks, usage, lock, job, faultsLeft>>

(* Mutant: the UPDATE does not test checksum_sha256 = ''. *)
ConfirmWrite_Unguarded(r) ==
  LET d == txn[r].doc IN
  /\ txn[r].pc = "confirm"
  /\ lock[d] = None
  /\ ~doc[d].deleted
  /\ lock' = [lock EXCEPT ![d] = r]
  /\ Becomes(r, [txn[r] EXCEPT !.pc = "request_commit", !.adds = 1,
                   !.row = [doc[d] EXCEPT !.confirmed = TRUE, !.stale = FALSE]])
  /\ Enqueue(d)
  /\ UNCHANGED <<doc, object, chunks, usage>>

(* It matches: the size is added to the usage counter and a job enqueued. *)
ConfirmWrite(r) ==
  LET d == txn[r].doc IN
  /\ txn[r].pc = "confirm"
  /\ lock[d] = None
  /\ ~doc[d].confirmed
  /\ ~doc[d].deleted
  /\ lock' = [lock EXCEPT ![d] = r]
  /\ Becomes(r, [txn[r] EXCEPT !.pc = "request_commit", !.adds = 1,
                   !.row = [doc[d] EXCEPT !.confirmed = TRUE, !.stale = FALSE]])
  /\ Enqueue(d)
  /\ UNCHANGED <<doc, object, chunks, usage>>

(* reprocess_document: allowed on a failed or a stale non-terminal row. *)
ReprocessRead(r, d) ==
  /\ txn[r].pc = "idle"
  /\ Present(d)
  /\ \/ doc[d].status = "failed"
     \/ doc[d].status \in NonTerminal /\ doc[d].stale
  /\ Becomes(r, Begin("reprocess", d, None, doc[d].status))
  /\ UNCHANGED <<doc, object, chunks, usage, lock, job, faultsLeft>>

(* DELETE of the committed chunk rows; waits for rows another transaction  *)
(* is deleting.                                                            *)
DeleteChunks(t, next) ==
  /\ \A u \in Rivals(t) : txn[u].cleared = {}
  /\ Becomes(t, [txn[t] EXCEPT !.pc = next, !.cleared = chunks[txn[t].doc]])
  /\ UNCHANGED <<doc, object, chunks, usage, lock, job, faultsLeft>>

(* Mutant: the chunk delete is committed on its own. *)
ReprocessClear_Committed(r) ==
  /\ txn[r].pc = "reprocess"
  /\ chunks' = [chunks EXCEPT ![txn[r].doc] = {}]
  /\ Becomes(r, [txn[r] EXCEPT !.pc = "requeue"])
  /\ UNCHANGED <<doc, object, usage, lock, job, faultsLeft>>

ReprocessClear(r) ==
  /\ txn[r].pc = "reprocess"
  /\ DeleteChunks(r, "requeue")

ReprocessEnqueue(r) ==
  /\ txn[r].pc = "requeue"
  /\ ~Seen(r).deleted
  /\ SetStatus(r, "queued", "request_commit")
  /\ Enqueue(txn[r].doc)
  /\ UNCHANGED <<doc, object, chunks, usage>>

(* set_status found no row: the assertion fails and the session rolls back. *)
ReprocessGone(r) ==
  /\ txn[r].pc = "requeue"
  /\ Seen(r).deleted
  /\ Discard(r)
  /\ Becomes(r, Idle)
  /\ UNCHANGED <<object, job, faultsLeft>>

(* delete_document and bulk_action("delete"): the row stays, marked. *)
DeleteDocument(r, d) ==
  /\ txn[r].pc = "idle"
  /\ Present(d)
  /\ lock[d] = None
  /\ lock' = [lock EXCEPT ![d] = r]
  /\ Becomes(r, [Begin("request_commit", d, None, doc[d].status) EXCEPT
                   !.row = [doc[d] EXCEPT !.deleted = TRUE, !.stale = FALSE]])
  /\ UNCHANGED <<doc, object, chunks, usage, job, faultsLeft>>

CommitRequest(r) ==
  /\ txn[r].pc = "request_commit"
  /\ Install(r)
  /\ Becomes(r, Idle)
  /\ UNCHANGED <<object, job, faultsLeft>>

(* The request dies before its commit; a job it enqueued stays enqueued. *)
AbortRequest(r) ==
  /\ txn[r].pc # "idle"
  /\ Suffer("abort")
  /\ Discard(r)
  /\ Becomes(r, Idle)
  /\ UNCHANGED <<object, job>>

(* updated_at falls behind by more than the staleness threshold. *)
GrowStale(d) ==
  /\ doc[d].status \in NonTerminal
  /\ ~doc[d].stale
  /\ Suffer("age")
  /\ doc' = [doc EXCEPT ![d].stale = TRUE]
  /\ UNCHANGED <<object, chunks, usage, lock, txn, job>>

-------------------------------------------------------------------------------
(* The worker: process_document_job and process_document.                  *)

(* A worker takes a job and reads the row; a missing, deleted or ready     *)
(* document makes the job a no-op.                                         *)
TakeJob(w, j) ==
  LET d == job[j].doc IN
  /\ txn[w].pc = "idle"
  /\ job[j].state = "queued"
  /\ job' = [job EXCEPT ![j].state = "running", ![j].attempts = @ + 1]
  /\ Becomes(w, Begin(IF doc[d].deleted \/ doc[d].status = "ready" THEN "ack" ELSE "start",
                      d, j, doc[d].status))
  /\ UNCHANGED <<doc, object, chunks, usage, lock, faultsLeft>>

At(w, pc) ==
  /\ txn[w].pc = pc
  /\ UNCHANGED <<doc, object, chunks, usage, job, faultsLeft>>

Goto(w, pc) ==
  /\ Becomes(w, [txn[w] EXCEPT !.pc = pc])
  /\ UNCHANGED lock

StartExtracting(w) == At(w, "start") /\ SetStatus(w, "extracting", "extracting")

(* read_object_bytes, sniff and parse: success, a permanent parse error,   *)
(* or a transient error (always, when the bytes are not there).            *)
Extract(w) ==
  /\ At(w, "extracting")
  /\ \/ /\ txn[w].doc \in object
        /\ \/ SetStatus(w, "chunking", "chunking")
           \/ SetStatus(w, "failed", "job_commit")
     \/ Goto(w, "raise")

(* Chunking yields chunks, or none: EmptyDocumentError. *)
Chunk(w) ==
  /\ At(w, "chunking")
  /\ \/ SetStatus(w, "embedding", "embedding")
     \/ SetStatus(w, "failed", "job_commit")

Embed(w) == At(w, "embedding") /\ (Goto(w, "clear") \/ Goto(w, "raise"))

ClearChunks(w) ==
  /\ txn[w].pc = "clear"
  /\ DeleteChunks(w, "insert")

(* Mutant: the chunks are deleted after they are inserted. *)
InsertChunks_ThenClear(w) ==
  /\ At(w, "insert")
  /\ Becomes(w, [txn[w] EXCEPT !.pc = "publish"])
  /\ UNCHANGED lock

(* Mutant: no unique index on (document_id, chunk_index). *)
InsertChunks_NoIndex(w) ==
  /\ At(w, "insert")
  /\ Becomes(w, [txn[w] EXCEPT !.pc = "publish", !.stored = {txn[w].job}])
  /\ UNCHANGED lock

(* bulk_create waits for rivals that hold pending chunk rows, then meets   *)
(* UNIQUE (document_id, chunk_index): rows committed since its own DELETE  *)
(* raise an IntegrityError that rolls the transaction back.                *)
InsertChunks(w) ==
  /\ At(w, "insert")
  /\ \A u \in Rivals(w) : txn[u].cleared = {} /\ txn[u].stored = {}
  /\ IF chunks[txn[w].doc] \subseteq txn[w].cleared
     THEN /\ Becomes(w, [txn[w] EXCEPT !.pc = "publish", !.stored = {txn[w].job}])
          /\ UNCHANGED lock
     ELSE Goto(w, "abort")

Publish(w) == At(w, "publish") /\ SetStatus(w, "ready", "job_commit")

(* Mutant: the exception is logged and not re-raised. *)
CommitJob_Swallow(w) ==
  /\ txn[w].pc \in {"job_commit", "raise"}
  /\ Install(w)
  /\ Becomes(w, Ended(w, "ack"))
  /\ UNCHANGED <<object, job, faultsLeft>>

(* _process_document_async commits on success, and on an exception commits *)
(* what was flushed before it lets RQ see the exception.                   *)
CommitJob(w) ==
  /\ txn[w].pc \in {"job_commit", "raise"}
  /\ Install(w)
  /\ Becomes(w, Ended(w, IF txn[w].pc = "raise" THEN "callback" ELSE "ack"))
  /\ UNCHANGED <<object, job, faultsLeft>>

RollBackJob(w) ==
  /\ txn[w].pc = "abort"
  /\ Discard(w)
  /\ Becomes(w, Ended(w, "callback"))
  /\ UNCHANGED <<object, job, faultsLeft>>

RetriesRemain(j) == job[j].attempts <= MaxRetries

(* on_processing_failure does nothing while job.should_retry; RQ then      *)
(* schedules the next attempt.                                             *)
RetryLater(w) ==
  LET j == txn[w].job IN
  /\ txn[w].pc = "callback"
  /\ RetriesRemain(j)
  /\ job' = [job EXCEPT ![j].state = "retry"]
  /\ Becomes(w, Idle)
  /\ UNCHANGED <<doc, object, chunks, usage, lock, faultsLeft>>

(* Mutant: on_processing_failure does not look at job.should_retry. *)
GiveUp_EveryAttempt(w) ==
  LET d == txn[w].doc
      j == txn[w].job
  IN
  /\ txn[w].pc = "callback"
  /\ ~doc[d].deleted
  /\ lock[d] = None
  /\ doc' = [doc EXCEPT ![d].status = "failed", ![d].stale = FALSE]
  /\ job' = [job EXCEPT ![j].state = IF RetriesRemain(j) THEN "retry" ELSE "failed"]
  /\ Becomes(w, Idle)
  /\ UNCHANGED <<object, chunks, usage, lock, faultsLeft>>

(* Mutant: the failure callback is not registered. *)
GiveUp_Silently(w) ==
  /\ txn[w].pc = "callback"
  /\ ~RetriesRemain(txn[w].job)
  /\ job' = [job EXCEPT ![txn[w].job].state = "failed"]
  /\ Becomes(w, Idle)
  /\ UNCHANGED <<doc, object, chunks, usage, lock, faultsLeft>>

(* No attempts remain: a fresh session marks the row failed, whatever its  *)
(* status has become, unless it is deleted or already says so.             *)
GiveUp(w) ==
  LET d == txn[w].doc
      j == txn[w].job
  IN
  /\ txn[w].pc = "callback"
  /\ ~RetriesRemain(j)
  /\ \/ /\ doc[d].deleted \/ doc[d].status = "failed"
        /\ UNCHANGED doc
     \/ /\ ~doc[d].deleted
        /\ lock[d] = None
        /\ doc' = [doc EXCEPT ![d].status = "failed", ![d].stale = FALSE]
  /\ job' = [job EXCEPT ![j].state = "failed"]
  /\ Becomes(w, Idle)
  /\ UNCHANGED <<object, chunks, usage, lock, faultsLeft>>

FinishJob(w) ==
  /\ txn[w].pc = "ack"
  /\ job' = [job EXCEPT ![txn[w].job].state = "finished"]
  /\ Becomes(w, Idle)
  /\ UNCHANGED <<doc, object, chunks, usage, lock, faultsLeft>>

(* RQ moves a scheduled retry back to the queue, if a scheduler runs. *)
RetryDue(j) ==
  /\ SchedulerRunning
  /\ job[j].state = "retry"
  /\ job' = [job EXCEPT ![j].state = "queued"]
  /\ UNCHANGED <<doc, object, chunks, usage, lock, txn, faultsLeft>>

(* The worker process dies and Postgres rolls back.  RQ loses the job, or  *)
(* finds it abandoned and runs its failure callback from another process.  *)
CrashWorker(w) ==
  /\ txn[w].pc # "idle"
  /\ Suffer("crash")
  /\ Discard(w)
  /\ \/ /\ job' = [job EXCEPT ![txn[w].job].state = "lost"]
        /\ Becomes(w, Idle)
     \/ /\ Becomes(w, Ended(w, "callback"))
        /\ UNCHANGED job
  /\ UNCHANGED object

(* RQ's alarm raises JobTimeoutException wherever the attempt is: as an    *)
(* exception of process_document, as a cancellation of the event loop, or  *)
(* after the commit, with the job's work already published.                *)
TimeOutJob(w) ==
  /\ txn[w].pc \notin {"idle", "abort", "callback"}
  /\ Suffer("timeout")
  /\ \E pc \in IF txn[w].pc = "ack" THEN {"callback"} ELSE {"raise", "abort"} : Goto(w, pc)
  /\ UNCHANGED <<doc, object, chunks, usage, job>>

(* A reprocess that has deleted chunk rows waits for the document row, the *)
(* worker that holds it waits for the chunk rows: Postgres aborts one.     *)
BreakDeadlock(r, w) ==
  LET d == txn[r].doc IN
  /\ txn[r].pc = "requeue"
  /\ txn[r].view # "queued"
  /\ txn[r].cleared # {}
  /\ lock[d] = w
  /\ txn[w].pc \in {"clear", "insert"}
  /\ \/ /\ Discard(r)
        /\ Becomes(r, Idle)
     \/ /\ Discard(w)
        /\ Becomes(w, Ended(w, "callback"))
  /\ UNCHANGED <<object, job, faultsLeft>>

-------------------------------------------------------------------------------

Init ==
  /\ doc = [d \in Docs |-> NoRow]
  /\ object = {}
  /\ chunks = [d \in Docs |-> {}]
  /\ usage = [d \in Docs |-> 0]
  /\ lock = [d \in Docs |-> None]
  /\ txn = [t \in Txns |-> Idle]
  /\ job = [j \in JobIds |-> [state |-> "free", doc |-> None, attempts |-> 0]]
  /\ faultsLeft = FaultBudget

ClientStep(d) == PresignUpload(d) \/ PutObject(d) \/ GrowStale(d)

RequestStep(r) ==
  \/ \E d \in Docs : ConfirmRead(r, d) \/ ReprocessRead(r, d) \/ DeleteDocument(r, d)
  \/ ConfirmLost(r) \/ ConfirmWrite(r)
  \/ ReprocessClear(r) \/ ReprocessEnqueue(r) \/ ReprocessGone(r)
  \/ CommitRequest(r) \/ AbortRequest(r)

(* What a live worker does; crashes, timeouts and RetryDue are not its doing. *)
WorkerStep(w) ==
  \/ \E j \in JobIds : TakeJob(w, j)
  \/ StartExtracting(w) \/ Extract(w) \/ Chunk(w) \/ Embed(w)
  \/ ClearChunks(w) \/ InsertChunks(w) \/ Publish(w)
  \/ CommitJob(w) \/ RollBackJob(w) \/ RetryLater(w) \/ GiveUp(w) \/ FinishJob(w)

Next ==
  \/ \E d \in Docs : ClientStep(d)
  \/ \E r \in Requests : RequestStep(r)
  \/ \E w \in Workers : WorkerStep(w) \/ CrashWorker(w) \/ TimeOutJob(w)
  \/ \E j \in JobIds : RetryDue(j)
  \/ \E r \in Requests, w \in Workers : BreakDeadlock(r, w)

Spec == Init /\ [][Next]_vars

(* The steps of a request that has started, up to its commit.              *)
GoOn(r) ==
  \/ ConfirmLost(r) \/ ConfirmWrite(r) \/ ReprocessClear(r) \/ ReprocessEnqueue(r) \/ ReprocessGone(r)
  \/ CommitRequest(r)

(* A worker that is up keeps working, RQ's scheduler keeps polling, and a  *)
(* request that has started runs to its commit.  Nothing obliges a client  *)
(* to send a request.                                                      *)
Fairness ==
  /\ \A w \in Workers : WF_vars(WorkerStep(w))
  /\ \A j \in JobIds : WF_vars(RetryDue(j))
  /\ \A r \in Requests : WF_vars(GoOn(r))

FairSpec == Spec /\ Fairness

-------------------------------------------------------------------------------
(* Properties.                                                             *)

TypeOK ==
  /\ doc \in [Docs -> Row]
  /\ object \subseteq Docs
  /\ chunks \in [Docs -> SUBSET JobIds]
  /\ usage \in [Docs -> Nat]
  /\ lock \in [Docs -> Txns \cup {None}]
  /\ txn \in [Txns -> Txn]
  /\ job \in [JobIds -> Job]
  /\ faultsLeft \in [FaultKinds -> Nat]

(* The chunks of a document all come from one processing run: neither      *)
(* retries nor concurrent jobs ever leave two generations side by side     *)
(* (process_document's "a retry never appends duplicate/inconsistent       *)
(* rows"; its DELETE and the unique index on (document_id, chunk_index)).  *)
OneGeneration == \A d \in Docs : \A i, j \in chunks[d] : i = j

(* However confirms race, fail or are repeated, a document's size is added *)
(* to the user's usage exactly once when it is confirmed, and not before   *)
(* (confirm_if_unconfirmed's compare-and-swap).                            *)
CountedOnce == \A d \in Docs : usage[d] = IF doc[d].confirmed THEN 1 ELSE 0

(* A document that readers see as ready has its chunks: chunks and status  *)
(* are published, and discarded by reprocess_document, together.  (Not the *)
(* case of a stale document that is reprocessed.)                          *)
ReadyHasChunks ==
  \A d \in Docs : Present(d) /\ doc[d].status = "ready" => chunks[d] # {}

(* The same, as long as no row has grown stale: no crash, timeout, lost    *)
(* commit or Redis outage, wherever it strikes, publishes one without the  *)
(* other.                                                                  *)
FreshReadyHasChunks == faultsLeft["age"] = FaultBudget["age"] => ReadyHasChunks

Live(j) == job[j].state \in {"queued", "running", "retry"}

(* A confirmed document that is still being processed has a job that will  *)
(* move it: the enqueue that precedes the commit of confirm_upload and     *)
(* reprocess_document is not consumed to no effect.  (So it is while no    *)
(* reprocess requeues a document that has become ready since it was        *)
(* admitted, see NotOvertaken, and no crash, timeout or outage loses the   *)
(* job; otherwise it is not.)                                              *)
NoStrandedDocument ==
  \A d \in Docs :
    Present(d) /\ doc[d].confirmed /\ doc[d].status \in NonTerminal
      => \E j \in JobIds : job[j].doc = d /\ Live(j)

(* A job that may still move its document: it waits in a queue, or its     *)
(* worker has more to do than to acknowledge it.                           *)
MayMove(j) ==
  \/ job[j].state \in {"queued", "retry"}
  \/ \E w \in Workers : txn[w].job = j /\ txn[w].pc # "ack"

(* A confirmed document that waits for a job, and no job will come.        *)
Stranded(d) ==
  /\ Present(d) /\ doc[d].confirmed /\ doc[d].status \in NonTerminal
  /\ \A j \in JobIds : job[j].doc = d => ~MayMove(j)

(* No worker has died, no job outlived its timeout (it may while it waits  *)
(* for the row lock of a request), and Redis has taken every job.          *)
Undisturbed == \A k \in {"crash", "outage", "timeout"} : faultsLeft[k] = FaultBudget[k]

(* However many requests overlap, die or meet stale rows, and however many *)
(* jobs run one after the other or at once: as long as no job was lost,    *)
(* the only step that leaves a document without a job that will move it is *)
(* the commit of a reprocess that puts it back to queued when it has       *)
(* become ready since the reprocess was admitted (the job that the         *)
(* reprocess enqueued before that commit has found it ready).              *)
OnlyOvertakingStrands ==
  [][\A d \in Docs :
       Undisturbed' /\ ~Stranded(d) /\ Stranded(d)'
         => \E r \in Requests :
              CommitRequest(r) /\ txn[r].doc = d /\ doc[d].status = "ready"]_vars

(* A document is never flashed to failed while one of its jobs still has   *)
(* an attempt coming (on_processing_failure's should_retry test).          *)
NoFlashToFailed ==
  [][\A d \in Docs :
       doc[d].status # "failed" /\ doc'[d].status = "failed"
         => \A j \in JobIds : job[j].doc = d => job'[j].state # "retry"]_vars

(* Without faults, every confirmed document ends ready or failed, whatever *)
(* transient errors its attempts meet, unless it is deleted first.         *)
EventuallySettled ==
  \A d \in Docs :
    doc[d].confirmed
      ~> (doc[d].deleted \/ doc[d].status \in {"ready", "failed"})

(* What readers of the documents table may rely on.                        *)
Phase(d) ==
  CASE doc[d].deleted -> "deleted"
    [] ~doc[d].deleted /\ doc[d].status \in NonTerminal -> "pending"
    [] OTHER -> doc[d].status

Lifecycle == INSTANCE DocumentLifecycle
  WITH phase <- [d \in Docs |-> Phase(d)],
       indexed <- [d \in Docs |-> chunks[d] # {}]

(* Each job of a document is worked off once, and for what is known of the *)
(* document: a reprocess requeues only what it has found failed and still  *)
(* is; what enqueues a job is committed; and no crash or timeout comes     *)
(* between the commit of a job's work and its acknowledgement, or makes    *)
(* the worker commit half of that work.  Whatever else the code lets       *)
(* happen may happen.  (A hypothesis, not a property: the code enforces    *)
(* none of the four.)                                                      *)
WorkedOnce ==
  /\ \A r \in Requests :
       /\ ReprocessEnqueue(r) =>
            txn[r].view = "failed" /\ doc[txn[r].doc].status = "failed"
       /\ AbortRequest(r) => txn[r].pc # "request_commit" \/ txn[r].row.deleted
  /\ \A w \in Workers :
       /\ CrashWorker(w) \/ TimeOutJob(w) => txn[w].pc # "ack"
       /\ TimeOutJob(w) /\ txn'[w].pc = "raise" => txn[w].pc \notin {"publish", "job_commit"}

(* A weaker hypothesis: no reprocess requeues a document that has become   *)
(* ready since the reprocess was admitted.  Requests may overlap, die and  *)
(* be admitted on stale rows.                                              *)
NotOvertaken ==
  \A r \in Requests :
    ReprocessEnqueue(r) => txn[r].view = "queued" \/ doc[txn[r].doc].status # "ready"

(* With each job worked off once, the pipeline implements the abstract     *)
(* lifecycle: whatever requests, retries, crashes and outages do, readers  *)
(* see documents move from phase to phase, with or without their chunks,   *)
(* only as DocumentLifecycle says.                                         *)
ImplementsLifecycle == Lifecycle!Spec

(* Without that hypothesis: whatever requests and jobs overtake each other *)
(* and whatever faults strike, a document becomes ready only together with *)
(* chunks (also when the job's work is cut off half way, or its last       *)
(* callback comes after another job's success), and it leaves the deleted  *)
(* ones never.                                                             *)
ImplementsDisturbedLifecycle == Lifecycle!DisturbedSpec
===============================================================================

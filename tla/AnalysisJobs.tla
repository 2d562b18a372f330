----------------------------- MODULE AnalysisJobs -----------------------------
(***************************************************************************)
(* Extractions, summaries and comparisons: a request inserts a row         *)
(* "processing" and enqueues a job, the job runs a LangGraph graph and     *)
(* writes the outcome, and the user may correct an extraction's values.    *)
(*                                                                         *)
(* The three kinds share one shape (service, repository, worker) and have  *)
(* one job per row, so the job and the worker that runs it are named by    *)
(* the row.  Transactions are those of DocumentPipeline: what others see   *)
(* is what has been committed, the job is enqueued before the insert is    *)
(* committed, a session keeps the row as it first loaded it, and a flush   *)
(* sends only the columns that differ from what was loaded.                *)
(***************************************************************************)
EXTENDS Naturals

CONSTANTS
  Analyses,     (* rows of extractions, document_summaries and comparisons *)
  Kind,         (* the kind of each analysis                               *)
  Corrections,  (* PATCH requests, each correcting a field of its own      *)
  MaxRetries,   (* queue.py's _MAX_RETRIES                                 *)
  FaultBudget,  (* bound: how often each fault of FaultKinds may occur     *)
  None          (* "no row", "no lock holder"                              *)

FaultKinds == {"crash",   \* a worker process dies in the middle of a job
               "abort",   \* a request's transaction never commits
               "outage",  \* Redis is unreachable when a job is enqueued
               "timeout"} \* a job outlives RQ's default timeout

Kinds == {"extraction", "summary", "comparison"}

ASSUME AnalysisAssumption ==
  /\ Kind \in [Analyses -> Kinds]
  /\ MaxRetries \in Nat
  /\ FaultBudget \in [FaultKinds -> Nat]
  /\ None \notin Analyses \cup Corrections
  /\ "model" \notin Corrections
  /\ Analyses \cap Corrections = {}

VARIABLES
  row,         (* committed row of each analysis                           *)
  create,      (* the POST request of each analysis                        *)
  job,         (* RQ's view of each analysis' job                          *)
  run,         (* the worker that runs the job, and its session            *)
  patch,       (* the PATCH request of each correction, and its session    *)
  lock,        (* row lock of each row: held by the job's run or a patch   *)
  faultsLeft   (* what is left of FaultBudget                              *)

vars == <<row, create, job, run, patch, lock, faultsLeft>>

-------------------------------------------------------------------------------
(* A result holds the model's output, user corrections, both or neither.   *)

Terminal == {"completed", "failed"}

Row == [status : {"absent", "processing"} \cup Terminal,
        result : SUBSET ({"model"} \cup Corrections)]

NoRow == [status |-> "absent", result |-> {}]

RunPCs == {"idle", "graph", "check", "store", "commit", "raise", "abort", "ack",
           "callback", "mark"}

(* "view" is the session's row object, "written" the version it has        *)
(* flushed, "target" the outcome set_result is called with, "rejected" the *)
(* graph's retry_count.                                                    *)
Run == [pc : RunPCs, view : Row, written : Row, target : Row, rejected : Nat]

IdleRun == [pc |-> "idle", view |-> NoRow, written |-> NoRow, target |-> NoRow,
            rejected |-> 0]

Patch == [pc : {"idle", "read", "written", "done"}, of : Analyses \cup {None},
          view : Row, written : Row]

NewPatch == [pc |-> "idle", of |-> None, view |-> NoRow, written |-> NoRow]

Job == [state : {"none", "queued", "running", "retry", "finished", "failed", "lost"},
        attempts : Nat]

Outcome(status) ==
  [status |-> status, result |-> IF status = "completed" THEN {"model"} ELSE {}]

(* What a flush makes of the stored row r: columns that the session has    *)
(* not changed since it loaded "view" are not part of the UPDATE.          *)
Flushed(r, view, new) ==
  [status |-> IF new.status = view.status THEN r.status ELSE new.status,
   result |-> IF new.result = view.result THEN r.result ELSE new.result]

Suffer(kind) ==
  /\ faultsLeft[kind] > 0
  /\ faultsLeft' = [faultsLeft EXCEPT ![kind] = @ - 1]

-------------------------------------------------------------------------------
(* The API.                                                                *)

(* create_extraction, create_summary, create_comparison (of documents that *)
(* are ready: others are refused): the row is inserted, not yet committed, *)
(* and its job enqueued, unless Redis is down (fail open).                 *)
CreateAnalysis(a) ==
  /\ create[a] = "none"
  /\ create' = [create EXCEPT ![a] = "open"]
  /\ \/ /\ job' = [job EXCEPT ![a].state = "queued"]
        /\ UNCHANGED faultsLeft
     \/ /\ Suffer("outage")
        /\ UNCHANGED job
  /\ UNCHANGED <<row, run, patch, lock>>

(* Mutant: a status that the table's CHECK constraint does not know. *)
CommitCreate_Queued(a) ==
  /\ create[a] = "open"
  /\ create' = [create EXCEPT ![a] = "done"]
  /\ row' = [row EXCEPT ![a].status = "queued"]
  /\ UNCHANGED <<job, run, patch, lock, faultsLeft>>

CommitCreate(a) ==
  /\ create[a] = "open"
  /\ create' = [create EXCEPT ![a] = "done"]
  /\ row' = [row EXCEPT ![a].status = "processing"]
  /\ UNCHANGED <<job, run, patch, lock, faultsLeft>>

AbortCreate(a) ==
  /\ create[a] = "open"
  /\ Suffer("abort")
  /\ create' = [create EXCEPT ![a] = "done"]
  /\ UNCHANGED <<row, job, run, patch, lock>>

(* apply_corrections reads the row, in whatever status, ...                *)
ReadForPatch(c, a) ==
  /\ patch[c].pc = "idle"
  /\ Kind[a] = "extraction"
  /\ row[a].status # "absent"
  /\ patch' = [patch EXCEPT ![c] = [NewPatch EXCEPT !.pc = "read", !.of = a, !.view = row[a]]]
  /\ UNCHANGED <<row, create, job, run, lock, faultsLeft>>

(* Mutant: the status read is written back with the result. *)
WritePatch_WholeRow(c) ==
  LET a == patch[c].of IN
  /\ patch[c].pc = "read"
  /\ lock[a] = None
  /\ lock' = [lock EXCEPT ![a] = c]
  /\ patch' = [patch EXCEPT ![c].pc = "written",
                 ![c].written = [patch[c].view EXCEPT !.result = @ \cup {c}]]
  /\ UNCHANGED <<row, create, job, run, faultsLeft>>

(* ... and writes back the list it read, with the corrected field; the     *)
(* status it passes to set_result is the one it has loaded.                *)
WritePatch(c) ==
  LET a == patch[c].of
      new == [patch[c].view EXCEPT !.result = @ \cup {c}]
  IN
  /\ patch[c].pc = "read"
  /\ lock[a] = None
  /\ lock' = [lock EXCEPT ![a] = c]
  /\ patch' = [patch EXCEPT ![c].pc = "written",
                            ![c].written = Flushed(row[a], patch[c].view, new)]
  /\ UNCHANGED <<row, create, job, run, faultsLeft>>

CommitPatch(c) ==
  LET a == patch[c].of IN
  /\ patch[c].pc = "written"
  /\ row' = [row EXCEPT ![a] = patch[c].written]
  /\ lock' = [lock EXCEPT ![a] = None]
  /\ patch' = [patch EXCEPT ![c].pc = "done"]
  /\ UNCHANGED <<create, job, run, faultsLeft>>

-------------------------------------------------------------------------------
(* The worker: run_*_job, run_extraction, run_summary and run_comparison.  *)

To(a, pc) == run' = [run EXCEPT ![a].pc = pc]

(* A worker takes the job and loads the row; a row that it cannot see, or  *)
(* that is no longer processing, makes the job a no-op.                    *)
TakeJob(a) ==
  /\ job[a].state = "queued"
  /\ job' = [job EXCEPT ![a] = [state |-> "running", attempts |-> @.attempts + 1]]
  /\ run' = [run EXCEPT ![a] =
               [IdleRun EXCEPT !.pc = IF row[a].status = "processing" THEN "graph" ELSE "ack",
                               !.view = row[a]]]
  /\ UNCHANGED <<row, create, patch, lock, faultsLeft>>

(* Rejected drafts that the graph redoes before it gives up.               *)
DraftRetries(kind) ==
  CASE kind = "extraction" -> 1    \* MAX_STRUCTURAL_RETRIES
    [] kind = "summary" -> 2       \* MAX_QUALITY_RETRIES
    [] kind = "comparison" -> 0    \* documents without text: no second try

Decide(a, status) ==
  run' = [run EXCEPT ![a].pc = "store", ![a].target = Outcome(status)]

(* The generating node of the graph; a provider's error escapes from it.   *)
DraftOutput(a) ==
  /\ run[a].pc = "graph"
  /\ To(a, "check") \/ To(a, "raise")
  /\ UNCHANGED <<row, create, job, patch, lock, faultsLeft>>

(* Mutant: retry_count is not incremented. *)
RouteDraft_Uncounted(a) ==
  /\ run[a].pc = "check"
  /\ Decide(a, "completed") \/ To(a, "graph") \/ To(a, "raise")
  /\ UNCHANGED <<row, create, job, patch, lock, faultsLeft>>

(* The checking node and its router: the draft is accepted, or rejected (a *)
(* structured output that does not parse, a summary that fails the quality *)
(* check) and redone, or rejected for good.                                *)
RouteDraft(a) ==
  LET rejected == run[a].rejected + 1 IN
  /\ run[a].pc = "check"
  /\ \/ Decide(a, "completed")
     \/ /\ rejected <= DraftRetries(Kind[a])
        /\ run' = [run EXCEPT ![a].pc = "graph", ![a].rejected = rejected]
     \/ /\ rejected > DraftRetries(Kind[a])
        /\ Decide(a, "failed")
     \/ To(a, "raise")
  /\ UNCHANGED <<row, create, job, patch, lock, faultsLeft>>

(* set_result and its flush; the status always changes, from "processing". *)
StoreOutcome(a) ==
  /\ run[a].pc = "store"
  /\ lock[a] = None
  /\ lock' = [lock EXCEPT ![a] = a]
  /\ run' = [run EXCEPT ![a].pc = "commit",
                        ![a].written = Flushed(row[a], run[a].view, run[a].target)]
  /\ UNCHANGED <<row, create, job, patch, faultsLeft>>

(* The end of the session; only the holder of the row lock has flushed.    *)
Install(a) ==
  /\ row' = [row EXCEPT ![a] = IF lock[a] = a THEN run[a].written ELSE @]
  /\ lock' = [lock EXCEPT ![a] = IF @ = a THEN None ELSE @]

Discard(a) ==
  /\ lock' = [lock EXCEPT ![a] = IF @ = a THEN None ELSE @]
  /\ UNCHANGED row

(* On success, and before an exception is re-raised, the session commits   *)
(* what has been flushed.                                                  *)
CommitRun(a) ==
  /\ run[a].pc \in {"commit", "raise"}
  /\ Install(a)
  /\ To(a, IF run[a].pc = "raise" THEN "callback" ELSE "ack")
  /\ UNCHANGED <<create, job, patch, faultsLeft>>

RollBackRun(a) ==
  /\ run[a].pc = "abort"
  /\ Discard(a)
  /\ To(a, "callback")
  /\ UNCHANGED <<create, job, patch, faultsLeft>>

RetriesRemain(a) == job[a].attempts <= MaxRetries

Leave(a, state) ==
  /\ job' = [job EXCEPT ![a].state = state]
  /\ run' = [run EXCEPT ![a] = IdleRun]

RetryLater(a) ==
  /\ run[a].pc = "callback"
  /\ RetriesRemain(a)
  /\ Leave(a, "retry")
  /\ UNCHANGED <<row, create, patch, lock, faultsLeft>>

(* on_*_failure without retries left: a fresh session loads the row, ...   *)
LoadForFailure(a) ==
  /\ run[a].pc = "callback"
  /\ ~RetriesRemain(a)
  /\ run' = [run EXCEPT ![a] = [IdleRun EXCEPT !.pc = "mark", !.view = row[a]]]
  /\ UNCHANGED <<row, create, job, patch, lock, faultsLeft>>

(* Mutant: the result is left as it is. *)
MarkFailed_KeepsResult(a) ==
  /\ run[a].pc = "mark"
  /\ lock[a] = None
  /\ row' = [row EXCEPT ![a] = IF @.status = "absent" THEN @ ELSE [@ EXCEPT !.status = "failed"]]
  /\ Leave(a, "failed")
  /\ UNCHANGED <<create, patch, lock, faultsLeft>>

(* ... and marks it failed with an empty result, whatever it has become    *)
(* (_mark_failed_after_retries_async: set_result and its commit).          *)
MarkFailed(a) ==
  LET view == run[a].view IN
  /\ run[a].pc = "mark"
  /\ \/ /\ view.status = "absent" \/ view = Outcome("failed")
        /\ UNCHANGED row
     \/ /\ view.status # "absent"
        /\ view # Outcome("failed")
        /\ lock[a] = None
        /\ row' = [row EXCEPT ![a] = Flushed(@, view, Outcome("failed"))]
  /\ Leave(a, "failed")
  /\ UNCHANGED <<create, patch, lock, faultsLeft>>

FinishJob(a) ==
  /\ run[a].pc = "ack"
  /\ Leave(a, "finished")
  /\ UNCHANGED <<row, create, patch, lock, faultsLeft>>

(* RQ's scheduler moves a retry back to its queue. *)
RetryDue(a) ==
  /\ job[a].state = "retry"
  /\ job' = [job EXCEPT ![a].state = "queued"]
  /\ UNCHANGED <<row, create, run, patch, lock, faultsLeft>>

(* The worker process dies and Postgres rolls back.  RQ loses the job, or  *)
(* finds it abandoned and runs its failure callback from another process.  *)
CrashWorker(a) ==
  /\ run[a].pc # "idle"
  /\ Suffer("crash")
  /\ Discard(a)
  /\ \/ Leave(a, "lost")
     \/ To(a, "callback") /\ UNCHANGED job
  /\ UNCHANGED <<create, patch>>

(* RQ's alarm raises JobTimeoutException wherever the attempt is: as an    *)
(* exception of the service, as a cancellation of the event loop, or after *)
(* the commit, with the outcome already published.                         *)
TimeOutJob(a) ==
  /\ run[a].pc \in {"graph", "check", "store", "commit", "raise", "ack"}
  /\ Suffer("timeout")
  /\ \E pc \in IF run[a].pc = "ack" THEN {"callback"} ELSE {"raise", "abort"} : To(a, pc)
  /\ UNCHANGED <<row, create, job, patch, lock>>

-------------------------------------------------------------------------------

Init ==
  /\ row = [a \in Analyses |-> NoRow]
  /\ create = [a \in Analyses |-> "none"]
  /\ job = [a \in Analyses |-> [state |-> "none", attempts |-> 0]]
  /\ run = [a \in Analyses |-> IdleRun]
  /\ patch = [c \in Corrections |-> NewPatch]
  /\ lock = [a \in Analyses |-> None]
  /\ faultsLeft = FaultBudget

CreateStep(a) == CreateAnalysis(a) \/ CommitCreate(a) \/ AbortCreate(a)

PatchStep(c) ==
  \/ \E a \in Analyses : ReadForPatch(c, a)
  \/ WritePatch(c) \/ CommitPatch(c)

(* What a live worker does. *)
WorkerStep(a) ==
  \/ TakeJob(a) \/ DraftOutput(a) \/ RouteDraft(a) \/ StoreOutcome(a)
  \/ CommitRun(a) \/ RollBackRun(a)
  \/ RetryLater(a) \/ LoadForFailure(a) \/ MarkFailed(a) \/ FinishJob(a)

Next ==
  \/ \E a \in Analyses :
       CreateStep(a) \/ WorkerStep(a) \/ RetryDue(a) \/ CrashWorker(a) \/ TimeOutJob(a)
  \/ \E c \in Corrections : PatchStep(c)

Spec == Init /\ [][Next]_vars

(* Live workers keep working, RQ's scheduler keeps polling and a request   *)
(* that has begun runs to its commit.                                      *)
Fairness ==
  /\ \A a \in Analyses : /\ WF_vars(WorkerStep(a))
                         /\ WF_vars(RetryDue(a))
                         /\ WF_vars(CommitCreate(a))
  /\ \A c \in Corrections : WF_vars(WritePatch(c) \/ CommitPatch(c))

FairSpec == Spec /\ Fairness

-------------------------------------------------------------------------------
(* Properties.                                                             *)

TypeOK ==
  /\ row \in [Analyses -> Row]
  /\ create \in [Analyses -> {"none", "open", "done"}]
  /\ job \in [Analyses -> Job]
  /\ run \in [Analyses -> Run]
  /\ patch \in [Corrections -> Patch]
  /\ lock \in [Analyses -> Analyses \cup Corrections \cup {None}]
  /\ faultsLeft \in [FaultKinds -> Nat]

(* An analysis that has an outcome is never processing again, and one that *)
(* has failed stays failed: a correction that began before the outcome was *)
(* stored does not bring the old status back (set_result's flush, and the  *)
(* no-op test of the run_* methods).                                       *)
OutcomeIsFinal ==
  [][\A a \in Analyses :
       /\ row[a].status \in Terminal => row'[a].status \in Terminal
       /\ row[a].status = "failed" => row'[a].status = "failed"]_row

(* A summary or a comparison shows the model's output exactly when it is   *)
(* completed, whatever attempt, timeout or failure callback wrote last.    *)
OutputIffCompleted ==
  \A a \in Analyses :
    Kind[a] # "extraction"
      => (row[a].status = "completed" <=> row[a].result = {"model"})

(* Once a worker has found the row, the analysis gets an outcome: drafts   *)
(* are not redone for ever, and attempts that fail or time out are retried *)
(* or end in failure.  (A job that is lost with its worker is the          *)
(* exception; a job that runs before its row is committed finds no row.)   *)
FoundIsSettled ==
  \A a \in Analyses :
    run[a].pc = "graph" ~> (row[a].status \in Terminal \/ job[a].state = "lost")
===============================================================================

-------------------------- MODULE DocumentLifecycle --------------------------
(***************************************************************************)
(* What the document pipeline promises the readers of a document (list,    *)
(* content viewer, chat, analyses).                                        *)
(*                                                                         *)
(* Spec is the promise for documents whose jobs are each worked off once:  *)
(* a document is pending until it is ready or failed, it becomes ready     *)
(* together with its chunks and stays ready, with them, until it is        *)
(* deleted; only a document that has failed goes back to pending, without  *)
(* chunks.                                                                 *)
(*                                                                         *)
(* DisturbedSpec is what is left of it when jobs and requests of one       *)
(* document overtake each other: a document still becomes ready only       *)
(* together with chunks, and what is deleted stays deleted, but a ready    *)
(* document can lose its chunks, its status or both.                       *)
(***************************************************************************)
CONSTANT Docs

VARIABLES
  phase,    (* absent, pending, ready, failed or deleted *)
  indexed   (* does the document have chunks?            *)

Init ==
  /\ phase = [d \in Docs |-> "absent"]
  /\ indexed = [d \in Docs |-> FALSE]

Move(d, from, to) ==
  /\ phase[d] \in from
  /\ phase' = [phase EXCEPT ![d] = to]

Create(d) == Move(d, {"absent"}, "pending") /\ UNCHANGED indexed

Publish(d) ==
  /\ Move(d, {"pending"}, "ready")
  /\ indexed' = [indexed EXCEPT ![d] = TRUE]

Reject(d) == Move(d, {"pending"}, "failed") /\ UNCHANGED indexed

(* Mutant: a document that is ready can be reprocessed too. *)
Requeue_Ready(d) ==
  /\ Move(d, {"failed", "ready"}, "pending")
  /\ indexed' = [indexed EXCEPT ![d] = FALSE]

(* A failed document is reprocessed.  (What a reprocess that was admitted  *)
(* on a stale, non-terminal row may do is Discard and Rework, below.)      *)
Requeue(d) ==
  /\ Move(d, {"failed"}, "pending")
  /\ indexed' = [indexed EXCEPT ![d] = FALSE]

Remove(d) == Move(d, {"pending", "ready", "failed"}, "deleted") /\ UNCHANGED indexed

(* A job that was under way when its document was deleted still stores chunks. *)
StoreLate(d) ==
  /\ phase[d] = "deleted"
  /\ ~indexed[d]
  /\ indexed' = [indexed EXCEPT ![d] = TRUE]
  /\ UNCHANGED phase

Next ==
  \E d \in Docs :
    \/ Create(d) \/ Publish(d) \/ Reject(d)
    \/ Requeue(d) \/ Remove(d) \/ StoreLate(d)

Spec == Init /\ [][Next]_<<phase, indexed>>

-------------------------------------------------------------------------------
(* What overtaking adds.                                                   *)

Existing == {"pending", "ready", "failed"}

(* A reprocess that was admitted on a stale row deletes the chunks of a    *)
(* document whose status it does not write; so does a job that is cut off  *)
(* behind a deletion.                                                      *)
Discard(d) ==
  /\ phase[d] # "absent"
  /\ indexed' = [indexed EXCEPT ![d] = FALSE]
  /\ UNCHANGED phase

(* Another job of the document, or its requeuing, or the last callback of  *)
(* an earlier job: the status becomes what the late one has got to, and    *)
(* ready only with chunks.                                                 *)
Rework(d) ==
  \/ /\ Move(d, Existing, "ready")
     /\ indexed' = [indexed EXCEPT ![d] = TRUE]
  \/ /\ Move(d, Existing, "failed") \/ Move(d, Existing, "pending")
     /\ \E i \in BOOLEAN : indexed' = [indexed EXCEPT ![d] = i]

(* A late job replaces the chunks of a document by its own.                *)
Overwrite(d) ==
  /\ indexed[d]
  /\ UNCHANGED <<phase, indexed>>

Disturb(d) == Discard(d) \/ Rework(d) \/ Overwrite(d)

DisturbedNext == Next \/ \E d \in Docs : Disturb(d)

DisturbedSpec == Init /\ [][DisturbedNext]_<<phase, indexed>>
===============================================================================

----------------------- MODULE DocumentPipeline_proofs -----------------------
(***************************************************************************)
(* Proofs about DocumentPipeline, for any sets of documents, requests,     *)
(* workers and jobs, any retry limit and any number of faults.             *)
(***************************************************************************)
EXTENDS DocumentPipeline, TLAPS

USE PipelineAssumption DEF PipelineAssumption, Txns

-------------------------------------------------------------------------------
(* The inductive invariant of type correctness: a transaction that is open *)
(* and a job that exists belong to a document that exists, and a row lock  *)
(* is held by an open transaction on that row, with a version of its own.  *)

Unlocked == {"idle", "ack", "callback"}

Existing == {d \in Docs : doc[d].status # "absent"}

TxnWellFormed == \A t \in Txns : txn[t].pc # "idle" => txn[t].doc \in Existing

WorkerHasJob ==
  \A w \in Workers : txn[w].pc # "idle" =>
    txn[w].job \in JobIds /\ job[txn[w].job].state # "free"

LockWellFormed ==
  \A d \in Docs : lock[d] # None =>
    /\ txn[lock[d]].pc \notin Unlocked
    /\ txn[lock[d]].doc = d
    /\ txn[lock[d]].row.status # "absent"

JobWellFormed == \A j \in JobIds : job[j].state # "free" => job[j].doc \in Existing

TxnPart ==
  /\ txn \in [Txns -> Txn]
  /\ lock \in [Docs -> Txns \cup {None}]
  /\ TxnWellFormed
  /\ LockWellFormed

JobPart == job \in [JobIds -> Job] /\ JobWellFormed

DocPart == doc \in [Docs -> Row]

RestPart ==
  /\ object \subseteq Docs
  /\ chunks \in [Docs -> SUBSET JobIds]
  /\ usage \in [Docs -> Nat]
  /\ faultsLeft \in [FaultKinds -> Nat]

Inv1 == TxnPart /\ WorkerHasJob /\ JobPart /\ DocPart /\ RestPart

LEMMA Inv1Init == Init => Inv1
  BY DEF Init, Inv1, TxnPart, JobPart, DocPart, RestPart, TxnWellFormed, WorkerHasJob,
     JobWellFormed, LockWellFormed, Existing, NoRow, Row, Idle, Txn, Job, JobStates,
     Statuses, NonTerminal, RequestPCs, WorkerPCs, FaultKinds

-------------------------------------------------------------------------------
(* Records.  What a transaction's record looks like after each kind of step. *)

PCs == RequestPCs \cup WorkerPCs

(* The program counters and the statuses that the actions name.            *)
LEMMA Names ==
  /\ RequestPCs \subseteq PCs /\ WorkerPCs \subseteq PCs
  /\ {"idle", "confirm", "reprocess", "requeue", "request_commit"} \subseteq PCs
  /\ {"start", "extracting", "chunking", "embedding", "clear", "insert", "publish",
      "job_commit", "raise", "abort", "callback", "ack"} \subseteq PCs
  /\ {"queued", "extracting", "chunking", "embedding", "ready", "failed"} = Statuses
  /\ "absent" \notin Statuses
  BY DEF PCs, RequestPCs, WorkerPCs, Statuses, NonTerminal

LEMMA IdleRecord == Idle \in Txn /\ Idle.pc = "idle"
  BY Names DEF Idle, Txn, PCs, NoRow, Row

(* The record of a transaction that has read a row and written nothing.    *)
LEMMA BeginRecord ==
  ASSUME NEW pc \in PCs, NEW d \in Docs, NEW j \in JobIds \cup {None}, NEW v \in Statuses
  PROVE  /\ Begin(pc, d, j, v) \in Txn
         /\ Begin(pc, d, j, v).pc = pc
         /\ Begin(pc, d, j, v).doc = d
         /\ Begin(pc, d, j, v).job = j
  BY DEF Begin, Idle, Txn, PCs, NoRow, Row

(* A step that only moves the program counter.                             *)
LEMMA PCRecord ==
  ASSUME NEW x \in Txn, NEW pc \in PCs
  PROVE  LET y == [x EXCEPT !.pc = pc] IN
         y \in Txn /\ y.pc = pc /\ y.doc = x.doc /\ y.job = x.job /\ y.row = x.row
  BY DEF Txn, PCs

(* The row a transaction sees is a row of an existing document.            *)
LEMMA SeenRow ==
  ASSUME Inv1, NEW t \in Txns, txn[t].pc # "idle"
  PROVE  Seen(t) \in Row /\ Seen(t).status # "absent"
  BY DEF Inv1, TxnPart, DocPart, TxnWellFormed, LockWellFormed, Existing, Seen, Txn

LEMMA StatusRow ==
  ASSUME NEW row \in Row, NEW s \in Statuses
  PROVE  LET y == [row EXCEPT !.status = s, !.stale = FALSE] IN
         y \in Row /\ y.status = s
  BY DEF Row

-------------------------------------------------------------------------------
(* One transaction moves: what has to be known of its new record and of    *)
(* the locks for the transactions to stay well formed.                     *)

NoneVanishes == Existing \subseteq Existing'

LEMMA Move ==
  ASSUME Inv1, NEW t \in Txns, NEW x \in Txn, Becomes(t, x), NoneVanishes,
         x.pc # "idle" => x.doc \in Existing,
         lock' \in [Docs -> Txns \cup {None}],
         \A d \in Docs : lock'[d] = lock[d] \/ lock'[d] \in {None, t},
         \A d \in Docs : lock'[d] = t =>
           x.pc \notin Unlocked /\ x.doc = d /\ x.row.status # "absent"
  PROVE  TxnPart'
<1> USE DEF Inv1, TxnPart
<1>1. /\ txn' \in [Txns -> Txn]
      /\ txn'[t] = x
      /\ \A u \in Txns \ {t} : txn'[u] = txn[u]
  BY DEF Becomes
<1>2. TxnWellFormed'
  BY <1>1 DEF TxnWellFormed, NoneVanishes
<1>3. LockWellFormed'
  BY <1>1 DEF LockWellFormed
<1> QED
  BY <1>1, <1>2, <1>3

(* ... and, of a worker, its job.                                          *)
JobsKept == \A j \in JobIds : job[j].state # "free" => job'[j].state # "free"

LEMMA MoveJob ==
  ASSUME Inv1, NEW t \in Txns, NEW x \in Txn, Becomes(t, x), JobsKept,
         t \in Workers /\ x.pc # "idle" => x.job \in JobIds /\ job'[x.job].state # "free"
  PROVE  WorkerHasJob'
  BY DEF Inv1, TxnPart, WorkerHasJob, Becomes, JobsKept

(* A step in the middle of a transaction that takes no lock.               *)
LEMMA Onward ==
  ASSUME Inv1, NEW t \in Txns, NEW x \in Txn, Becomes(t, x), NoneVanishes, lock' = lock,
         txn[t].pc # "idle", x.pc \notin Unlocked, x.doc = txn[t].doc, x.row = txn[t].row
  PROVE  TxnPart'
<1>1. x.doc \in Existing
  BY DEF Inv1, TxnPart, TxnWellFormed
<1>2. \A d \in Docs : lock'[d] = t => x.doc = d /\ x.row.status # "absent"
  BY DEF Inv1, TxnPart, LockWellFormed
<1> QED
  BY <1>1, <1>2, Move DEF Inv1, TxnPart

(* A step that takes, or keeps, the lock of its row.                       *)
LEMMA Locking ==
  ASSUME Inv1, NEW t \in Txns, NEW x \in Txn, Becomes(t, x), NoneVanishes,
         x.pc \notin Unlocked, x.doc \in Existing, x.row.status # "absent",
         lock[x.doc] \in {None, t}, lock' = [lock EXCEPT ![x.doc] = t],
         x.doc = txn[t].doc \/ txn[t].pc = "idle"
  PROVE  TxnPart'
<1>1. lock' \in [Docs -> Txns \cup {None}]
  BY DEF Inv1, TxnPart
<1>2. \A d \in Docs : lock'[d] = t => d = x.doc
  BY DEF Inv1, TxnPart, LockWellFormed, Unlocked
<1>3. \A d \in Docs : lock'[d] = lock[d] \/ lock'[d] \in {None, t}
  BY DEF Inv1, TxnPart
<1> QED
  BY <1>1, <1>2, <1>3, Move

(* The end of a transaction: its locks are released.                       *)
LEMMA Ending ==
  ASSUME Inv1, NEW t \in Txns, NEW x \in Txn, Becomes(t, x), NoneVanishes,
         x.pc # "idle" => x.doc \in Existing,
         lock' = Released(t)
  PROVE  TxnPart'
<1>1. /\ lock' \in [Docs -> Txns \cup {None}]
      /\ \A d \in Docs : lock'[d] = lock[d] \/ lock'[d] \in {None, t}
      /\ \A d \in Docs : lock'[d] # t
  BY DEF Inv1, TxnPart, Released
<1> QED
  BY <1>1, Move

(* A step of a transaction that holds no lock and takes none.              *)
LEMMA Lockless ==
  ASSUME Inv1, NEW t \in Txns, NEW x \in Txn, Becomes(t, x), NoneVanishes,
         x.pc # "idle" => x.doc \in Existing, lock' = lock,
         txn[t].pc \in Unlocked \/ lock[txn[t].doc] # t
  PROVE  TxnPart'
<1>1. \A d \in Docs : lock'[d] # t
  BY DEF Inv1, TxnPart, LockWellFormed
<1> QED
  BY <1>1, Move DEF Inv1, TxnPart

(* A write of the status.                                                  *)
LEMMA SetStatusStep ==
  ASSUME Inv1, NEW t \in Txns, txn[t].pc # "idle", NEW s \in Statuses,
         NEW next \in PCs \ Unlocked, SetStatus(t, s, next), NoneVanishes
  PROVE  /\ TxnPart'
         /\ JobsKept => WorkerHasJob'
<1>1. txn[t] \in Txn /\ Seen(t) \in Row /\ txn[t].doc \in Existing
  BY SeenRow DEF Inv1, TxnPart, TxnWellFormed
<1>2. t \in Workers => txn[t].job \in JobIds /\ job[txn[t].job].state # "free"
  BY DEF Inv1, WorkerHasJob
<1>3. CASE Becomes(t, [txn[t] EXCEPT !.pc = next]) /\ UNCHANGED lock
  <2> DEFINE x == [txn[t] EXCEPT !.pc = next]
  <2>1. x \in Txn /\ x.pc = next /\ x.doc = txn[t].doc /\ x.job = txn[t].job /\ x.row = txn[t].row
    BY <1>1, PCRecord
  <2> HIDE DEF x
  <2>2. Becomes(t, x)
    BY <1>3 DEF x
  <2> QED
    BY <1>2, <1>3, <2>1, <2>2, Onward, MoveJob DEF JobsKept
<1>4. CASE /\ lock[txn[t].doc] \in {None, t}
           /\ lock' = [lock EXCEPT ![txn[t].doc] = t]
           /\ Becomes(t, [txn[t] EXCEPT !.pc = next, !.view = s,
                            !.row = [Seen(t) EXCEPT !.status = s, !.stale = FALSE]])
  <2> DEFINE row == [Seen(t) EXCEPT !.status = s, !.stale = FALSE]
             x == [txn[t] EXCEPT !.pc = next, !.view = s, !.row = row]
  <2>1. row \in Row /\ row.status = s
    BY <1>1, StatusRow
  <2> HIDE DEF row
  <2>2. x \in Txn /\ x.pc = next /\ x.doc = txn[t].doc /\ x.job = txn[t].job /\ x.row = row
    BY <1>1, <2>1 DEF Txn, PCs
  <2>3. Becomes(t, x)
    BY <1>4 DEF row
  <2> HIDE DEF x
  <2>4. x.row.status # "absent"
    BY <2>1, <2>2, Names
  <2>5. TxnPart'
    BY <1>1, <1>4, <2>2, <2>3, <2>4, Locking
  <2>6. JobsKept => WorkerHasJob'
    BY <1>2, <2>2, <2>3, MoveJob DEF JobsKept
  <2> QED
    BY <2>5, <2>6
<1> QED
  BY <1>3, <1>4 DEF SetStatus

-------------------------------------------------------------------------------
(* What the helpers of the actions do to the jobs and the rows.            *)

LEMMA SameDocs == ASSUME Inv1, doc' = doc PROVE DocPart' /\ NoneVanishes
  BY DEF Inv1, DocPart, NoneVanishes, Existing

LEMMA SameJobs == ASSUME Inv1, job' = job, NoneVanishes PROVE JobPart' /\ JobsKept
  BY DEF Inv1, JobPart, JobWellFormed, JobsKept, NoneVanishes

LEMMA JobMoves ==
  ASSUME Inv1, NoneVanishes, NEW j \in JobIds, NEW s \in JobStates \ {"free"}, NEW n \in Nat,
         job[j].state # "free",
         \/ job' = [job EXCEPT ![j].state = s]
         \/ job' = [job EXCEPT ![j].state = s, ![j].attempts = n]
  PROVE  JobPart' /\ JobsKept
<1>1. job'[j].state = s /\ job'[j].doc = job[j].doc
  BY DEF Inv1, JobPart, Job
<1>2. \A i \in JobIds \ {j} : job'[i] = job[i]
  BY DEF Inv1, JobPart, Job
<1>3. job' \in [JobIds -> Job]
  BY DEF Inv1, JobPart, Job
<1> QED
  BY <1>1, <1>2, <1>3 DEF Inv1, JobPart, JobWellFormed, JobsKept, NoneVanishes

LEMMA SufferStep ==
  ASSUME Inv1, NEW k \in FaultKinds, Suffer(k)
  PROVE  faultsLeft' \in [FaultKinds -> Nat]
  BY DEF Inv1, RestPart, Suffer

LEMMA EnqueueStep ==
  ASSUME Inv1, NoneVanishes, NEW d \in Existing, Enqueue(d)
  PROVE  JobPart' /\ JobsKept /\ faultsLeft' \in [FaultKinds -> Nat]
<1>1. CASE job' = job /\ Suffer("outage")
  BY <1>1, SameJobs, SufferStep DEF FaultKinds
<1>2. ASSUME NEW j \in JobIds, job[j].state = "free", UNCHANGED faultsLeft,
             job' = [job EXCEPT ![j] = [state |-> "queued", doc |-> d, attempts |-> 0]]
      PROVE  JobPart' /\ JobsKept /\ faultsLeft' \in [FaultKinds -> Nat]
  <2>1. [state |-> "queued", doc |-> d, attempts |-> 0] \in Job
    BY DEF Job, JobStates, Existing
  <2>2. /\ job' \in [JobIds -> Job]
        /\ job'[j].state = "queued" /\ job'[j].doc = d
        /\ \A i \in JobIds \ {j} : job'[i] = job[i]
    BY <1>2, <2>1 DEF Inv1, JobPart
  <2> QED
    BY <1>2, <2>2 DEF Inv1, JobPart, RestPart, JobWellFormed, JobsKept, NoneVanishes
<1> QED
  BY <1>1, <1>2 DEF Enqueue

LEMMA InstallStep ==
  ASSUME Inv1, NEW t \in Txns, txn[t].pc # "idle", Install(t)
  PROVE  /\ DocPart' /\ NoneVanishes
         /\ chunks' \in [Docs -> SUBSET JobIds]
         /\ usage' \in [Docs -> Nat]
         /\ lock' = Released(t)
<1>1. Seen(t) \in Row /\ Seen(t).status # "absent"
  BY SeenRow
<1>2. DocPart' /\ NoneVanishes
  BY <1>1 DEF Inv1, DocPart, NoneVanishes, Existing, Install
<1>3. txn[t].cleared \in SUBSET JobIds /\ txn[t].stored \in SUBSET JobIds /\ txn[t].adds \in Nat
  BY DEF Inv1, TxnPart, Txn
<1>4. chunks' \in [Docs -> SUBSET JobIds]
  BY <1>3 DEF Inv1, RestPart, Install
<1>5. usage' \in [Docs -> Nat]
  <2> DEFINE n == txn[t].adds
  <2>1. usage' = [usage EXCEPT ![txn[t].doc] = @ + n]
    BY DEF Install
  <2>2. n \in Nat /\ usage \in [Docs -> Nat]
    BY <1>3 DEF Inv1, RestPart
  <2> HIDE DEF n
  <2>3. ASSUME NEW d \in Docs PROVE usage'[d] \in Nat
    <3>1. usage'[d] = IF d = txn[t].doc THEN usage[d] + n ELSE usage[d]
      BY <2>1, <2>2
    <3>2. usage[d] \in Nat
      BY <2>2
    <3> QED
      BY <2>2, <3>1, <3>2
  <2>4. usage' = [d \in Docs |-> usage'[d]]
    BY <2>1, <2>2
  <2> QED
    BY <2>3, <2>4
<1> QED
  BY <1>2, <1>4, <1>5 DEF Install

-------------------------------------------------------------------------------
(* The steps.                                                              *)

LEMMA ClientInv1 ==
  ASSUME Inv1, NEW d \in Docs, ClientStep(d)
  PROVE  Inv1'
<1>1. txn' = txn /\ lock' = lock /\ job' = job /\ NoneVanishes
        => TxnPart' /\ WorkerHasJob'
  BY DEF Inv1, TxnPart, TxnWellFormed, LockWellFormed, WorkerHasJob, NoneVanishes
<1>2. CASE PresignUpload(d)
  <2>1. DocPart' /\ NoneVanishes
    BY <1>2 DEF Inv1, DocPart, NoneVanishes, Existing, PresignUpload, Row, Statuses, NonTerminal
  <2> QED
    BY <1>1, <1>2, <2>1, SameJobs DEF Inv1, RestPart, PresignUpload
<1>3. CASE PutObject(d)
  BY <1>1, <1>3, SameDocs, SameJobs DEF Inv1, RestPart, PutObject
<1>4. CASE GrowStale(d)
  <2>1. DocPart' /\ NoneVanishes
    BY <1>4 DEF Inv1, DocPart, NoneVanishes, Existing, GrowStale, Row
  <2>2. faultsLeft' \in [FaultKinds -> Nat]
    BY <1>4, SufferStep DEF GrowStale, FaultKinds
  <2> QED
    BY <1>1, <1>4, <2>1, <2>2, SameJobs DEF Inv1, RestPart, GrowStale
<1> QED
  BY <1>2, <1>3, <1>4 DEF ClientStep

LEMMA RequestInv1 ==
  ASSUME Inv1, NEW r \in Requests, RequestStep(r)
  PROVE  Inv1'
<1> USE DEF Unlocked
<1>0. r \in Txns /\ r \notin Workers /\ txn[r] \in Txn
  BY DEF Inv1, TxnPart
<1>1. ASSUME NEW x \in Txn, Becomes(r, x), JobsKept PROVE WorkerHasJob'
  BY <1>0, <1>1, MoveJob
<1>2. ASSUME NEW d \in Docs, ConfirmRead(r, d) \/ ReprocessRead(r, d)
      PROVE  Inv1'
  <2>1. d \in Existing /\ doc[d].status \in Statuses
    BY <1>2 DEF ConfirmRead, ReprocessRead, Present, Existing, Inv1, DocPart, Row
  <2>2. PICK pc \in {"confirm", "reprocess"} : Becomes(r, Begin(pc, d, None, doc[d].status))
    BY <1>2 DEF ConfirmRead, ReprocessRead
  <2> DEFINE x == Begin(pc, d, None, doc[d].status)
  <2>3. x \in Txn /\ x.pc = pc /\ x.doc = d
    BY <2>1, BeginRecord, Names
  <2> HIDE DEF x
  <2>4. /\ UNCHANGED <<doc, object, chunks, usage, lock, job, faultsLeft>>
        /\ txn[r].pc = "idle"
    BY <1>2 DEF ConfirmRead, ReprocessRead
  <2>5. Becomes(r, x)
    BY <2>2 DEF x
  <2>6. NoneVanishes /\ DocPart'
    BY <2>4, SameDocs
  <2>7. TxnPart'
    BY <1>0, <2>1, <2>3, <2>4, <2>5, <2>6, Lockless
  <2> QED
    BY <1>1, <2>3, <2>4, <2>5, <2>6, <2>7, SameJobs DEF Inv1, RestPart
<1>3. ASSUME NEW d \in Docs, DeleteDocument(r, d)
      PROVE  Inv1'
  <2> DEFINE row == [doc[d] EXCEPT !.deleted = TRUE, !.stale = FALSE]
             b == Begin("request_commit", d, None, doc[d].status)
             x == [b EXCEPT !.row = row]
  <2>1. d \in Existing /\ doc[d].status \in Statuses
    BY <1>3 DEF DeleteDocument, Present, Existing, Inv1, DocPart, Row
  <2>2. row \in Row /\ row.status # "absent"
    BY <2>1, Names DEF Inv1, DocPart, Row
  <2> HIDE DEF row
  <2>3. b \in Txn /\ b.pc = "request_commit" /\ b.doc = d
    BY <2>1, BeginRecord, Names
  <2> HIDE DEF b
  <2>4. x \in Txn /\ x.pc = "request_commit" /\ x.doc = d /\ x.row = row
    BY <2>2, <2>3 DEF Txn
  <2>5. Becomes(r, x)
    BY <1>3 DEF DeleteDocument, row, b
  <2> HIDE DEF x
  <2>6. /\ UNCHANGED <<doc, object, chunks, usage, job, faultsLeft>>
        /\ lock[d] = None /\ lock' = [lock EXCEPT ![d] = r]
        /\ txn[r].pc = "idle"
    BY <1>3 DEF DeleteDocument
  <2>7. NoneVanishes /\ DocPart'
    BY <2>6, SameDocs
  <2>8. TxnPart'
    BY <1>0, <2>1, <2>2, <2>4, <2>5, <2>6, <2>7, Locking
  <2> QED
    BY <1>1, <2>4, <2>5, <2>6, <2>7, <2>8, SameJobs DEF Inv1, RestPart
<1>4. CASE ConfirmLost(r)
  <2>1. /\ Becomes(r, Idle)
        /\ UNCHANGED <<doc, object, chunks, usage, lock, job, faultsLeft>>
        /\ lock[txn[r].doc] # r
    BY <1>0, <1>4 DEF ConfirmLost
  <2>2. TxnPart' /\ DocPart' /\ NoneVanishes
    BY <1>0, <2>1, IdleRecord, SameDocs, Lockless
  <2> QED
    BY <1>1, <2>1, <2>2, IdleRecord, SameJobs DEF Inv1, RestPart
<1>5. CASE ConfirmWrite(r)
  <2> DEFINE d == txn[r].doc
             row == [doc[d] EXCEPT !.confirmed = TRUE, !.stale = FALSE]
             x == [txn[r] EXCEPT !.pc = "request_commit", !.adds = 1, !.row = row]
  <2>1. /\ Becomes(r, x)
        /\ lock[d] = None /\ lock' = [lock EXCEPT ![d] = r]
        /\ Enqueue(d)
        /\ UNCHANGED <<doc, object, chunks, usage>>
        /\ txn[r].pc # "idle"
    BY <1>5 DEF ConfirmWrite
  <2>2. d \in Existing
    BY <1>0, <2>1 DEF Inv1, TxnPart, TxnWellFormed
  <2>3. row \in Row /\ row.status # "absent"
    <3>1. doc[d] \in Row /\ doc[d].status # "absent"
      BY <2>2 DEF Inv1, DocPart, Existing
    <3> HIDE DEF d
    <3> QED
      BY <3>1 DEF Row
  <2> HIDE DEF row
  <2>4. x \in Txn /\ x.pc = "request_commit" /\ x.doc = d /\ x.row = row
    BY <1>0, <2>3, Names DEF Txn, PCs
  <2> HIDE DEF x
  <2>5. NoneVanishes /\ DocPart'
    BY <2>1, SameDocs
  <2>6. TxnPart'
    BY <1>0, <2>1, <2>2, <2>3, <2>4, <2>5, Locking
  <2>7. JobPart' /\ JobsKept /\ faultsLeft' \in [FaultKinds -> Nat]
    BY <2>1, <2>2, <2>5, EnqueueStep
  <2> QED
    BY <1>1, <2>1, <2>4, <2>5, <2>6, <2>7 DEF Inv1, RestPart
<1>6. CASE ReprocessClear(r)
  <2> DEFINE x == [txn[r] EXCEPT !.pc = "requeue", !.cleared = chunks[txn[r].doc]]
  <2>1. /\ Becomes(r, x)
        /\ UNCHANGED <<doc, object, chunks, usage, lock, job, faultsLeft>>
        /\ txn[r].pc # "idle"
    BY <1>6 DEF ReprocessClear, DeleteChunks
  <2>2. chunks[txn[r].doc] \in SUBSET JobIds
    BY <1>0, <2>1 DEF Inv1, TxnPart, TxnWellFormed, Existing, RestPart
  <2>3. x \in Txn /\ x.pc = "requeue" /\ x.doc = txn[r].doc /\ x.row = txn[r].row
    BY <1>0, <2>2, Names DEF Txn, PCs
  <2> HIDE DEF x
  <2>4. TxnPart' /\ DocPart' /\ NoneVanishes
    BY <1>0, <2>1, <2>3, SameDocs, Onward
  <2> QED
    BY <1>1, <2>1, <2>3, <2>4, SameJobs DEF Inv1, RestPart
<1>7. CASE ReprocessEnqueue(r)
  <2>1. /\ SetStatus(r, "queued", "request_commit")
        /\ Enqueue(txn[r].doc)
        /\ UNCHANGED <<doc, object, chunks, usage>>
        /\ txn[r].pc # "idle"
    BY <1>7 DEF ReprocessEnqueue
  <2>2. DocPart' /\ NoneVanishes /\ txn[r].doc \in Existing
    BY <1>0, <2>1, SameDocs DEF Inv1, TxnPart, TxnWellFormed
  <2>3. JobPart' /\ JobsKept /\ faultsLeft' \in [FaultKinds -> Nat]
    BY <2>1, <2>2, EnqueueStep
  <2>4. TxnPart' /\ WorkerHasJob'
    BY <1>0, <2>1, <2>2, <2>3, SetStatusStep, Names
  <2> QED
    BY <2>1, <2>2, <2>3, <2>4 DEF Inv1, RestPart
<1>8. CASE ReprocessGone(r) \/ AbortRequest(r)
  <2>1. /\ Becomes(r, Idle) /\ Discard(r)
        /\ UNCHANGED <<object, job>>
        /\ UNCHANGED faultsLeft \/ Suffer("abort")
    BY <1>8 DEF ReprocessGone, AbortRequest
  <2>2. faultsLeft' \in [FaultKinds -> Nat]
    BY <2>1, SufferStep DEF Inv1, RestPart, FaultKinds
  <2>3. TxnPart' /\ DocPart' /\ NoneVanishes
    BY <1>0, <2>1, IdleRecord, SameDocs, Ending DEF Discard
  <2> QED
    BY <1>1, <2>1, <2>2, <2>3, IdleRecord, SameJobs DEF Inv1, RestPart, Discard
<1>9. CASE CommitRequest(r)
  <2>1. /\ Becomes(r, Idle) /\ Install(r)
        /\ UNCHANGED <<object, job, faultsLeft>>
        /\ txn[r].pc # "idle"
    BY <1>9 DEF CommitRequest
  <2>2. /\ DocPart' /\ NoneVanishes
        /\ chunks' \in [Docs -> SUBSET JobIds]
        /\ usage' \in [Docs -> Nat]
        /\ lock' = Released(r)
    BY <1>0, <2>1, InstallStep
  <2>3. TxnPart'
    BY <1>0, <2>1, <2>2, IdleRecord, Ending
  <2> QED
    BY <1>1, <2>1, <2>2, <2>3, IdleRecord, SameJobs DEF Inv1, RestPart
<1> QED
  BY <1>2, <1>3, <1>4, <1>5, <1>6, <1>7, <1>8, <1>9 DEF RequestStep

(* A worker's step within its transaction that only moves the counter.     *)
LEMMA GotoInv1 ==
  ASSUME Inv1, NEW w \in Workers, NEW pc \in PCs \ Unlocked, txn[w].pc # "idle", Goto(w, pc),
         UNCHANGED <<doc, object, chunks, usage, job, faultsLeft>>
  PROVE  Inv1'
<1> DEFINE x == [txn[w] EXCEPT !.pc = pc]
<1>1. w \in Txns /\ txn[w] \in Txn
  BY DEF Inv1, TxnPart
<1>2. x \in Txn /\ x.pc = pc /\ x.doc = txn[w].doc /\ x.job = txn[w].job /\ x.row = txn[w].row
  BY <1>1, PCRecord
<1>3. Becomes(w, x)
  BY DEF Goto
<1> HIDE DEF x
<1>4. TxnPart' /\ DocPart' /\ JobPart' /\ JobsKept
  BY <1>1, <1>2, <1>3, SameDocs, SameJobs, Onward DEF Goto
<1>5. WorkerHasJob'
  BY <1>1, <1>2, <1>3, <1>4, MoveJob DEF Inv1, WorkerHasJob
<1> QED
  BY <1>4, <1>5 DEF Inv1, RestPart

LEMMA WorkerSetStatusInv1 ==
  ASSUME Inv1, NEW w \in Workers, txn[w].pc # "idle", NEW s \in Statuses,
         NEW next \in PCs \ Unlocked, SetStatus(w, s, next),
         UNCHANGED <<doc, object, chunks, usage, job, faultsLeft>>
  PROVE  Inv1'
<1>1. DocPart' /\ NoneVanishes /\ JobPart' /\ JobsKept
  BY SameDocs, SameJobs
<1>2. TxnPart' /\ WorkerHasJob'
  BY <1>1, SetStatusStep
<1> QED
  BY <1>1, <1>2 DEF Inv1, RestPart

(* The end of a worker's transaction, after which it keeps its job.        *)
LEMMA EndedRecord ==
  ASSUME Inv1, NEW w \in Workers, txn[w].pc # "idle", NEW pc \in PCs
  PROVE  /\ Ended(w, pc) \in Txn
         /\ Ended(w, pc).pc = pc
         /\ Ended(w, pc).doc = txn[w].doc
         /\ Ended(w, pc).job = txn[w].job
         /\ txn[w].doc \in Existing
         /\ txn[w].job \in JobIds /\ job[txn[w].job].state # "free"
<1>1. /\ txn[w].doc \in Existing
      /\ txn[w].job \in JobIds /\ job[txn[w].job].state # "free"
      /\ txn[w].view \in Statuses
  BY DEF Inv1, TxnPart, TxnWellFormed, WorkerHasJob, Txn
<1> QED
  BY <1>1, BeginRecord DEF Ended, Existing

LEMMA WorkerInv1 ==
  ASSUME Inv1, NEW w \in Workers, WorkerStep(w) \/ CrashWorker(w)
  PROVE  Inv1'
<1> USE DEF Unlocked
<1>0. w \in Txns /\ txn[w] \in Txn
  BY DEF Inv1, TxnPart
<1>1. txn[w].pc # "idle" => txn[w].doc \in Existing /\ txn[w].job \in JobIds
                            /\ job[txn[w].job].state # "free"
  BY <1>0 DEF Inv1, TxnPart, TxnWellFormed, WorkerHasJob
<1>2. Becomes(w, Idle) /\ JobsKept => WorkerHasJob'
  BY <1>0, IdleRecord, MoveJob
<1>3. ASSUME NEW j \in JobIds, TakeJob(w, j)
      PROVE  Inv1'
  <2> DEFINE d == job[j].doc
             pc == IF doc[d].deleted \/ doc[d].status = "ready" THEN "ack" ELSE "start"
             x == Begin(pc, d, j, doc[d].status)
  <2>1. /\ Becomes(w, x)
        /\ job[j].state = "queued"
        /\ job' = [job EXCEPT ![j].state = "running", ![j].attempts = @ + 1]
        /\ txn[w].pc = "idle"
        /\ UNCHANGED <<doc, object, chunks, usage, lock, faultsLeft>>
    BY <1>3 DEF TakeJob
  <2>2. d \in Existing /\ doc[d].status \in Statuses
    BY <2>1 DEF Inv1, JobPart, JobWellFormed, Existing, DocPart, Row
  <2>3. x \in Txn /\ x.doc = d /\ x.job = j
    <3>1. pc \in PCs /\ d \in Docs
      BY <2>2, Names DEF Existing
    <3> HIDE DEF pc, d
    <3> QED
      BY <2>2, <3>1, BeginRecord
  <2> HIDE DEF x, pc
  <2>4. DocPart' /\ NoneVanishes
    BY <2>1, SameDocs
  <2>5. JobPart' /\ JobsKept
    <3>1. job[j].attempts + 1 \in Nat
      BY DEF Inv1, JobPart, Job
    <3>2. job' = [job EXCEPT ![j].state = "running", ![j].attempts = job[j].attempts + 1]
      BY <2>1
    <3> QED
      BY <2>1, <2>4, <3>1, <3>2, JobMoves DEF JobStates
  <2>6. TxnPart'
    BY <1>0, <2>1, <2>2, <2>3, <2>4, Lockless
  <2>7. WorkerHasJob'
    BY <1>0, <2>1, <2>3, <2>5, MoveJob DEF JobsKept
  <2> QED
    BY <2>1, <2>4, <2>5, <2>6, <2>7 DEF Inv1, RestPart
<1>4. CASE StartExtracting(w) \/ Chunk(w) \/ Publish(w)
  <2>1. PICK s \in Statuses, next \in PCs \ Unlocked : SetStatus(w, s, next)
    BY <1>4, Names DEF StartExtracting, Chunk, Publish
  <2>2. txn[w].pc # "idle" /\ UNCHANGED <<doc, object, chunks, usage, job, faultsLeft>>
    BY <1>4 DEF StartExtracting, Chunk, Publish, At
  <2> QED
    BY <2>1, <2>2, WorkerSetStatusInv1
<1>5. CASE Extract(w)
  <2>1. txn[w].pc # "idle" /\ UNCHANGED <<doc, object, chunks, usage, job, faultsLeft>>
    BY <1>5 DEF Extract, At
  <2>2. CASE Goto(w, "raise")
    BY <2>1, <2>2, GotoInv1, Names
  <2>3. CASE SetStatus(w, "chunking", "chunking") \/ SetStatus(w, "failed", "job_commit")
    BY <2>1, <2>3, WorkerSetStatusInv1, Names
  <2> QED
    BY <1>5, <2>2, <2>3 DEF Extract
<1>6. CASE Embed(w)
  BY <1>6, GotoInv1, Names DEF Embed, At
<1>7. CASE ClearChunks(w)
  <2> DEFINE x == [txn[w] EXCEPT !.pc = "insert", !.cleared = chunks[txn[w].doc]]
  <2>1. /\ Becomes(w, x)
        /\ UNCHANGED <<doc, object, chunks, usage, lock, job, faultsLeft>>
        /\ txn[w].pc # "idle"
    BY <1>7 DEF ClearChunks, DeleteChunks
  <2>2. chunks[txn[w].doc] \in SUBSET JobIds
    BY <1>1, <2>1 DEF Existing, Inv1, RestPart
  <2>3. /\ x \in Txn /\ x.pc = "insert" /\ x.doc = txn[w].doc
        /\ x.job = txn[w].job /\ x.row = txn[w].row
    BY <1>0, <2>2, Names DEF Txn, PCs
  <2> HIDE DEF x
  <2>4. TxnPart' /\ DocPart' /\ JobPart' /\ JobsKept
    BY <1>0, <2>1, <2>3, SameDocs, SameJobs, Onward
  <2>5. WorkerHasJob'
    BY <1>0, <1>1, <2>1, <2>3, <2>4, MoveJob
  <2> QED
    BY <2>1, <2>4, <2>5 DEF Inv1, RestPart
<1>8. CASE InsertChunks(w)
  <2> DEFINE x == [txn[w] EXCEPT !.pc = "publish", !.stored = {txn[w].job}]
  <2>1. txn[w].pc # "idle" /\ UNCHANGED <<doc, object, chunks, usage, job, faultsLeft>>
    BY <1>8 DEF InsertChunks, At
  <2>2. CASE Goto(w, "abort")
    BY <2>1, <2>2, GotoInv1, Names
  <2>3. CASE Becomes(w, x) /\ UNCHANGED lock
    <3>1. {txn[w].job} \in SUBSET JobIds
      BY <1>1, <2>1
    <3>2. /\ x \in Txn /\ x.pc = "publish" /\ x.doc = txn[w].doc
          /\ x.job = txn[w].job /\ x.row = txn[w].row
      BY <1>0, <3>1, Names DEF Txn, PCs
    <3>3. Becomes(w, x)
      BY <2>3
    <3> HIDE DEF x
    <3>4. TxnPart' /\ DocPart' /\ JobPart' /\ JobsKept
      BY <1>0, <2>1, <2>3, <3>2, <3>3, SameDocs, SameJobs, Onward
    <3>5. WorkerHasJob'
      BY <1>0, <1>1, <2>1, <3>2, <3>3, <3>4, MoveJob
    <3> QED
      BY <2>1, <3>4, <3>5 DEF Inv1, RestPart
  <2> QED
    BY <1>8, <2>2, <2>3 DEF InsertChunks
<1>9. CASE CommitJob(w) \/ RollBackJob(w)
  <2>1. PICK pc \in PCs : Becomes(w, Ended(w, pc))
    BY <1>9, Names DEF CommitJob, RollBackJob
  <2> DEFINE x == Ended(w, pc)
  <2>2. UNCHANGED <<object, job, faultsLeft>> /\ txn[w].pc # "idle"
    BY <1>9 DEF CommitJob, RollBackJob
  <2>3. x \in Txn /\ x.doc \in Existing /\ x.job \in JobIds /\ job[x.job].state # "free"
    BY <2>2, EndedRecord
  <2>4. /\ DocPart' /\ NoneVanishes
        /\ chunks' \in [Docs -> SUBSET JobIds]
        /\ usage' \in [Docs -> Nat]
        /\ lock' = Released(w)
    <3>1. CASE Install(w)
      BY <1>0, <2>2, <3>1, InstallStep
    <3>2. CASE Discard(w)
      BY <3>2, SameDocs DEF Discard, Inv1, RestPart
    <3> QED
      BY <1>9, <3>1, <3>2 DEF CommitJob, RollBackJob
  <2> HIDE DEF x
  <2>5. Becomes(w, x)
    BY <2>1 DEF x
  <2>6. JobPart' /\ JobsKept
    BY <2>2, <2>4, SameJobs
  <2>7. TxnPart' /\ WorkerHasJob'
    BY <1>0, <2>3, <2>4, <2>5, <2>6, Ending, MoveJob DEF JobsKept
  <2> QED
    BY <2>2, <2>4, <2>6, <2>7 DEF Inv1, RestPart
<1>10. CASE RetryLater(w) \/ GiveUp(w) \/ FinishJob(w)
  <2>1. /\ Becomes(w, Idle)
        /\ txn[w].pc \in {"callback", "ack"}
        /\ UNCHANGED <<object, chunks, usage, lock, faultsLeft>>
    BY <1>10 DEF RetryLater, GiveUp, FinishJob
  <2>2. PICK s \in {"retry", "failed", "finished"} : job' = [job EXCEPT ![txn[w].job].state = s]
    BY <1>10 DEF RetryLater, GiveUp, FinishJob
  <2>3. DocPart' /\ NoneVanishes
    <3>1. CASE doc' = doc
      BY <3>1, SameDocs
    <3>2. CASE doc' = [doc EXCEPT ![txn[w].doc].status = "failed", ![txn[w].doc].stale = FALSE]
      <4> DEFINE d == txn[w].doc
                 row == [doc[d] EXCEPT !.status = "failed", !.stale = FALSE]
      <4>1. row \in Row /\ row.status = "failed"
        BY <1>1, <2>1, StatusRow, Names DEF Inv1, DocPart, Existing
      <4>2. doc' = [doc EXCEPT ![d] = row]
        BY <3>2
      <4> HIDE DEF row
      <4> QED
        BY <4>1, <4>2, Names DEF Inv1, DocPart, NoneVanishes, Existing
    <3> QED
      BY <1>10, <3>1, <3>2 DEF RetryLater, GiveUp, FinishJob
  <2>4. JobPart' /\ JobsKept
    BY <1>1, <2>1, <2>2, <2>3, JobMoves DEF JobStates
  <2>5. TxnPart' /\ WorkerHasJob'
    BY <1>0, <1>2, <2>1, <2>3, <2>4, IdleRecord, Lockless
  <2> QED
    BY <2>1, <2>3, <2>4, <2>5 DEF Inv1, RestPart
<1>11. CASE CrashWorker(w)
  <2>1. Discard(w) /\ Suffer("crash") /\ txn[w].pc # "idle" /\ UNCHANGED object
    BY <1>11 DEF CrashWorker
  <2>2. DocPart' /\ NoneVanishes /\ faultsLeft' \in [FaultKinds -> Nat]
    BY <2>1, SameDocs, SufferStep DEF Discard, FaultKinds
  <2>3. CASE Becomes(w, Idle) /\ job' = [job EXCEPT ![txn[w].job].state = "lost"]
    <3>1. JobPart' /\ JobsKept
      BY <1>1, <2>1, <2>2, <2>3, JobMoves DEF JobStates
    <3>2. TxnPart' /\ WorkerHasJob'
      BY <1>0, <1>2, <2>1, <2>2, <2>3, <3>1, IdleRecord, Ending DEF Discard
    <3> QED
      BY <2>1, <2>2, <3>1, <3>2 DEF Inv1, RestPart, Discard
  <2>4. CASE Becomes(w, Ended(w, "callback")) /\ UNCHANGED job
    <3> DEFINE x == Ended(w, "callback")
    <3>1. JobPart' /\ JobsKept
      BY <2>2, <2>4, SameJobs
    <3>2. x \in Txn /\ x.doc \in Existing /\ x.job \in JobIds /\ job[x.job].state # "free"
      BY <2>1, EndedRecord, Names
    <3>3. Becomes(w, x)
      BY <2>4
    <3> HIDE DEF x
    <3>4. TxnPart' /\ WorkerHasJob'
      BY <1>0, <2>1, <2>2, <3>1, <3>2, <3>3, Ending, MoveJob DEF Discard, JobsKept
    <3> QED
      BY <2>1, <2>2, <3>1, <3>4 DEF Inv1, RestPart, Discard
  <2> QED
    BY <1>11, <2>3, <2>4 DEF CrashWorker
<1> QED
  BY <1>3, <1>4, <1>5, <1>6, <1>7, <1>8, <1>9, <1>10, <1>11 DEF WorkerStep

LEMMA TimeOutJobInv1 ==
  ASSUME Inv1, NEW w \in Workers, TimeOutJob(w)
  PROVE  Inv1'
<1>1. /\ UNCHANGED <<doc, object, chunks, usage, job>> /\ Suffer("timeout")
      /\ txn[w].pc # "idle" /\ w \in Txns /\ txn[w] \in Txn
  BY DEF TimeOutJob, Inv1, TxnPart
<1>2. PICK pc \in {"raise", "abort", "callback"} :
        Goto(w, pc) /\ (pc = "callback" => txn[w].pc = "ack")
  BY DEF TimeOutJob
<1> DEFINE x == [txn[w] EXCEPT !.pc = pc]
<1>3. x \in Txn /\ x.pc = pc /\ x.doc = txn[w].doc /\ x.job = txn[w].job /\ x.row = txn[w].row
  BY <1>1, PCRecord, Names
<1>4. Becomes(w, x) /\ lock' = lock
  BY <1>2 DEF Goto
<1> HIDE DEF x
<1>5. /\ DocPart' /\ NoneVanishes /\ JobPart' /\ JobsKept
      /\ faultsLeft' \in [FaultKinds -> Nat]
  BY <1>1, SameDocs, SameJobs, SufferStep DEF FaultKinds
<1>6. TxnPart'
  <2>1. CASE pc = "callback"
    BY <1>1, <1>2, <1>3, <1>4, <1>5, <2>1, Lockless
       DEF Unlocked, Inv1, TxnPart, TxnWellFormed
  <2>2. CASE pc # "callback"
    BY <1>1, <1>2, <1>3, <1>4, <1>5, <2>2, Onward DEF Unlocked
  <2> QED
    BY <2>1, <2>2
<1>7. WorkerHasJob'
  BY <1>1, <1>3, <1>4, <1>5, MoveJob DEF Inv1, WorkerHasJob, JobsKept
<1> QED
  BY <1>1, <1>4, <1>5, <1>6, <1>7 DEF Inv1, RestPart

LEMMA RetryDueInv1 ==
  ASSUME Inv1, NEW j \in JobIds, RetryDue(j)
  PROVE  Inv1'
<1>1. DocPart' /\ NoneVanishes
  BY SameDocs DEF RetryDue
<1>2. JobPart' /\ JobsKept
  BY <1>1, JobMoves DEF RetryDue, JobStates
<1> QED
  BY <1>1, <1>2 DEF RetryDue, Inv1, RestPart, TxnPart, TxnWellFormed, LockWellFormed,
     WorkerHasJob, JobsKept, NoneVanishes

LEMMA BreakDeadlockInv1 ==
  ASSUME Inv1, NEW r \in Requests, NEW w \in Workers, BreakDeadlock(r, w)
  PROVE  Inv1'
<1>1. /\ UNCHANGED <<object, job, faultsLeft>>
      /\ r \in Txns /\ w \in Txns /\ r \notin Workers /\ txn[w].pc # "idle"
  BY DEF BreakDeadlock
<1>2. CASE Discard(r) /\ Becomes(r, Idle)
  <2>1. DocPart' /\ NoneVanishes /\ JobPart' /\ JobsKept
    BY <1>1, <1>2, SameDocs, SameJobs DEF Discard
  <2>2. TxnPart' /\ WorkerHasJob'
    BY <1>1, <1>2, <2>1, IdleRecord, Ending, MoveJob DEF Discard
  <2> QED
    BY <1>1, <1>2, <2>1, <2>2 DEF Inv1, RestPart, Discard
<1>3. CASE Discard(w) /\ Becomes(w, Ended(w, "callback"))
  <2> DEFINE x == Ended(w, "callback")
  <2>1. DocPart' /\ NoneVanishes /\ JobPart' /\ JobsKept
    BY <1>1, <1>3, SameDocs, SameJobs DEF Discard
  <2>2. x \in Txn /\ x.doc \in Existing /\ x.job \in JobIds /\ job[x.job].state # "free"
    BY <1>1, EndedRecord, Names
  <2>3. Becomes(w, x)
    BY <1>3
  <2> HIDE DEF x
  <2>4. TxnPart' /\ WorkerHasJob'
    BY <1>1, <1>3, <2>1, <2>2, <2>3, Ending, MoveJob DEF Discard, JobsKept
  <2> QED
    BY <1>1, <1>3, <2>1, <2>4 DEF Inv1, RestPart, Discard
<1> QED
  BY <1>2, <1>3 DEF BreakDeadlock

LEMMA Inv1Step == Inv1 /\ [Next]_vars => Inv1'
<1> SUFFICES ASSUME Inv1, [Next]_vars PROVE Inv1'
  OBVIOUS
<1>1. CASE UNCHANGED vars
  BY <1>1 DEF vars, Inv1, TxnPart, JobPart, DocPart, RestPart, TxnWellFormed, WorkerHasJob,
     JobWellFormed, LockWellFormed, Existing
<1>2. CASE Next
  BY <1>2, ClientInv1, RequestInv1, WorkerInv1, TimeOutJobInv1, RetryDueInv1, BreakDeadlockInv1 DEF Next
<1> QED
  BY <1>1, <1>2

(* The types of the model are kept, whatever the number of documents,      *)
(* requests, workers, jobs and faults (the schema of models/document.py    *)
(* and the states of the handlers).                                        *)
THEOREM TypeCorrect == Spec => []TypeOK
<1>1. Inv1 => TypeOK
  BY DEF Inv1, TxnPart, JobPart, DocPart, RestPart, TypeOK
<1> QED
  BY <1>1, Inv1Init, Inv1Step, PTL DEF Spec

-------------------------------------------------------------------------------
(* CountedOnce.  It is not inductive alone: between confirm_if_unconfirmed *)
(* and the commit, the addition and the confirmed row are pending.  What   *)
(* holds throughout is that an addition is pending only in the transaction *)
(* that holds the row lock, that this transaction's version of the row is  *)
(* confirmed and the committed one is not, and that every other lock       *)
(* holder's version agrees with the committed one.                         *)

AddsUnderLock ==
  \A t \in Txns : txn[t].adds = 1 => txn[t].pc # "idle" /\ lock[txn[t].doc] = t

Agrees(x, committed) ==
  /\ x.adds = 1 => x.row.confirmed /\ ~committed.confirmed
  /\ x.adds = 0 => x.row.confirmed = committed.confirmed

RowAgrees == \A d \in Docs : lock[d] # None => Agrees(txn[lock[d]], doc[d])

Inv2 == CountedOnce /\ AddsUnderLock /\ RowAgrees

LEMMA Inv2Init == Init => Inv2
  BY DEF Init, Inv2, CountedOnce, AddsUnderLock, RowAgrees, Idle, NoRow

(* Nothing is confirmed or counted by this step.                           *)
NothingCounted == usage' = usage /\ \A d \in Docs : doc'[d].confirmed = doc[d].confirmed

LEMMA SameCount ==
  ASSUME Inv2, NothingCounted
  PROVE  CountedOnce'
  BY DEF Inv2, CountedOnce, NothingCounted

LEMMA Move2 ==
  ASSUME Inv1, Inv2, NEW t \in Txns, NEW x \in Txn, Becomes(t, x), NothingCounted,
         \A d \in Docs : lock'[d] = lock[d] \/ {lock[d], lock'[d]} \subseteq {None, t},
         x.adds = 1 => x.pc # "idle" /\ x.doc \in Docs /\ lock'[x.doc] = t,
         \A d \in Docs : lock'[d] = t => Agrees(x, doc[d])
  PROVE  Inv2'
<1>1. txn'[t] = x /\ \A u \in Txns \ {t} : txn'[u] = txn[u]
  BY DEF Becomes, Inv1, TxnPart
<1>2. AddsUnderLock'
  <2> SUFFICES ASSUME NEW u \in Txns \ {t}, txn[u].adds = 1
               PROVE  txn[u].pc # "idle" /\ lock'[txn[u].doc] = u
    BY <1>1 DEF AddsUnderLock
  <2>1. txn[u].pc # "idle" /\ lock[txn[u].doc] = u /\ txn[u].doc \in Docs
    BY DEF Inv1, Inv2, AddsUnderLock, TxnPart, TxnWellFormed, Existing
  <2> QED
    BY <2>1
<1>3. RowAgrees'
  <2> SUFFICES ASSUME NEW d \in Docs, lock'[d] # None
               PROVE  Agrees(txn'[lock'[d]], doc'[d])
    BY DEF RowAgrees
  <2>1. CASE lock'[d] = t
    BY <1>1, <2>1 DEF Agrees, NothingCounted
  <2>2. CASE lock'[d] # t
    <3>1. lock'[d] = lock[d] /\ lock[d] \in Txns \ {t}
      BY <2>2 DEF Inv1, TxnPart
    <3>2. txn'[lock'[d]] = txn[lock[d]] /\ Agrees(txn[lock[d]], doc[d])
      BY <1>1, <3>1 DEF Inv2, RowAgrees
    <3> QED
      BY <3>1, <3>2 DEF Agrees, NothingCounted
  <2> QED
    BY <2>1, <2>2
<1> QED
  BY <1>2, <1>3, SameCount DEF Inv2

(* A transaction that begins, or ends without having written anything.     *)
LEMMA Fresh2 ==
  ASSUME Inv1, Inv2, NEW t \in Txns, NEW x \in Txn, Becomes(t, x), NothingCounted, x.adds = 0,
         \/ lock' = Released(t)
         \/ lock' = lock /\ (txn[t].pc \in Unlocked \/ lock[txn[t].doc] # t)
  PROVE  Inv2'
<1>1. ASSUME NEW d \in Docs
      PROVE  lock'[d] # t /\ (lock'[d] = lock[d] \/ (lock[d] = t /\ lock'[d] = None))
  <2>1. CASE lock' = Released(t)
    BY <2>1 DEF Released
  <2>2. CASE lock' = lock /\ (txn[t].pc \in Unlocked \/ lock[txn[t].doc] # t)
    BY <2>2 DEF Inv1, TxnPart, LockWellFormed
  <2> QED
    BY <2>1, <2>2
<1> QED
  BY <1>1, Move2

(* A step that neither takes a lock nor writes the row.                    *)
LEMMA Onward2 ==
  ASSUME Inv1, Inv2, NEW t \in Txns, NEW x \in Txn, Becomes(t, x), NothingCounted, lock' = lock,
         txn[t].pc # "idle", x.pc # "idle",
         x.doc = txn[t].doc, x.row = txn[t].row, x.adds = txn[t].adds
  PROVE  Inv2'
<1>1. x.doc \in Docs
  BY DEF Inv1, TxnPart, TxnWellFormed, Existing
<1>2. \A d \in Docs : lock'[d] = t => Agrees(x, doc[d])
  BY DEF Inv2, RowAgrees, Agrees
<1>3. x.adds = 1 => lock'[x.doc] = t
  BY DEF Inv2, AddsUnderLock
<1>4. \A d \in Docs : lock'[d] = lock[d]
  OBVIOUS
<1> QED
  BY <1>1, <1>2, <1>3, <1>4, Move2

LEMMA SameConfirmed ==
  ASSUME UNCHANGED <<doc, usage>>
  PROVE  NothingCounted
  BY DEF NothingCounted

LEMMA SetStatus2 ==
  ASSUME Inv1, Inv2, NEW t \in Txns, txn[t].pc # "idle", NEW s \in Statuses,
         NEW next \in PCs \ Unlocked, SetStatus(t, s, next), NothingCounted
  PROVE  Inv2'
<1> USE DEF Unlocked
<1>1. txn[t] \in Txn /\ Seen(t) \in Row /\ txn[t].doc \in Docs
  BY SeenRow DEF Inv1, TxnPart, TxnWellFormed, Existing
<1>2. CASE Becomes(t, [txn[t] EXCEPT !.pc = next]) /\ UNCHANGED lock
  <2> DEFINE x == [txn[t] EXCEPT !.pc = next]
  <2>1. /\ x \in Txn /\ x.pc = next /\ x.doc = txn[t].doc
        /\ x.row = txn[t].row /\ x.adds = txn[t].adds
    BY <1>1 DEF Txn, PCs
  <2>2. Becomes(t, x)
    BY <1>2
  <2> HIDE DEF x
  <2> QED
    BY <1>2, <2>1, <2>2, Onward2
<1>3. CASE /\ lock[txn[t].doc] \in {None, t}
           /\ lock' = [lock EXCEPT ![txn[t].doc] = t]
           /\ Becomes(t, [txn[t] EXCEPT !.pc = next, !.view = s,
                            !.row = [Seen(t) EXCEPT !.status = s, !.stale = FALSE]])
  <2> DEFINE d == txn[t].doc
             row == [Seen(t) EXCEPT !.status = s, !.stale = FALSE]
             x == [txn[t] EXCEPT !.pc = next, !.view = s, !.row = row]
  <2>1. row \in Row /\ row.confirmed = Seen(t).confirmed
    BY <1>1 DEF Row
  <2> HIDE DEF row
  <2>2. /\ x \in Txn /\ x.pc = next /\ x.doc = d
        /\ x.row = row /\ x.adds = txn[t].adds
    BY <1>1, <2>1 DEF Txn, PCs
  <2>3. Becomes(t, x)
    BY <1>3 DEF row
  <2> HIDE DEF x
  <2>4. \A c \in Docs : lock'[c] = lock[c] \/ {lock[c], lock'[c]} \subseteq {None, t}
    BY <1>3 DEF Inv1, TxnPart
  <2>5. \A c \in Docs : lock'[c] = t => c = d
    BY <1>3 DEF Inv1, TxnPart, LockWellFormed
  <2>6. \/ Agrees(txn[t], doc[d]) /\ Seen(t) = txn[t].row
        \/ txn[t].adds = 0 /\ Seen(t) = doc[d]
    <3>1. CASE lock[d] = t
      BY <1>1, <3>1 DEF Seen, Inv2, RowAgrees
    <3>2. CASE lock[d] # t
      BY <1>1, <3>2 DEF Seen, Inv2, AddsUnderLock, Txn
    <3> QED
      BY <3>1, <3>2
  <2>7. Agrees(x, doc[d])
    BY <1>1, <2>1, <2>2, <2>6 DEF Agrees, Txn
  <2>8. lock'[d] = t
    BY <1>1, <1>3 DEF Inv1, TxnPart
  <2> QED
    BY <1>1, <2>2, <2>3, <2>4, <2>5, <2>7, <2>8, Move2
<1> QED
  BY <1>2, <1>3 DEF SetStatus

(* A commit makes the pending addition and the confirmed row visible       *)
(* together.                                                               *)
LEMMA Install2 ==
  ASSUME Inv1, Inv2, NEW t \in Txns, txn[t].pc # "idle", Install(t),
         NEW x \in Txn, Becomes(t, x), x.adds = 0
  PROVE  Inv2'
<1> DEFINE d == txn[t].doc
           n == txn[t].adds
<1>1. d \in Docs /\ txn[t] \in Txn
  BY DEF Inv1, TxnPart, TxnWellFormed, Existing
<1>2. /\ doc' = [doc EXCEPT ![d] = Seen(t)]
      /\ usage' = [usage EXCEPT ![d] = @ + n]
      /\ lock' = Released(t)
  BY DEF Install
<1>3. txn'[t] = x /\ \A u \in Txns \ {t} : txn'[u] = txn[u]
  BY DEF Becomes, Inv1, TxnPart
<1>4. \A c \in Docs \ {d} : doc'[c] = doc[c] /\ usage'[c] = usage[c]
  BY <1>2 DEF Inv1, DocPart, RestPart
<1>5. doc'[d] = Seen(t) /\ usage'[d] = usage[d] + n
  BY <1>1, <1>2 DEF Inv1, DocPart, RestPart
<1>6. usage'[d] = IF doc'[d].confirmed THEN 1 ELSE 0
  <2>1. usage[d] = IF doc[d].confirmed THEN 1 ELSE 0
    BY <1>1 DEF Inv2, CountedOnce
  <2>2. CASE n = 1
    <3>1. Seen(t).confirmed /\ ~doc[d].confirmed
      BY <1>1, <2>2 DEF Inv2, AddsUnderLock, RowAgrees, Agrees, Seen
    <3> QED
      BY <1>5, <2>1, <2>2, <3>1
  <2>3. CASE n = 0
    <3>1. Seen(t).confirmed = doc[d].confirmed
      BY <1>1, <2>3 DEF Inv2, RowAgrees, Agrees, Seen
    <3> QED
      BY <1>5, <2>1, <2>3, <3>1
  <2> QED
    BY <1>1, <2>2, <2>3 DEF Txn
<1>7. CountedOnce'
  BY <1>4, <1>6 DEF Inv2, CountedOnce
<1>8. AddsUnderLock'
  <2> SUFFICES ASSUME NEW u \in Txns \ {t}, txn[u].adds = 1
               PROVE  txn[u].pc # "idle" /\ lock'[txn[u].doc] = u
    BY <1>3 DEF AddsUnderLock
  <2>1. txn[u].pc # "idle" /\ lock[txn[u].doc] = u /\ txn[u].doc \in Docs
    BY DEF Inv1, Inv2, AddsUnderLock, TxnPart, TxnWellFormed, Existing
  <2> QED
    BY <1>2, <2>1 DEF Released
<1>9. RowAgrees'
  <2> SUFFICES ASSUME NEW c \in Docs, lock'[c] # None
               PROVE  Agrees(txn'[lock'[c]], doc'[c])
    BY DEF RowAgrees
  <2>1. lock'[c] = lock[c] /\ lock[c] \in Txns \ {t}
    BY <1>2 DEF Released, Inv1, TxnPart
  <2>2. txn'[lock'[c]] = txn[lock[c]] /\ Agrees(txn[lock[c]], doc[c])
    BY <1>3, <2>1 DEF Inv2, RowAgrees
  <2>3. doc'[c] = doc[c]
    <3>1. CASE c = d
      BY <1>5, <2>1, <3>1 DEF Seen
    <3>2. CASE c # d
      BY <1>4, <3>2
    <3> QED
      BY <3>1, <3>2
  <2> QED
    BY <2>2, <2>3
<1> QED
  BY <1>7, <1>8, <1>9 DEF Inv2

LEMMA IdleFresh == Idle.adds = 0 /\ Idle.stored = {} /\ Idle.cleared = {}
  BY DEF Idle

LEMMA BeginFresh ==
  ASSUME NEW pc, NEW d, NEW j, NEW v
  PROVE  LET x == Begin(pc, d, j, v) IN x.adds = 0 /\ x.stored = {} /\ x.cleared = {}
  BY DEF Begin, Idle

LEMMA Inv2Step == Inv1 /\ Inv2 /\ [Next]_vars => Inv2'
<1> SUFFICES ASSUME Inv1, Inv2, [Next]_vars PROVE Inv2'
  OBVIOUS
<1> USE DEF Unlocked
<1>1. \A t \in Txns : txn[t] \in Txn /\ (txn[t].pc # "idle" => txn[t].doc \in Existing)
  BY DEF Inv1, TxnPart, TxnWellFormed
<1>2. CASE UNCHANGED vars
  BY <1>2 DEF vars, Inv2, CountedOnce, AddsUnderLock, RowAgrees
<1>3. ASSUME NEW d \in Docs, ClientStep(d) PROVE Inv2'
  <2>1. UNCHANGED <<usage, lock, txn>>
    BY <1>3 DEF ClientStep, PresignUpload, PutObject, GrowStale
  <2>2. \A c \in Docs : doc'[c].confirmed = doc[c].confirmed
    BY <1>3 DEF ClientStep, PresignUpload, PutObject, GrowStale, Inv1, DocPart, Row
  <2> QED
    BY <2>1, <2>2 DEF Inv2, CountedOnce, AddsUnderLock, RowAgrees, Agrees
<1>4. ASSUME NEW r \in Requests, RequestStep(r) PROVE Inv2'
  <2>1. ASSUME NEW d \in Docs, ConfirmRead(r, d) \/ ReprocessRead(r, d) PROVE Inv2'
    <3>1. PICK pc \in PCs : Becomes(r, Begin(pc, d, None, doc[d].status))
      BY <2>1, Names DEF ConfirmRead, ReprocessRead
    <3> DEFINE x == Begin(pc, d, None, doc[d].status)
    <3>2. /\ UNCHANGED <<doc, usage, lock>> /\ txn[r].pc = "idle"
          /\ doc[d].status \in Statuses
      BY <2>1 DEF ConfirmRead, ReprocessRead, Present, Inv1, DocPart, Row
    <3>3. x \in Txn /\ x.adds = 0
      BY <3>2, BeginRecord, BeginFresh
    <3> HIDE DEF x
    <3>4. Becomes(r, x)
      BY <3>1 DEF x
    <3> QED
      BY <3>2, <3>3, <3>4, SameConfirmed, Fresh2
  <2>2. ASSUME NEW d \in Docs, DeleteDocument(r, d) PROVE Inv2'
    <3> DEFINE row == [doc[d] EXCEPT !.deleted = TRUE, !.stale = FALSE]
               b == Begin("request_commit", d, None, doc[d].status)
               x == [b EXCEPT !.row = row]
    <3>1. /\ UNCHANGED <<doc, usage>> /\ txn[r].pc = "idle"
          /\ lock[d] = None /\ lock' = [lock EXCEPT ![d] = r]
          /\ doc[d] \in Row /\ doc[d].status \in Statuses
      BY <2>2 DEF DeleteDocument, Present, Inv1, DocPart, Row
    <3>2. row \in Row /\ row.confirmed = doc[d].confirmed
      BY <3>1 DEF Row
    <3> HIDE DEF row
    <3>3. b \in Txn /\ b.adds = 0
      BY <3>1, BeginRecord, BeginFresh, Names
    <3> HIDE DEF b
    <3>4. x \in Txn /\ x.adds = 0 /\ x.row = row
      BY <3>2, <3>3 DEF Txn
    <3>5. Becomes(r, x)
      BY <2>2 DEF DeleteDocument, row, b
    <3> HIDE DEF x
    <3>6. \A c \in Docs : lock'[c] = lock[c] \/ {lock[c], lock'[c]} \subseteq {None, r}
      BY <3>1 DEF Inv1, TxnPart
    <3>7. \A c \in Docs : lock'[c] = r => c = d
      BY <3>1 DEF Inv1, TxnPart, LockWellFormed
    <3> QED
      BY <3>1, <3>2, <3>4, <3>5, <3>6, <3>7, SameConfirmed, Move2 DEF Agrees
  <2>3. CASE ConfirmLost(r)
    <3>1. txn[r].pc = "confirm" /\ lock[txn[r].doc] = None
      BY <2>3 DEF ConfirmLost
    <3> QED
      BY <2>3, <3>1, IdleRecord, IdleFresh, SameConfirmed, Fresh2 DEF ConfirmLost
  <2>4. CASE ConfirmWrite(r)
    <3> DEFINE d == txn[r].doc
               row == [doc[d] EXCEPT !.confirmed = TRUE, !.stale = FALSE]
               x == [txn[r] EXCEPT !.pc = "request_commit", !.adds = 1, !.row = row]
    <3>1. /\ Becomes(r, x) /\ UNCHANGED <<doc, usage>>
          /\ lock[d] = None /\ lock' = [lock EXCEPT ![d] = r]
          /\ ~doc[d].confirmed
          /\ txn[r].pc # "idle"
      BY <2>4 DEF ConfirmWrite
    <3>2. d \in Docs /\ doc[d] \in Row
      BY <1>1, <3>1 DEF Existing, Inv1, DocPart
    <3>3. row \in Row /\ row.confirmed = TRUE
      BY <3>2 DEF Row
    <3> HIDE DEF row
    <3>4. x \in Txn /\ x.adds = 1 /\ x.row = row /\ x.doc = d /\ x.pc # "idle"
      BY ZenonT(60), <1>1, <3>3, Names DEF Txn, PCs
    <3> HIDE DEF x
    <3>5. \A c \in Docs : lock'[c] = lock[c] \/ {lock[c], lock'[c]} \subseteq {None, r}
      BY <3>1 DEF Inv1, TxnPart
    <3>6. lock'[d] = r /\ \A c \in Docs : lock'[c] = r => c = d
      BY <3>1, <3>2 DEF Inv1, TxnPart, LockWellFormed
    <3>7. Agrees(x, doc[d])
      BY <3>1, <3>3, <3>4 DEF Agrees
    <3> QED
      BY <3>1, <3>2, <3>4, <3>5, <3>6, <3>7, SameConfirmed, Move2
  <2>5. CASE ReprocessClear(r)
    <3> DEFINE x == [txn[r] EXCEPT !.pc = "requeue", !.cleared = chunks[txn[r].doc]]
    <3>1. Becomes(r, x) /\ UNCHANGED <<doc, usage, lock>> /\ txn[r].pc # "idle"
      BY <2>5 DEF ReprocessClear, DeleteChunks
    <3>2. chunks[txn[r].doc] \in SUBSET JobIds
      BY <1>1, <3>1 DEF Existing, Inv1, RestPart
    <3>3. /\ x \in Txn /\ x.pc = "requeue" /\ x.doc = txn[r].doc
          /\ x.row = txn[r].row /\ x.adds = txn[r].adds
      BY ZenonT(60), <1>1, <3>2, Names DEF Txn, PCs
    <3> HIDE DEF x
    <3> QED
      BY <3>1, <3>3, SameConfirmed, Onward2
  <2>6. CASE ReprocessEnqueue(r)
    BY <2>6, SameConfirmed, SetStatus2, Names DEF ReprocessEnqueue
  <2>7. CASE ReprocessGone(r) \/ AbortRequest(r)
    BY <2>7, IdleRecord, IdleFresh, SameConfirmed, Fresh2 DEF ReprocessGone, AbortRequest, Discard
  <2>8. CASE CommitRequest(r)
    BY <2>8, IdleRecord, IdleFresh, Install2 DEF CommitRequest
  <2> QED
    BY <1>4, <2>1, <2>2, <2>3, <2>4, <2>5, <2>6, <2>7, <2>8 DEF RequestStep
<1>5. ASSUME NEW w \in Workers, WorkerStep(w) \/ CrashWorker(w) \/ TimeOutJob(w) PROVE Inv2'
  <2>1. ASSUME NEW j \in JobIds, TakeJob(w, j) PROVE Inv2'
    <3> DEFINE d == job[j].doc
               pc == IF doc[d].deleted \/ doc[d].status = "ready" THEN "ack" ELSE "start"
               x == Begin(pc, d, j, doc[d].status)
    <3>1. /\ Becomes(w, x) /\ UNCHANGED <<doc, usage, lock>>
          /\ txn[w].pc = "idle" /\ job[j].state # "free"
      BY <2>1 DEF TakeJob
    <3>2. d \in Docs /\ doc[d].status \in Statuses /\ pc \in PCs
      BY <3>1, Names DEF Inv1, JobPart, JobWellFormed, Existing, DocPart, Row
    <3> HIDE DEF d, pc
    <3>3. x \in Txn /\ x.adds = 0
      BY <3>2, BeginRecord, BeginFresh
    <3> HIDE DEF x
    <3> QED
      BY <3>1, <3>3, SameConfirmed, Fresh2
  <2>2. CASE StartExtracting(w) \/ Chunk(w) \/ Publish(w)
    <3>1. PICK s \in Statuses, next \in PCs \ Unlocked : SetStatus(w, s, next)
      BY <2>2, Names DEF StartExtracting, Chunk, Publish
    <3> QED
      BY <2>2, <3>1, SameConfirmed, SetStatus2 DEF StartExtracting, Chunk, Publish, At
  <2>3. ASSUME NEW pc \in PCs \ Unlocked, Goto(w, pc), txn[w].pc # "idle",
               UNCHANGED <<doc, usage>>
        PROVE  Inv2'
    <3> DEFINE x == [txn[w] EXCEPT !.pc = pc]
    <3>1. /\ x \in Txn /\ x.pc = pc /\ x.doc = txn[w].doc
          /\ x.row = txn[w].row /\ x.adds = txn[w].adds
      BY <1>1 DEF Txn, PCs
    <3>2. Becomes(w, x) /\ UNCHANGED lock
      BY <2>3 DEF Goto
    <3> HIDE DEF x
    <3> QED
      BY <2>3, <3>1, <3>2, SameConfirmed, Onward2
  <2>4. CASE Extract(w)
    <3>1. txn[w].pc # "idle" /\ UNCHANGED <<doc, usage>>
      BY <2>4 DEF Extract, At
    <3>2. CASE Goto(w, "raise")
      BY <2>3, <3>1, <3>2, Names
    <3>3. CASE SetStatus(w, "chunking", "chunking") \/ SetStatus(w, "failed", "job_commit")
      BY <3>1, <3>3, SameConfirmed, SetStatus2, Names
    <3> QED
      BY <2>4, <3>2, <3>3 DEF Extract
  <2>5. CASE Embed(w)
    BY <2>3, <2>5, Names DEF Embed, At
  <2>6. CASE ClearChunks(w)
    <3> DEFINE x == [txn[w] EXCEPT !.pc = "insert", !.cleared = chunks[txn[w].doc]]
    <3>1. Becomes(w, x) /\ UNCHANGED <<doc, usage, lock>> /\ txn[w].pc # "idle"
      BY <2>6 DEF ClearChunks, DeleteChunks
    <3>2. chunks[txn[w].doc] \in SUBSET JobIds
      BY <1>1, <3>1 DEF Existing, Inv1, RestPart
    <3>3. /\ x \in Txn /\ x.pc = "insert" /\ x.doc = txn[w].doc
          /\ x.row = txn[w].row /\ x.adds = txn[w].adds
      BY ZenonT(60), <1>1, <3>2, Names DEF Txn, PCs
    <3> HIDE DEF x
    <3> QED
      BY <3>1, <3>3, SameConfirmed, Onward2
  <2>7. CASE InsertChunks(w)
    <3> DEFINE x == [txn[w] EXCEPT !.pc = "publish", !.stored = {txn[w].job}]
    <3>1. txn[w].pc # "idle" /\ UNCHANGED <<doc, usage>>
      BY <2>7 DEF InsertChunks, At
    <3>2. CASE Goto(w, "abort")
      BY <2>3, <3>1, <3>2, Names
    <3>3. CASE Becomes(w, x) /\ UNCHANGED lock
      <4>1. {txn[w].job} \in SUBSET JobIds
        BY <3>1 DEF Inv1, WorkerHasJob
      <4>2. /\ x \in Txn /\ x.pc = "publish" /\ x.doc = txn[w].doc
            /\ x.row = txn[w].row /\ x.adds = txn[w].adds
        BY ZenonT(60), <1>1, <4>1, Names DEF Txn, PCs
      <4>3. Becomes(w, x)
        BY <3>3
      <4> HIDE DEF x
      <4> QED
        BY <3>1, <3>3, <4>2, <4>3, SameConfirmed, Onward2
    <3> QED
      BY <2>7, <3>2, <3>3 DEF InsertChunks
  <2>8. CASE CommitJob(w) \/ RollBackJob(w)
    <3>1. PICK pc \in PCs : Becomes(w, Ended(w, pc))
      BY <2>8, Names DEF CommitJob, RollBackJob
    <3> DEFINE x == Ended(w, pc)
    <3>2. txn[w].pc # "idle"
      BY <2>8 DEF CommitJob, RollBackJob
    <3>3. x \in Txn /\ x.adds = 0
      BY <3>2, EndedRecord, BeginFresh DEF Ended
    <3> HIDE DEF x
    <3>4. Becomes(w, x)
      BY <3>1 DEF x
    <3>5. CASE Install(w)
      BY <3>2, <3>3, <3>4, <3>5, Install2
    <3>6. CASE Discard(w)
      BY <3>3, <3>4, <3>6, SameConfirmed, Fresh2 DEF Discard
    <3> QED
      BY <2>8, <3>5, <3>6 DEF CommitJob, RollBackJob
  <2>9. CASE RetryLater(w) \/ GiveUp(w) \/ FinishJob(w)
    <3>1. /\ Becomes(w, Idle) /\ UNCHANGED <<usage, lock>>
          /\ txn[w].pc \in {"callback", "ack"}
      BY <2>9 DEF RetryLater, GiveUp, FinishJob
    <3>2. \A c \in Docs : doc'[c].confirmed = doc[c].confirmed
      BY <2>9, SMTT(30) DEF RetryLater, GiveUp, FinishJob, Inv1, DocPart, Row
    <3> QED
      BY <3>1, <3>2, IdleRecord, IdleFresh, Fresh2 DEF NothingCounted
  <2>10. CASE CrashWorker(w)
    <3>1. Discard(w) /\ txn[w].pc # "idle"
      BY <2>10 DEF CrashWorker
    <3>2. CASE Becomes(w, Idle)
      BY <3>1, <3>2, IdleRecord, IdleFresh, SameConfirmed, Fresh2 DEF Discard
    <3>3. CASE Becomes(w, Ended(w, "callback"))
      <4> DEFINE x == Ended(w, "callback")
      <4>1. x \in Txn /\ x.adds = 0
        BY <3>1, EndedRecord, BeginFresh, Names DEF Ended
      <4>2. Becomes(w, x)
        BY <3>3
      <4> HIDE DEF x
      <4> QED
        BY <3>1, <4>1, <4>2, SameConfirmed, Fresh2 DEF Discard
    <3> QED
      BY <2>10, <3>2, <3>3 DEF CrashWorker
  <2>11. CASE TimeOutJob(w)
    <3>1. PICK pc \in PCs \ {"idle"} : Goto(w, pc)
      BY <2>11, Names DEF TimeOutJob
    <3> DEFINE x == [txn[w] EXCEPT !.pc = pc]
    <3>2. /\ x \in Txn /\ x.pc = pc /\ x.doc = txn[w].doc
          /\ x.row = txn[w].row /\ x.adds = txn[w].adds
      BY <1>1 DEF Txn, PCs
    <3>3. Becomes(w, x) /\ UNCHANGED <<doc, usage, lock>> /\ txn[w].pc # "idle"
      BY <2>11, <3>1 DEF Goto, TimeOutJob
    <3> HIDE DEF x
    <3> QED
      BY <3>2, <3>3, SameConfirmed, Onward2
  <2> QED
    BY <1>5, <2>1, <2>2, <2>4, <2>5, <2>6, <2>7, <2>8, <2>9, <2>10, <2>11 DEF WorkerStep
<1>6. ASSUME NEW j \in JobIds, RetryDue(j) PROVE Inv2'
  BY <1>6 DEF RetryDue, Inv2, CountedOnce, AddsUnderLock, RowAgrees
<1>7. ASSUME NEW r \in Requests, NEW w \in Workers, BreakDeadlock(r, w) PROVE Inv2'
  <2>1. CASE Discard(r) /\ Becomes(r, Idle)
    BY <2>1, IdleRecord, IdleFresh, SameConfirmed, Fresh2 DEF Discard
  <2>2. CASE Discard(w) /\ Becomes(w, Ended(w, "callback"))
    <3> DEFINE x == Ended(w, "callback")
    <3>1. x \in Txn /\ x.adds = 0
      BY <1>7, EndedRecord, BeginFresh, Names DEF Ended, BreakDeadlock
    <3>2. Becomes(w, x)
      BY <2>2
    <3> HIDE DEF x
    <3> QED
      BY <2>2, <3>1, <3>2, SameConfirmed, Fresh2 DEF Discard
  <2> QED
    BY <1>7, <2>1, <2>2 DEF BreakDeadlock
<1> QED
  BY <1>2, <1>3, <1>4, <1>5, <1>6, <1>7 DEF Next

(* However many confirms of a document race, are repeated or abort, its    *)
(* size is added to the usage counter exactly when it becomes confirmed    *)
(* (confirm_if_unconfirmed and the single commit of confirm_upload).       *)
THEOREM CountedOnceCorrect == Spec => []CountedOnce
<1>1. Inv2 => CountedOnce
  BY DEF Inv2
<1>2. Init => Inv1 /\ Inv2
  BY Inv1Init, Inv2Init
<1>3. Inv1 /\ Inv2 /\ [Next]_vars => Inv1' /\ Inv2'
  BY Inv1Step, Inv2Step
<1> QED
  BY <1>1, <1>2, <1>3, PTL DEF Spec

-------------------------------------------------------------------------------
(* OneGeneration.  The inductive invariant is about the chunk deletes and  *)
(* inserts that are pending: only one transaction at a time has deleted    *)
(* chunk rows of a document, and one that has inserted some has deleted    *)
(* all the committed ones and is alone in having touched any.              *)

Touched(x) == x.cleared # {} \/ x.stored # {}

SameDoc(t, u) == txn[t].doc = txn[u].doc

OneJobStores == \A t \in Txns : \A i, j \in txn[t].stored : i = j

ClearsAlone ==
  \A t, u \in Txns : t # u /\ SameDoc(t, u) => txn[t].cleared = {} \/ txn[u].cleared = {}

StoresAlone ==
  \A t \in Txns : txn[t].stored # {} =>
    /\ txn[t].doc \in Docs /\ chunks[txn[t].doc] \subseteq txn[t].cleared
    /\ \A u \in Txns : u # t /\ SameDoc(t, u) => ~Touched(txn[u])

Inv3 == OneGeneration /\ OneJobStores /\ ClearsAlone /\ StoresAlone

LEMMA Inv3Init == Init => Inv3
  BY DEF Init, Inv3, OneGeneration, OneJobStores, ClearsAlone, StoresAlone, Idle

(* A transaction that has touched no chunks, or no others than before.     *)
LEMMA Move3 ==
  ASSUME Inv1, Inv3, NEW t \in Txns, NEW x \in Txn, Becomes(t, x), chunks' = chunks,
         \/ ~Touched(x)
         \/ x.doc = txn[t].doc /\ x.cleared = txn[t].cleared /\ x.stored = txn[t].stored
  PROVE  Inv3'
<1>1. txn'[t] = x /\ \A u \in Txns \ {t} : txn'[u] = txn[u]
  BY DEF Becomes, Inv1, TxnPart
<1>2. OneJobStores'
  BY <1>1 DEF Inv3, OneJobStores, Touched
<1>3. ClearsAlone'
  BY <1>1 DEF Inv3, ClearsAlone, SameDoc, Touched
<1>4. StoresAlone'
  BY <1>1 DEF Inv3, StoresAlone, SameDoc, Touched
<1> QED
  BY <1>2, <1>3, <1>4 DEF Inv3, OneGeneration

(* A DELETE of the committed chunks, which waits for its rivals.           *)
LEMMA DeleteChunks3 ==
  ASSUME Inv1, Inv3, NEW t \in Txns, txn[t].pc # "idle", NEW pc \in PCs, DeleteChunks(t, pc)
  PROVE  Inv3'
<1> DEFINE x == [txn[t] EXCEPT !.pc = pc, !.cleared = chunks[txn[t].doc]]
<1>1. /\ Becomes(t, x) /\ chunks' = chunks
      /\ \A u \in Txns : u # t /\ SameDoc(t, u) => txn[u].cleared = {}
  BY DEF DeleteChunks, Rivals, SameDoc
<1>2. txn[t].doc \in Docs /\ txn[t] \in Txn
  BY DEF Inv1, TxnPart, TxnWellFormed, Existing
<1>3. chunks[txn[t].doc] \in SUBSET JobIds
  BY <1>2 DEF Inv1, RestPart
<1>4. /\ x \in Txn /\ x.doc = txn[t].doc /\ x.stored = txn[t].stored
      /\ x.cleared = chunks[txn[t].doc]
  BY <1>2, <1>3 DEF Txn, PCs
<1> HIDE DEF x
<1>5. txn'[t] = x /\ \A u \in Txns \ {t} : txn'[u] = txn[u]
  BY <1>1 DEF Becomes, Inv1, TxnPart
<1>6. OneJobStores'
  BY <1>4, <1>5 DEF Inv3, OneJobStores
<1>7. ClearsAlone'
  BY <1>1, <1>4, <1>5 DEF Inv3, ClearsAlone, SameDoc
(* A rival with pending inserts has, when its deletes are empty, found no  *)
(* committed chunks: this DELETE finds none either.                        *)
<1>8. StoresAlone'
  <2>1. ASSUME NEW u \in Txns, u # t, txn[u].stored # {}, SameDoc(t, u)
        PROVE  x.cleared = {} /\ x.stored = {}
    BY <1>1, <1>4, <2>1 DEF Inv3, StoresAlone, SameDoc, Touched
  <2>2. ASSUME NEW u \in Txns, txn'[u].stored # {}
        PROVE  /\ txn'[u].doc \in Docs /\ chunks[txn'[u].doc] \subseteq txn'[u].cleared
               /\ \A v \in Txns : v # u /\ txn'[u].doc = txn'[v].doc => ~Touched(txn'[v])
    <3>1. CASE u = t
      BY <1>2, <1>4, <1>5, <2>2, <3>1 DEF Inv3, StoresAlone, SameDoc
    <3>2. CASE u # t
      <4>1. txn'[u] = txn[u]
        BY <1>5, <3>2
      <4>2. ASSUME NEW v \in Txns, v # u, txn'[u].doc = txn'[v].doc
            PROVE  ~Touched(txn'[v])
        BY <1>4, <1>5, <2>1, <2>2, <3>2, <4>1, <4>2 DEF Inv3, StoresAlone, SameDoc, Touched
      <4> QED
        BY <2>2, <4>1, <4>2 DEF Inv3, StoresAlone
    <3> QED
      BY <3>1, <3>2
  <2> QED
    BY <1>1, <2>2 DEF StoresAlone, SameDoc
<1> QED
  BY <1>1, <1>6, <1>7, <1>8 DEF Inv3, OneGeneration

(* A commit replaces the chunks by the inserted ones, or deletes some.     *)
LEMMA Install3 ==
  ASSUME Inv1, Inv3, NEW t \in Txns, txn[t].pc # "idle", Install(t),
         NEW x \in Txn, Becomes(t, x), ~Touched(x)
  PROVE  Inv3'
<1> DEFINE d == txn[t].doc
<1>1. d \in Docs /\ txn'[t] = x /\ \A u \in Txns \ {t} : txn'[u] = txn[u]
  BY DEF Becomes, Inv1, TxnPart, TxnWellFormed, Existing
<1>2. /\ \A c \in Docs \ {d} : chunks'[c] = chunks[c]
      /\ chunks'[d] = (chunks[d] \ txn[t].cleared) \cup txn[t].stored
  BY <1>1 DEF Install, Inv1, RestPart
<1>3. OneGeneration'
  <2>1. \A i, j \in chunks'[d] : i = j
    <3>1. CASE txn[t].stored = {}
      BY <1>1, <1>2, <3>1 DEF Inv3, OneGeneration
    <3>2. CASE txn[t].stored # {}
      <4>1. chunks'[d] = txn[t].stored
        BY <1>2, <3>2 DEF Inv3, StoresAlone
      <4> QED
        BY <4>1 DEF Inv3, OneJobStores
    <3> QED
      BY <3>1, <3>2
  <2> QED
    BY <1>2, <2>1 DEF Inv3, OneGeneration
<1>4. OneJobStores'
  BY <1>1 DEF Inv3, OneJobStores, Touched
<1>5. ClearsAlone'
  BY <1>1 DEF Inv3, ClearsAlone, SameDoc, Touched
<1>6. StoresAlone'
  <2>1. ASSUME NEW u \in Txns, txn'[u].stored # {}
        PROVE  /\ txn'[u].doc \in Docs /\ chunks'[txn'[u].doc] \subseteq txn'[u].cleared
               /\ \A v \in Txns : v # u /\ txn'[u].doc = txn'[v].doc => ~Touched(txn'[v])
    <3>1. u # t /\ txn'[u] = txn[u]
      BY <1>1, <2>1 DEF Touched
    <3>2. txn[u].doc \in Docs /\ chunks[txn[u].doc] \subseteq txn[u].cleared
      BY <2>1, <3>1 DEF Inv3, StoresAlone
    <3>3. chunks'[txn[u].doc] = chunks[txn[u].doc]
      <4>1. CASE txn[u].doc = d
        <5>1. txn[t].cleared = {} /\ txn[t].stored = {}
          BY <2>1, <3>1, <4>1 DEF Inv3, StoresAlone, SameDoc, Touched
        <5> QED
          BY <1>2, <4>1, <5>1
      <4>2. CASE txn[u].doc # d
        BY <1>2, <3>2, <4>2
      <4> QED
        BY <4>1, <4>2
    <3>4. ASSUME NEW v \in Txns, v # u, txn'[u].doc = txn'[v].doc
          PROVE  ~Touched(txn'[v])
      BY <1>1, <2>1, <3>1, <3>4 DEF Inv3, StoresAlone, SameDoc, Touched
    <3> QED
      BY <3>1, <3>2, <3>3, <3>4
  <2> QED
    BY <2>1 DEF StoresAlone, SameDoc
<1> QED
  BY <1>3, <1>4, <1>5, <1>6 DEF Inv3

(* An INSERT, which waits for its rivals and meets the unique index.       *)
LEMMA InsertChunks3 ==
  ASSUME Inv1, Inv3, NEW w \in Workers, InsertChunks(w)
  PROVE  Inv3'
<1>1. w \in Txns /\ txn[w] \in Txn /\ txn[w].pc # "idle" /\ chunks' = chunks
  BY DEF InsertChunks, At, Inv1, TxnPart
<1>2. CASE Goto(w, "abort")
  <2> DEFINE x == [txn[w] EXCEPT !.pc = "abort"]
  <2>1. /\ x \in Txn /\ x.doc = txn[w].doc
        /\ x.cleared = txn[w].cleared /\ x.stored = txn[w].stored
    BY <1>1, Names DEF Txn, PCs
  <2>2. Becomes(w, x)
    BY <1>2 DEF Goto
  <2> HIDE DEF x
  <2> QED
    BY <1>1, <2>1, <2>2, Move3
<1>3. CASE /\ chunks[txn[w].doc] \subseteq txn[w].cleared
           /\ Becomes(w, [txn[w] EXCEPT !.pc = "publish", !.stored = {txn[w].job}])
  <2> DEFINE x == [txn[w] EXCEPT !.pc = "publish", !.stored = {txn[w].job}]
  <2>1. txn[w].job \in JobIds /\ txn[w].doc \in Docs
    BY <1>1 DEF Inv1, WorkerHasJob, TxnPart, TxnWellFormed, Existing
  <2>2. /\ x.doc = txn[w].doc /\ x.cleared = txn[w].cleared
        /\ x.stored = {txn[w].job}
    BY <1>1 DEF Txn
  <2>3. txn'[w] = x /\ \A u \in Txns \ {w} : txn'[u] = txn[u]
    BY <1>1, <1>3 DEF Becomes, Inv1, TxnPart
  <2> HIDE DEF x
  <2>4. \A u \in Txns : u # w /\ SameDoc(w, u) => ~Touched(txn[u])
    BY DEF InsertChunks, Rivals, SameDoc, Touched
  <2>5. OneJobStores'
    BY <2>2, <2>3 DEF Inv3, OneJobStores
  <2>6. ClearsAlone'
    BY <2>2, <2>3 DEF Inv3, ClearsAlone, SameDoc
  <2>7. StoresAlone'
    <3>1. ASSUME NEW u \in Txns, txn'[u].stored # {}
          PROVE  /\ txn'[u].doc \in Docs /\ chunks[txn'[u].doc] \subseteq txn'[u].cleared
                 /\ \A v \in Txns : v # u /\ txn'[u].doc = txn'[v].doc => ~Touched(txn'[v])
      <4>1. CASE u = w
        BY <1>3, <2>1, <2>2, <2>3, <2>4, <4>1 DEF SameDoc
      <4>2. CASE u # w
        <5>1. txn'[u] = txn[u]
          BY <2>3, <4>2
        <5>2. txn[u].doc # txn[w].doc
          BY <2>4, <3>1, <4>2, <5>1 DEF SameDoc, Touched
        <5>3. ASSUME NEW v \in Txns, v # u, txn'[u].doc = txn'[v].doc
              PROVE  ~Touched(txn'[v])
          BY <2>2, <2>3, <3>1, <5>1, <5>2, <5>3 DEF Inv3, StoresAlone, SameDoc
        <5> QED
          BY <3>1, <5>1, <5>3 DEF Inv3, StoresAlone
      <4> QED
        BY <4>1, <4>2
    <3> QED
      BY <1>1, <3>1 DEF StoresAlone, SameDoc
  <2> QED
    BY <1>1, <2>5, <2>6, <2>7 DEF Inv3, OneGeneration
<1> QED
  BY <1>2, <1>3 DEF InsertChunks

(* Every other step of a transaction leaves what it has touched as it is,  *)
(* or starts from nothing.                                                 *)
LEMMA Begin3 ==
  ASSUME Inv1, Inv3, NEW t \in Txns, NEW pc \in PCs, NEW d \in Docs, NEW j \in JobIds \cup {None},
         NEW v \in Statuses, Becomes(t, Begin(pc, d, j, v)), chunks' = chunks
  PROVE  Inv3'
<1> DEFINE x == Begin(pc, d, j, v)
<1>1. x \in Txn /\ ~Touched(x)
  BY BeginRecord, BeginFresh DEF Touched
<1>2. Becomes(t, x)
  OBVIOUS
<1> HIDE DEF x
<1> QED
  BY <1>1, <1>2, Move3

LEMMA Idle3 ==
  ASSUME Inv1, Inv3, NEW t \in Txns, Becomes(t, Idle), chunks' = chunks
  PROVE  Inv3'
  BY IdleRecord, IdleFresh, Move3 DEF Touched

LEMMA Ended3 ==
  ASSUME Inv1, Inv3, NEW w \in Workers, txn[w].pc # "idle", NEW pc \in PCs,
         Becomes(w, Ended(w, pc)), chunks' = chunks \/ Install(w)
  PROVE  Inv3'
<1> DEFINE x == Ended(w, pc)
<1>1. x \in Txn /\ ~Touched(x)
  BY EndedRecord, BeginFresh DEF Ended, Touched
<1>2. Becomes(w, x)
  OBVIOUS
<1> HIDE DEF x
<1> QED
  BY <1>1, <1>2, Move3, Install3

LEMMA SetStatus3 ==
  ASSUME Inv1, Inv3, NEW t \in Txns, txn[t].pc # "idle", NEW s \in Statuses,
         NEW next \in PCs, SetStatus(t, s, next), chunks' = chunks
  PROVE  Inv3'
<1>1. txn[t] \in Txn /\ Seen(t) \in Row
  BY SeenRow DEF Inv1, TxnPart
<1> DEFINE x == [txn[t] EXCEPT !.pc = next]
           row == [Seen(t) EXCEPT !.status = s, !.stale = FALSE]
           y == [txn[t] EXCEPT !.pc = next, !.view = s, !.row = row]
<1>2. x \in Txn /\ x.doc = txn[t].doc /\ x.cleared = txn[t].cleared /\ x.stored = txn[t].stored
  BY <1>1 DEF Txn, PCs
<1>3. row \in Row
  BY <1>1 DEF Row
<1>4. Becomes(t, x) \/ Becomes(t, y)
  BY DEF SetStatus
<1> HIDE DEF row
<1>5. y \in Txn /\ y.doc = txn[t].doc /\ y.cleared = txn[t].cleared /\ y.stored = txn[t].stored
  BY <1>1, <1>3 DEF Txn, PCs
<1> HIDE DEF x, y
<1> QED
  BY <1>2, <1>4, <1>5, Move3

LEMMA Goto3 ==
  ASSUME Inv1, Inv3, NEW w \in Workers, NEW pc \in PCs, Goto(w, pc), chunks' = chunks
  PROVE  Inv3'
<1> DEFINE x == [txn[w] EXCEPT !.pc = pc]
<1>1. x \in Txn /\ x.doc = txn[w].doc /\ x.cleared = txn[w].cleared /\ x.stored = txn[w].stored
  BY DEF Txn, PCs, Inv1, TxnPart
<1>2. Becomes(w, x)
  BY DEF Goto
<1> HIDE DEF x
<1> QED
  BY <1>1, <1>2, Move3

LEMMA Inv3Step == Inv1 /\ Inv3 /\ [Next]_vars => Inv3'
<1> SUFFICES ASSUME Inv1, Inv3, [Next]_vars PROVE Inv3'
  OBVIOUS
<1>1. UNCHANGED <<chunks, txn>> => Inv3'
  BY DEF Inv3, OneGeneration, OneJobStores, ClearsAlone, StoresAlone, SameDoc
<1>2. CASE UNCHANGED vars
  BY <1>1, <1>2 DEF vars
<1>3. ASSUME NEW d \in Docs, ClientStep(d) PROVE Inv3'
  BY <1>1, <1>3 DEF ClientStep, PresignUpload, PutObject, GrowStale
<1>4. ASSUME NEW r \in Requests, RequestStep(r) PROVE Inv3'
  <2>1. ASSUME NEW d \in Docs, ConfirmRead(r, d) \/ ReprocessRead(r, d) PROVE Inv3'
    <3>1. /\ chunks' = chunks /\ doc[d].status \in Statuses
          /\ \/ Becomes(r, Begin("confirm", d, None, doc[d].status))
             \/ Becomes(r, Begin("reprocess", d, None, doc[d].status))
      BY <2>1 DEF ConfirmRead, ReprocessRead, Present, Inv1, DocPart, Row
    <3> QED
      BY <3>1, Begin3, Names
  <2>2. ASSUME NEW d \in Docs, DeleteDocument(r, d) PROVE Inv3'
    <3> DEFINE row == [doc[d] EXCEPT !.deleted = TRUE, !.stale = FALSE]
               b == Begin("request_commit", d, None, doc[d].status)
               x == [b EXCEPT !.row = row]
    <3>1. chunks' = chunks /\ doc[d] \in Row /\ doc[d].status \in Statuses
      BY <2>2 DEF DeleteDocument, Present, Inv1, DocPart, Row
    <3>2. row \in Row
      BY <3>1 DEF Row
    <3>3. b \in Txn /\ ~Touched(b)
      BY <3>1, BeginRecord, BeginFresh, Names DEF Touched
    <3>4. Becomes(r, x)
      BY <2>2 DEF DeleteDocument
    <3> HIDE DEF row, b
    <3>5. x \in Txn /\ ~Touched(x)
      BY <3>2, <3>3 DEF Txn, Touched
    <3> HIDE DEF x
    <3> QED
      BY <3>1, <3>4, <3>5, Move3
  <2>3. CASE ConfirmLost(r) \/ ReprocessGone(r) \/ AbortRequest(r)
    BY <2>3, Idle3 DEF ConfirmLost, ReprocessGone, AbortRequest, Discard
  <2>4. CASE ConfirmWrite(r)
    <3> DEFINE row == [doc[txn[r].doc] EXCEPT !.confirmed = TRUE, !.stale = FALSE]
               x == [txn[r] EXCEPT !.pc = "request_commit", !.adds = 1, !.row = row]
    <3>1. txn[r] \in Txn /\ doc[txn[r].doc] \in Row
      BY <2>4 DEF ConfirmWrite, Inv1, TxnPart, TxnWellFormed, Existing, DocPart
    <3>2. row \in Row
      BY <3>1 DEF Row
    <3>3. Becomes(r, x) /\ chunks' = chunks
      BY <2>4 DEF ConfirmWrite
    <3> HIDE DEF row
    <3>4. /\ x \in Txn /\ x.doc = txn[r].doc
          /\ x.cleared = txn[r].cleared /\ x.stored = txn[r].stored
      BY <3>1, <3>2, Names DEF Txn, PCs
    <3> HIDE DEF x
    <3> QED
      BY <3>3, <3>4, Move3
  <2>5. CASE ReprocessClear(r)
    BY <2>5, DeleteChunks3, Names DEF ReprocessClear
  <2>6. CASE ReprocessEnqueue(r)
    BY <2>6, SetStatus3, Names DEF ReprocessEnqueue
  <2>7. CASE CommitRequest(r)
    BY <2>7, IdleRecord, IdleFresh, Install3 DEF CommitRequest, Touched
  <2> QED
    BY <1>4, <2>1, <2>2, <2>3, <2>4, <2>5, <2>6, <2>7 DEF RequestStep
<1>5. ASSUME NEW w \in Workers, WorkerStep(w) \/ CrashWorker(w) \/ TimeOutJob(w) PROVE Inv3'
  <2>1. ASSUME NEW j \in JobIds, TakeJob(w, j) PROVE Inv3'
    <3> DEFINE d == job[j].doc
               pc == IF doc[d].deleted \/ doc[d].status = "ready" THEN "ack" ELSE "start"
    <3>1. /\ Becomes(w, Begin(pc, d, j, doc[d].status)) /\ chunks' = chunks
          /\ job[j].state # "free"
      BY <2>1 DEF TakeJob
    <3>2. d \in Docs /\ doc[d].status \in Statuses /\ pc \in PCs
      BY <3>1, Names DEF Inv1, JobPart, JobWellFormed, Existing, DocPart, Row
    <3> HIDE DEF d, pc
    <3> QED
      BY <3>1, <3>2, Begin3
  <2>2. CASE StartExtracting(w) \/ Chunk(w) \/ Publish(w)
    <3>1. PICK s \in Statuses, next \in PCs : SetStatus(w, s, next)
      BY <2>2, Names DEF StartExtracting, Chunk, Publish
    <3> QED
      BY <2>2, <3>1, SetStatus3 DEF StartExtracting, Chunk, Publish, At
  <2>3. CASE Extract(w)
    <3>1. chunks' = chunks /\ txn[w].pc # "idle"
      BY <2>3 DEF Extract, At
    <3>2. CASE Goto(w, "raise")
      BY <3>1, <3>2, Goto3, Names
    <3>3. CASE SetStatus(w, "chunking", "chunking") \/ SetStatus(w, "failed", "job_commit")
      BY <3>1, <3>3, SetStatus3, Names
    <3> QED
      BY <2>3, <3>2, <3>3 DEF Extract
  <2>4. CASE Embed(w)
    BY <2>4, Goto3, Names DEF Embed, At
  <2>5. CASE ClearChunks(w)
    BY <2>5, DeleteChunks3, Names DEF ClearChunks
  <2>6. CASE InsertChunks(w)
    BY <2>6, InsertChunks3
  <2>7. CASE CommitJob(w) \/ RollBackJob(w)
    <3>1. PICK pc \in PCs : Becomes(w, Ended(w, pc))
      BY <2>7, Names DEF CommitJob, RollBackJob
    <3> QED
      BY <2>7, <3>1, Ended3 DEF CommitJob, RollBackJob, Discard
  <2>8. CASE RetryLater(w) \/ GiveUp(w) \/ FinishJob(w)
    BY <2>8, Idle3 DEF RetryLater, GiveUp, FinishJob
  <2>9. CASE TimeOutJob(w)
    BY <2>9, Goto3, Names DEF TimeOutJob
  <2>10. CASE CrashWorker(w)
    BY <2>10, Idle3, Ended3, Names DEF CrashWorker, Discard
  <2> QED
    BY <1>5, <2>1, <2>2, <2>3, <2>4, <2>5, <2>6, <2>7, <2>8, <2>9, <2>10 DEF WorkerStep
<1>6. ASSUME NEW j \in JobIds, RetryDue(j) PROVE Inv3'
  BY <1>1, <1>6 DEF RetryDue
<1>7. ASSUME NEW r \in Requests, NEW w \in Workers, BreakDeadlock(r, w) PROVE Inv3'
  <2>1. CASE Discard(r) /\ Becomes(r, Idle)
    BY <2>1, Idle3 DEF Discard
  <2>2. CASE Discard(w) /\ Becomes(w, Ended(w, "callback"))
    BY <1>7, <2>2, Ended3, Names DEF Discard, BreakDeadlock
  <2> QED
    BY <1>7, <2>1, <2>2 DEF BreakDeadlock
<1> QED
  BY <1>2, <1>3, <1>4, <1>5, <1>6, <1>7 DEF Next

(* Whatever jobs, retries and reprocess requests overlap, the committed    *)
(* chunks of a document come from one processing run (process_document's   *)
(* delete-then-insert under the unique index on (document_id,              *)
(* chunk_index)).                                                          *)
THEOREM OneGenerationCorrect == Spec => []OneGeneration
<1>1. Inv3 => OneGeneration
  BY DEF Inv3
<1>2. Init => Inv1 /\ Inv3
  BY Inv1Init, Inv3Init
<1>3. Inv1 /\ Inv3 /\ [Next]_vars => Inv1' /\ Inv3'
  BY Inv1Step, Inv3Step
<1> QED
  BY <1>1, <1>2, <1>3, PTL DEF Spec

-------------------------------------------------------------------------------
(* FreshReadyHasChunks.  What is published together has to be written      *)
(* together: a worker that has moved past parsing holds the row lock, or   *)
(* has lost its document to a deletion; only a worker with chunks to       *)
(* insert writes "ready"; a request that has deleted chunks started from a *)
(* failed row, so its status write takes the lock before its commit.  It   *)
(* is this last fact that needs freshness: a stale row can already say     *)
(* "queued", and then no UPDATE is sent and no lock taken.                 *)

(* What the record of a transaction tells, whatever the others do.         *)
RecordKnows(t, x) ==
  /\ ~x.row.stale
  /\ x.pc = "idle" => ~Touched(x)
  /\ t \in Workers =>
       /\ ~x.row.deleted
       /\ x.row.status = "ready" \/ x.pc = "publish" => x.stored # {}

OwnPCs == {"chunking", "embedding", "clear", "insert", "publish"}

WorkerKnows(w, x, locks, rows) ==
  /\ x.pc \in OwnPCs \/ Touched(x) => locks[x.doc] = w \/ rows[x.doc].deleted
  /\ x.pc = "extracting" => x.view = "extracting" \/ rows[x.doc].deleted

LocksKnow ==
  \A d \in Docs : lock[d] # None =>
    /\ ~doc[d].deleted
    /\ lock[d] \in Requests => txn[lock[d]].pc = "request_commit"

Fresh == faultsLeft["age"] = FaultBudget["age"]

RequestKnows(r, x, locks) ==
  /\ x.stored = {}
  /\ x.pc \in {"reprocess", "requeue"} => x.view = "failed"
  /\ x.cleared # {} => x.pc = "requeue" \/ (x.pc = "request_commit" /\ locks[x.doc] = r)

Publishable(x, committed) ==
  x.row.status = "ready" /\ ~x.row.deleted => (committed \ x.cleared) \cup x.stored # {}

FreshPart ==
  /\ \A d \in Docs : ~doc[d].stale
  /\ \A r \in Requests : RequestKnows(r, txn[r], lock)
  /\ \A d \in Docs : lock[d] # None => Publishable(txn[lock[d]], chunks[d])
  /\ ReadyHasChunks

Inv4 ==
  /\ \A t \in Txns : RecordKnows(t, txn[t])
  /\ \A w \in Workers : WorkerKnows(w, txn[w], lock, doc)
  /\ LocksKnow
  /\ faultsLeft["age"] <= FaultBudget["age"]
  /\ Fresh => FreshPart

LEMMA Inv4Init == Init => Inv4
<1> SUFFICES ASSUME Init PROVE Inv4
  OBVIOUS
<1>1. \A t \in Txns : txn[t] = Idle
  BY DEF Init
<1>2. /\ Idle.pc = "idle" /\ Idle.cleared = {} /\ Idle.stored = {} /\ Idle.row = NoRow
      /\ ~NoRow.stale /\ ~NoRow.deleted /\ NoRow.status = "absent"
  BY DEF Idle, NoRow
<1>3. \A d \in Docs : lock[d] = None /\ doc[d] = NoRow
  BY DEF Init
<1>4. faultsLeft = FaultBudget /\ faultsLeft["age"] \in Nat
  BY DEF Init, FaultKinds
<1>5. /\ \A t \in Txns : RecordKnows(t, txn[t])
      /\ \A w \in Workers : WorkerKnows(w, txn[w], lock, doc)
      /\ \A r \in Requests : RequestKnows(r, txn[r], lock)
  BY <1>1, <1>2 DEF RecordKnows, WorkerKnows, RequestKnows, OwnPCs, Touched
<1>6. ReadyHasChunks
  BY <1>2, <1>3 DEF ReadyHasChunks, Present
<1> QED
  BY <1>2, <1>3, <1>4, <1>5, <1>6 DEF Inv4, LocksKnow, FreshPart

(* Locks change hands only between t and nobody.                           *)
OnlyLocksOf(t) == \A d \in Docs : lock'[d] = lock[d] \/ {lock[d], lock'[d]} \subseteq {None, t}

StaysDeleted == \A d \in Docs : doc[d].deleted => doc'[d].deleted

(* A step of transaction t to record x keeps what all transactions know,   *)
(* if x knows it, and if t leaves the rows and the chunks alone that       *)
(* others have locked.                                                     *)
LEMMA Move4 ==
  ASSUME Inv1, Inv4, NEW t \in Txns, NEW x \in Txn, Becomes(t, x),
         OnlyLocksOf(t), StaysDeleted, faultsLeft'["age"] = faultsLeft["age"],
         RecordKnows(t, x),
         t \in Workers => WorkerKnows(t, x, lock', doc'),
         \A d \in Docs : lock'[d] = t =>
           ~doc'[d].deleted /\ (t \in Requests => x.pc = "request_commit"),
         \A d \in Docs : lock'[d] \notin {None, t} => doc'[d].deleted = doc[d].deleted,
         Fresh => /\ \A d \in Docs : ~doc'[d].stale
                  /\ t \in Requests => RequestKnows(t, x, lock')
                  /\ \A d \in Docs : lock'[d] = t => Publishable(x, chunks'[d])
                  /\ \A d \in Docs : lock'[d] \notin {None, t} => chunks'[d] = chunks[d]
                  /\ ReadyHasChunks'
  PROVE  Inv4'
<1>1. txn'[t] = x /\ \A u \in Txns \ {t} : txn'[u] = txn[u]
  BY DEF Becomes, Inv1, TxnPart
<1>2. \A d \in Docs : lock[d] \in Txns \cup {None}
  BY DEF Inv1, TxnPart
<1>3. \A u \in Txns : RecordKnows(u, txn'[u])
  BY <1>1 DEF Inv4
<1>4. \A w \in Workers : WorkerKnows(w, txn'[w], lock', doc')
  <2> SUFFICES ASSUME NEW w \in Workers, w # t PROVE WorkerKnows(w, txn[w], lock', doc')
    BY <1>1
  <2>1. WorkerKnows(w, txn[w], lock, doc)
    BY DEF Inv4
  <2>2. txn[w].pc \in OwnPCs \cup {"extracting"} \/ Touched(txn[w]) => txn[w].doc \in Docs
    BY DEF Inv1, Inv4, TxnPart, TxnWellFormed, Existing, OwnPCs, RecordKnows
  <2>3. ASSUME NEW d \in Docs
        PROVE  /\ lock[d] = w => lock'[d] = w
               /\ doc[d].deleted => doc'[d].deleted
    BY DEF OnlyLocksOf, StaysDeleted
  <2> QED
    BY <2>1, <2>2, <2>3 DEF WorkerKnows
<1>5. LocksKnow'
  <2> SUFFICES ASSUME NEW d \in Docs, lock'[d] # None
               PROVE  ~doc'[d].deleted /\ (lock'[d] \in Requests => txn'[lock'[d]].pc = "request_commit")
    BY DEF LocksKnow
  <2>1. CASE lock'[d] = t
    BY <1>1, <2>1
  <2>2. CASE lock'[d] # t
    <3>1. lock'[d] = lock[d] /\ lock[d] \in Txns \ {t}
      BY <1>2, <2>2 DEF OnlyLocksOf
    <3> QED
      BY <1>1, <2>2, <3>1 DEF Inv4, LocksKnow
  <2> QED
    BY <2>1, <2>2
<1>6. ASSUME Fresh PROVE FreshPart'
  <2>1. \A r \in Requests : RequestKnows(r, txn'[r], lock')
    <3> SUFFICES ASSUME NEW r \in Requests, r # t PROVE RequestKnows(r, txn[r], lock')
      BY <1>1, <1>6
    <3>1. RequestKnows(r, txn[r], lock)
      BY <1>6 DEF Inv4, FreshPart
    <3>2. txn[r].pc = "request_commit" => txn[r].doc \in Docs
      BY DEF Inv1, TxnPart, TxnWellFormed, Existing
    <3> QED
      BY <3>1, <3>2 DEF RequestKnows, OnlyLocksOf
  <2>2. ASSUME NEW d \in Docs, lock'[d] # None PROVE Publishable(txn'[lock'[d]], chunks'[d])
    <3>1. CASE lock'[d] = t
      BY <1>1, <1>6, <3>1
    <3>2. CASE lock'[d] # t
      <4>1. lock'[d] = lock[d] /\ lock[d] \in Txns \ {t}
        BY <1>2, <2>2, <3>2 DEF OnlyLocksOf
      <4>2. Publishable(txn[lock[d]], chunks[d])
        BY <1>6, <2>2, <4>1 DEF Inv4, FreshPart
      <4>3. chunks'[d] = chunks[d] /\ txn'[lock[d]] = txn[lock[d]]
        BY <1>1, <1>6, <2>2, <3>2, <4>1
      <4> QED
        BY <4>1, <4>2, <4>3
    <3> QED
      BY <3>1, <3>2
  <2> QED
    BY <1>6, <2>1, <2>2 DEF FreshPart
<1> QED
  BY <1>3, <1>4, <1>5, <1>6 DEF Inv4, Fresh

(* A transaction that has read at most the row, and holds no lock.         *)
Blank(x) ==
  /\ ~Touched(x)
  /\ x.row = NoRow
  /\ x.pc \notin OwnPCs \cup {"extracting", "requeue"}
  /\ Fresh /\ x.pc = "reprocess" => x.view = "failed"

LEMMA BlankKnows ==
  ASSUME NEW x, Blank(x), NEW t, NEW locks, NEW rows
  PROVE  /\ RecordKnows(t, x)
         /\ WorkerKnows(t, x, locks, rows)
         /\ Fresh => RequestKnows(t, x, locks)
  BY DEF Blank, RecordKnows, WorkerKnows, RequestKnows, Touched, OwnPCs, NoRow

LEMMA IdleBlank == Blank(Idle)
  BY DEF Blank, Idle, Touched, OwnPCs

LEMMA BeginBlank ==
  ASSUME NEW pc \in {"confirm", "reprocess", "start", "ack", "callback"}, NEW d, NEW j, NEW v,
         Fresh /\ pc = "reprocess" => v = "failed"
  PROVE  Blank(Begin(pc, d, j, v))
  BY DEF Blank, Begin, Idle, Touched, OwnPCs

(* A transaction begins, or ends without publishing anything; the only     *)
(* rows that change are marked failed.                                     *)
LEMMA Blank4 ==
  ASSUME Inv1, Inv4, NEW t \in Txns, NEW x \in Txn, Becomes(t, x), Blank(x),
         \/ lock' = Released(t)
         \/ lock' = lock /\ \A d \in Docs : lock[d] # t,
         \A d \in Docs : \/ doc'[d] = doc[d]
                         \/ /\ doc'[d].status = "failed" /\ ~doc'[d].stale
                            /\ doc'[d].deleted = doc[d].deleted,
         chunks' = chunks, faultsLeft'["age"] = faultsLeft["age"]
  PROVE  Inv4'
<1>1. OnlyLocksOf(t) /\ \A d \in Docs : lock'[d] # t
  BY DEF OnlyLocksOf, Released
<1>2. \A d \in Docs : doc'[d].deleted = doc[d].deleted
  OBVIOUS
<1>3. StaysDeleted
  BY <1>2 DEF StaysDeleted
<1>4. ASSUME Fresh
      PROVE  (\A d \in Docs : ~doc'[d].stale) /\ ReadyHasChunks'
  BY <1>4, <1>2 DEF Inv4, FreshPart, ReadyHasChunks, Present
<1>5. /\ RecordKnows(t, x)
      /\ WorkerKnows(t, x, lock', doc')
      /\ Fresh => RequestKnows(t, x, lock')
  BY BlankKnows
<1> QED
  BY <1>1, <1>2, <1>3, <1>4, <1>5, Move4

(* A step in the middle of a transaction.                                  *)
LEMMA Quiet4 ==
  ASSUME Inv1, Inv4, NEW t \in Txns, NEW x \in Txn, Becomes(t, x),
         OnlyLocksOf(t), UNCHANGED <<doc, chunks>>, faultsLeft'["age"] = faultsLeft["age"],
         RecordKnows(t, x),
         t \in Workers => WorkerKnows(t, x, lock', doc),
         \A d \in Docs : lock'[d] = t =>
           ~doc[d].deleted /\ (t \in Requests => x.pc = "request_commit"),
         Fresh => /\ t \in Requests => RequestKnows(t, x, lock')
                  /\ \A d \in Docs : lock'[d] = t => Publishable(x, chunks[d])
  PROVE  Inv4'
<1>1. StaysDeleted
  BY DEF StaysDeleted
<1>2. Fresh => (\A d \in Docs : ~doc'[d].stale) /\ ReadyHasChunks'
  BY DEF Inv4, FreshPart, ReadyHasChunks, Present
<1>3. t \in Workers => WorkerKnows(t, x, lock', doc')
  OBVIOUS
<1> QED
  BY <1>1, <1>2, <1>3, Move4

(* A status write that takes, or keeps, the row lock.                      *)
LEMMA Written4 ==
  ASSUME Inv1, Inv4, NEW t \in Txns, txn[t].pc # "idle", NEW s \in Statuses,
         NEW next \in PCs \ {"idle"},
         ~Seen(t).deleted, lock[txn[t].doc] \in {None, t},
         lock' = [lock EXCEPT ![txn[t].doc] = t],
         Becomes(t, [txn[t] EXCEPT !.pc = next, !.view = s,
                       !.row = [Seen(t) EXCEPT !.status = s, !.stale = FALSE]]),
         UNCHANGED <<doc, chunks>>, faultsLeft'["age"] = faultsLeft["age"],
         next = "extracting" => s = "extracting",
         t \in Workers => (s = "ready" \/ next = "publish" => txn[t].stored # {}),
         t \in Requests => next = "request_commit" /\ s # "ready"
  PROVE  Inv4'
<1> DEFINE d == txn[t].doc
           row == [Seen(t) EXCEPT !.status = s, !.stale = FALSE]
           x == [txn[t] EXCEPT !.pc = next, !.view = s, !.row = row]
<1>1. txn[t] \in Txn /\ Seen(t) \in Row /\ d \in Docs
  BY SeenRow DEF Inv1, TxnPart, TxnWellFormed, Existing
<1>2. row \in Row /\ row.status = s /\ ~row.stale /\ ~row.deleted
  BY <1>1 DEF Row
<1>3. Becomes(t, x)
  OBVIOUS
<1> HIDE DEF row
<1>4. /\ x \in Txn /\ x.pc = next /\ x.doc = d /\ x.view = s /\ x.row = row
      /\ x.cleared = txn[t].cleared /\ x.stored = txn[t].stored
  BY <1>1, <1>2 DEF Txn, PCs
<1> HIDE DEF x
<1>5. /\ OnlyLocksOf(t) /\ lock'[d] = t
      /\ \A c \in Docs : lock'[c] = t => c = d
  BY <1>1 DEF OnlyLocksOf, Inv1, TxnPart, LockWellFormed
<1>6. ~doc[d].deleted
  BY <1>1 DEF Seen, Inv4, LocksKnow
<1>7. RecordKnows(t, x)
  BY <1>2, <1>4 DEF RecordKnows
<1>8. WorkerKnows(t, x, lock', doc)
  BY <1>4, <1>5 DEF WorkerKnows, OwnPCs
<1>9. ASSUME Fresh PROVE t \in Requests => RequestKnows(t, x, lock')
  BY <1>4, <1>5, <1>9 DEF RequestKnows, Inv4, FreshPart
<1>10. Publishable(x, chunks[d])
  BY <1>2, <1>4 DEF Publishable
<1> QED
  BY <1>3, <1>4, <1>5, <1>6, <1>7, <1>8, <1>9, <1>10, Quiet4

(* A worker's step that takes no lock: what it has written keeps it ahead  *)
(* of its rivals only where it holds the lock already.                     *)
LEMMA Kept4 ==
  ASSUME Inv1, Inv4, NEW w \in Workers, NEW x \in Txn, Becomes(w, x),
         txn[w].pc # "idle", x.pc # "idle",
         UNCHANGED <<doc, chunks, lock>>, faultsLeft'["age"] = faultsLeft["age"],
         x.doc = txn[w].doc, x.row = txn[w].row, x.view = txn[w].view,
         x.pc = "publish" \/ txn[w].stored # {} => x.stored # {},
         x.pc \in OwnPCs \/ Touched(x) =>
           txn[w].pc \in OwnPCs \/ Touched(txn[w]) \/ doc[x.doc].deleted,
         x.pc = "extracting" => x.view = "extracting" \/ doc[x.doc].deleted
  PROVE  Inv4'
<1>1. w \in Txns /\ w \notin Requests /\ RecordKnows(w, txn[w]) /\ WorkerKnows(w, txn[w], lock, doc)
  BY DEF Inv4
<1>2. RecordKnows(w, x)
  BY <1>1 DEF RecordKnows
<1>3. WorkerKnows(w, x, lock', doc)
  BY <1>1 DEF WorkerKnows
<1>4. Publishable(x, chunks[x.doc]) /\ \A d \in Docs : Publishable(x, chunks[d])
  BY <1>2 DEF RecordKnows, Publishable
<1>5. OnlyLocksOf(w) /\ \A d \in Docs : lock'[d] = w => ~doc[d].deleted
  BY <1>1 DEF OnlyLocksOf, Inv4, LocksKnow, Inv1, TxnPart
<1> QED
  BY <1>1, <1>2, <1>3, <1>4, <1>5, Quiet4

LEMMA Goto4 ==
  ASSUME Inv1, Inv4, NEW w \in Workers, NEW pc \in PCs, Goto(w, pc), txn[w].pc # "idle",
         UNCHANGED <<doc, chunks>>, faultsLeft'["age"] = faultsLeft["age"],
         pc \notin {"idle", "extracting", "publish"},
         pc \in OwnPCs => txn[w].pc \in OwnPCs
  PROVE  Inv4'
<1> DEFINE x == [txn[w] EXCEPT !.pc = pc]
<1>1. /\ x \in Txn /\ x.pc = pc /\ x.doc = txn[w].doc /\ x.row = txn[w].row
      /\ x.view = txn[w].view /\ x.cleared = txn[w].cleared /\ x.stored = txn[w].stored
  BY DEF Txn, PCs, Inv1, TxnPart
<1>2. Becomes(w, x) /\ lock' = lock
  BY DEF Goto
<1> HIDE DEF x
<1>3. Touched(x) = Touched(txn[w])
  BY <1>1 DEF Touched
<1> QED
  BY <1>1, <1>2, <1>3, Kept4

LEMMA WorkerSetStatus4 ==
  ASSUME Inv1, Inv4, NEW w \in Workers, txn[w].pc # "idle", NEW s \in Statuses, NEW next \in PCs,
         SetStatus(w, s, next), UNCHANGED <<doc, chunks>>, faultsLeft'["age"] = faultsLeft["age"],
         next \notin {"idle", "publish"},
         next = "extracting" => s = "extracting",
         s = "ready" => txn[w].pc = "publish",
         next \in OwnPCs => txn[w].pc \in OwnPCs \/ (txn[w].pc = "extracting" /\ s # "extracting")
  PROVE  Inv4'
<1>1. w \in Txns /\ txn[w].doc \in Docs /\ RecordKnows(w, txn[w]) /\ WorkerKnows(w, txn[w], lock, doc)
  BY DEF Inv4, Inv1, TxnPart, TxnWellFormed, Existing
<1>2. CASE (Seen(w).deleted \/ txn[w].view = s) /\ Goto(w, next)
  <2> DEFINE x == [txn[w] EXCEPT !.pc = next]
  <2>1. /\ x \in Txn /\ x.pc = next /\ x.doc = txn[w].doc /\ x.row = txn[w].row
        /\ x.view = txn[w].view /\ x.cleared = txn[w].cleared /\ x.stored = txn[w].stored
    BY DEF Txn, PCs, Inv1, TxnPart
  <2>2. Becomes(w, x) /\ lock' = lock
    BY <1>2 DEF Goto
  <2> HIDE DEF x
  <2>3. Touched(x) = Touched(txn[w])
    BY <2>1 DEF Touched
  <2>4. doc[txn[w].doc].deleted \/ txn[w].view = s
    BY <1>1, <1>2 DEF Seen, RecordKnows
  <2>5. next \in OwnPCs => txn[w].pc \in OwnPCs \/ doc[txn[w].doc].deleted
    BY <1>1, <2>4 DEF WorkerKnows
  <2> QED
    BY <2>1, <2>2, <2>3, <2>4, <2>5, Kept4
<1>3. CASE /\ ~Seen(w).deleted
           /\ lock[txn[w].doc] \in {None, w}
           /\ lock' = [lock EXCEPT ![txn[w].doc] = w]
           /\ Becomes(w, [txn[w] EXCEPT !.pc = next, !.view = s,
                            !.row = [Seen(w) EXCEPT !.status = s, !.stale = FALSE]])
  BY <1>1, <1>3, Written4 DEF RecordKnows
<1> QED
  BY <1>2, <1>3 DEF SetStatus, Goto

LEMMA ClearChunks4 ==
  ASSUME Inv1, Inv4, NEW w \in Workers, ClearChunks(w)
  PROVE  Inv4'
<1> DEFINE x == [txn[w] EXCEPT !.pc = "insert", !.cleared = chunks[txn[w].doc]]
<1>1. /\ Becomes(w, x) /\ txn[w].pc = "clear"
      /\ UNCHANGED <<doc, object, chunks, usage, lock, job, faultsLeft>>
  BY DEF ClearChunks, DeleteChunks
<1>2. txn[w] \in Txn /\ chunks[txn[w].doc] \in SUBSET JobIds
  BY <1>1 DEF Inv1, TxnPart, TxnWellFormed, Existing, RestPart
<1>3. /\ x \in Txn /\ x.pc = "insert" /\ x.doc = txn[w].doc /\ x.row = txn[w].row
      /\ x.view = txn[w].view /\ x.stored = txn[w].stored
  BY <1>2, Names DEF Txn, PCs
<1> HIDE DEF x
<1> QED
  BY <1>1, <1>3, Kept4 DEF OwnPCs

LEMMA InsertChunks4 ==
  ASSUME Inv1, Inv4, NEW w \in Workers, InsertChunks(w)
  PROVE  Inv4'
<1>1. txn[w].pc = "insert" /\ UNCHANGED <<doc, object, chunks, usage, job, faultsLeft>>
  BY DEF InsertChunks, At
<1>2. CASE Goto(w, "abort")
  BY <1>1, <1>2, Goto4, Names DEF OwnPCs
<1>3. CASE Becomes(w, [txn[w] EXCEPT !.pc = "publish", !.stored = {txn[w].job}]) /\ UNCHANGED lock
  <2> DEFINE x == [txn[w] EXCEPT !.pc = "publish", !.stored = {txn[w].job}]
  <2>1. txn[w] \in Txn /\ {txn[w].job} \in SUBSET JobIds
    BY <1>1 DEF Inv1, TxnPart, WorkerHasJob
  <2>2. /\ x \in Txn /\ x.pc = "publish" /\ x.doc = txn[w].doc /\ x.row = txn[w].row
        /\ x.view = txn[w].view /\ x.stored # {}
    BY <2>1, Names DEF Txn, PCs
  <2>3. Becomes(w, x)
    BY <1>3
  <2> HIDE DEF x
  <2> QED
    BY <1>1, <1>3, <2>2, <2>3, Kept4 DEF OwnPCs
<1> QED
  BY <1>2, <1>3 DEF InsertChunks

(* A commit publishes status and chunks together.  A transaction without   *)
(* the lock changes neither, or its document is deleted; so the version of *)
(* the row that is installed, and the chunks installed with it, are those  *)
(* of a lock holder, or those that were there.                             *)
LEMMA Install4 ==
  ASSUME Inv1, Inv4, NEW t \in Txns, txn[t].pc # "idle", Install(t),
         t \in Requests => txn[t].pc = "request_commit",
         NEW x \in Txn, Becomes(t, x), Blank(x), faultsLeft'["age"] = faultsLeft["age"]
  PROVE  Inv4'
<1> DEFINE d == txn[t].doc
<1>1. d \in Docs /\ txn[t] \in Txn
  BY DEF Inv1, TxnPart, TxnWellFormed, Existing
<1>2. /\ \A c \in Docs \ {d} : doc'[c] = doc[c] /\ chunks'[c] = chunks[c]
      /\ doc'[d] = Seen(t)
      /\ chunks'[d] = (chunks[d] \ txn[t].cleared) \cup txn[t].stored
  BY <1>1 DEF Install, Inv1, DocPart, RestPart
<1>3. OnlyLocksOf(t) /\ \A c \in Docs : lock'[c] # t
  BY DEF Install, OnlyLocksOf, Released
<1>4. lock[d] = t => ~doc[d].deleted /\ Seen(t) = txn[t].row
  BY <1>1 DEF Inv4, LocksKnow, Seen
<1>5. lock[d] # t => Seen(t) = doc[d]
  BY DEF Seen
<1>6. StaysDeleted
  BY <1>2, <1>4, <1>5 DEF StaysDeleted
(* Without freshness, a request may still delete chunks without the lock.  *)
<1>7. ASSUME Fresh, lock[d] # t
      PROVE  chunks'[d] = chunks[d] \/ doc[d].deleted
  <2>1. CASE t \in Workers
    <3>1. ~Touched(txn[t]) \/ doc[d].deleted
      BY <1>7, <2>1 DEF Inv4, WorkerKnows
    <3> QED
      BY <1>2, <3>1 DEF Touched
  <2>2. CASE t \in Requests
    <3>1. txn[t].cleared = {} /\ txn[t].stored = {}
      BY <1>7, <2>2 DEF Inv4, FreshPart, RequestKnows
    <3> QED
      BY <1>2, <3>1
  <2> QED
    BY <2>1, <2>2
<1>8. ASSUME NEW c \in Docs, lock'[c] \notin {None, t}
      PROVE  doc'[c].deleted = doc[c].deleted /\ (Fresh => chunks'[c] = chunks[c])
  <2>1. lock[c] = lock'[c]
    BY <1>8 DEF Install, Released
  <2>2. CASE c = d
    <3>1. lock[d] # t /\ ~doc[d].deleted
      BY <1>8, <2>1, <2>2 DEF Inv4, LocksKnow
    <3> QED
      BY <1>2, <1>5, <1>7, <2>2, <3>1
  <2>3. CASE c # d
    BY <1>2, <2>3
  <2> QED
    BY <2>2, <2>3
<1>9. ASSUME Fresh PROVE ReadyHasChunks'
  <2>1. ASSUME doc'[d].status = "ready", ~doc'[d].deleted PROVE chunks'[d] # {}
    <3>1. CASE lock[d] = t
      <4>1. Publishable(txn[t], chunks[d])
        BY <1>1, <1>9, <3>1 DEF Inv4, FreshPart, Inv1, TxnPart
      <4> QED
        BY <1>2, <1>4, <2>1, <3>1, <4>1 DEF Publishable
    <3>2. CASE lock[d] # t
      <4>1. chunks'[d] = chunks[d] /\ doc'[d] = doc[d]
        BY <1>2, <1>5, <1>7, <1>9, <2>1, <3>2
      <4> QED
        BY <1>1, <1>9, <2>1, <4>1 DEF Inv4, FreshPart, ReadyHasChunks, Present
    <3> QED
      BY <3>1, <3>2
  <2>2. ASSUME NEW c \in Docs, c # d, doc'[c].status = "ready", ~doc'[c].deleted
        PROVE  chunks'[c] # {}
    BY <1>2, <1>9, <2>2 DEF Inv4, FreshPart, ReadyHasChunks, Present
  <2> QED
    BY <2>1, <2>2 DEF ReadyHasChunks, Present
<1>10. ASSUME Fresh, NEW c \in Docs PROVE ~doc'[c].stale
  <2>1. ~doc[c].stale /\ ~txn[t].row.stale
    BY <1>10 DEF Inv4, FreshPart, RecordKnows
  <2> QED
    BY <1>1, <1>2, <1>4, <1>5, <2>1
<1>11. /\ RecordKnows(t, x)
       /\ WorkerKnows(t, x, lock', doc')
       /\ Fresh => RequestKnows(t, x, lock')
  BY BlankKnows
<1> HIDE DEF d
<1> QED
  BY <1>3, <1>6, <1>8, <1>9, <1>10, <1>11, Move4

LEMMA Client4 ==
  ASSUME Inv1, Inv4, NEW d \in Docs, ClientStep(d)
  PROVE  Inv4'
<1>1. /\ txn' = txn /\ lock' = lock /\ chunks' = chunks
      /\ \A c \in Docs : doc'[c].deleted = doc[c].deleted
      /\ \A c \in Docs : doc'[c].status = doc[c].status \/ doc'[c].status = "queued"
  BY DEF ClientStep, PresignUpload, PutObject, GrowStale, Inv1, DocPart, Row
<1>2. /\ \A t \in Txns : RecordKnows(t, txn'[t])
      /\ LocksKnow'
  BY <1>1 DEF Inv4, LocksKnow
<1>3. \A w \in Workers : WorkerKnows(w, txn'[w], lock', doc')
  <2> SUFFICES ASSUME NEW w \in Workers PROVE WorkerKnows(w, txn[w], lock, doc')
    BY <1>1
  <2>1. RecordKnows(w, txn[w]) /\ WorkerKnows(w, txn[w], lock, doc)
    BY DEF Inv4
  <2>2. txn[w].pc # "idle" => txn[w].doc \in Docs
    BY DEF Inv1, TxnPart, TxnWellFormed, Existing
  <2> QED
    BY <1>1, <2>1, <2>2 DEF RecordKnows, WorkerKnows, OwnPCs
<1>4. ReadyHasChunks => ReadyHasChunks'
  BY <1>1 DEF ReadyHasChunks, Present
<1>5. CASE GrowStale(d)
  <2>1. faultsLeft'["age"] = faultsLeft["age"] - 1 /\ faultsLeft["age"] \in Nat
    BY <1>5 DEF GrowStale, Suffer, Inv1, RestPart, FaultKinds
  <2>2. faultsLeft'["age"] <= FaultBudget["age"] /\ ~Fresh'
    BY <2>1 DEF Inv4, Fresh, FaultKinds
  <2> QED
    BY <1>2, <1>3, <2>2 DEF Inv4
<1>6. CASE PresignUpload(d) \/ PutObject(d)
  <2>1. faultsLeft' = faultsLeft /\ \A c \in Docs : doc'[c].stale = doc[c].stale
    BY <1>6 DEF PresignUpload, PutObject, Inv1, DocPart, Row
  <2> QED
    BY <1>1, <1>2, <1>3, <1>4, <2>1 DEF Inv4, Fresh, FreshPart
<1> QED
  BY <1>5, <1>6 DEF ClientStep

LEMMA OtherFault ==
  ASSUME Inv1, NEW k \in FaultKinds \ {"age"}, Suffer(k)
  PROVE  faultsLeft'["age"] = faultsLeft["age"]
  BY DEF Suffer, Inv1, RestPart, FaultKinds

LEMMA EnqueueAge ==
  ASSUME Inv1, NEW d, Enqueue(d)
  PROVE  faultsLeft'["age"] = faultsLeft["age"]
  BY OtherFault DEF Enqueue, FaultKinds

LEMMA NoLock ==
  ASSUME Inv1, NEW t \in Txns, txn[t].pc \in Unlocked \/ lock[txn[t].doc] # t
  PROVE  \A d \in Docs : lock[d] # t
  BY DEF Inv1, TxnPart, LockWellFormed

LEMMA Request4 ==
  ASSUME Inv1, Inv4, NEW r \in Requests, RequestStep(r)
  PROVE  Inv4'
<1>0. r \in Txns /\ r \notin Workers /\ txn[r] \in Txn /\ RecordKnows(r, txn[r])
  BY DEF Inv1, TxnPart, Inv4
<1>1. ASSUME NEW d \in Docs, ConfirmRead(r, d) \/ ReprocessRead(r, d) PROVE Inv4'
  <2>1. PICK pc \in {"confirm", "reprocess"} :
          /\ Becomes(r, Begin(pc, d, None, doc[d].status))
          /\ pc = "reprocess" => doc[d].status = "failed" \/ doc[d].stale
    BY <1>1 DEF ConfirmRead, ReprocessRead
  <2>2. /\ UNCHANGED <<doc, object, chunks, usage, lock, job, faultsLeft>>
        /\ txn[r].pc = "idle" /\ doc[d].status \in Statuses
    BY <1>1 DEF ConfirmRead, ReprocessRead, Present, Inv1, DocPart, Row
  <2> DEFINE x == Begin(pc, d, None, doc[d].status)
  <2>3. x \in Txn
    BY <2>2, BeginRecord, Names
  <2>4. Fresh /\ pc = "reprocess" => doc[d].status = "failed"
    BY <2>1 DEF Inv4, FreshPart
  <2>5. Blank(x)
    BY <2>4, BeginBlank
  <2>6. Becomes(r, x)
    BY <2>1
  <2> HIDE DEF x
  <2> QED
    BY <1>0, <2>2, <2>3, <2>5, <2>6, NoLock, Blank4 DEF Unlocked
<1>2. CASE ConfirmLost(r)
  BY <1>0, <1>2, IdleRecord, IdleBlank, NoLock, Blank4 DEF ConfirmLost
<1>3. CASE ReprocessGone(r) \/ AbortRequest(r)
  <2>1. /\ Becomes(r, Idle) /\ Discard(r)
        /\ faultsLeft'["age"] = faultsLeft["age"]
    BY <1>3, OtherFault DEF ReprocessGone, AbortRequest, FaultKinds
  <2> QED
    BY <1>0, <2>1, IdleRecord, IdleBlank, Blank4 DEF Discard
<1>4. CASE ConfirmWrite(r)
  <2> DEFINE d == txn[r].doc
             row == [doc[d] EXCEPT !.confirmed = TRUE, !.stale = FALSE]
             x == [txn[r] EXCEPT !.pc = "request_commit", !.adds = 1, !.row = row]
  <2>1. /\ Becomes(r, x) /\ txn[r].pc = "confirm"
        /\ lock[d] = None /\ lock' = [lock EXCEPT ![d] = r] /\ ~doc[d].deleted
        /\ UNCHANGED <<doc, chunks>> /\ faultsLeft'["age"] = faultsLeft["age"]
    BY <1>4, EnqueueAge DEF ConfirmWrite
  <2>2. d \in Docs /\ doc[d] \in Row
    BY <1>0, <2>1 DEF Inv1, TxnPart, TxnWellFormed, Existing, DocPart
  <2>3. row \in Row /\ row.status = doc[d].status /\ row.deleted = doc[d].deleted /\ ~row.stale
    BY <2>2 DEF Row
  <2> HIDE DEF row
  <2>4. /\ x \in Txn /\ x.pc = "request_commit" /\ x.doc = d /\ x.row = row
        /\ x.cleared = txn[r].cleared /\ x.stored = txn[r].stored
    BY <1>0, <2>3, Names DEF Txn, PCs
  <2>5. Becomes(r, x)
    BY <2>1 DEF row
  <2> HIDE DEF x
  <2>6. OnlyLocksOf(r) /\ \A c \in Docs : lock'[c] = r => c = d
    BY <1>0, <2>1, NoLock DEF OnlyLocksOf, Inv1, TxnPart
  <2>7. RecordKnows(r, x)
    BY <1>0, <2>3, <2>4 DEF RecordKnows
  <2>8. ASSUME Fresh PROVE RequestKnows(r, x, lock') /\ Publishable(x, chunks[d])
    <3>1. RequestKnows(r, txn[r], lock) /\ ReadyHasChunks
      BY <2>8 DEF Inv4, FreshPart
    <3>2. x.cleared = {} /\ x.stored = {}
      BY <2>1, <2>4, <3>1 DEF RequestKnows
    <3>3. doc[d].status = "ready" => chunks[d] # {}
      BY <2>1, <2>2, <3>1 DEF ReadyHasChunks, Present
    <3> QED
      BY <2>3, <2>4, <3>2, <3>3 DEF RequestKnows, Publishable
  <2> HIDE DEF d
  <2> QED
    BY <1>0, <2>1, <2>4, <2>5, <2>6, <2>7, <2>8, Quiet4
<1>5. CASE ReprocessClear(r)
  <2> DEFINE x == [txn[r] EXCEPT !.pc = "requeue", !.cleared = chunks[txn[r].doc]]
  <2>1. /\ Becomes(r, x) /\ txn[r].pc = "reprocess"
        /\ UNCHANGED <<doc, object, chunks, usage, lock, job, faultsLeft>>
    BY <1>5 DEF ReprocessClear, DeleteChunks
  <2>2. chunks[txn[r].doc] \in SUBSET JobIds
    BY <1>0, <2>1 DEF Inv1, TxnPart, TxnWellFormed, Existing, RestPart
  <2>3. /\ x \in Txn /\ x.pc = "requeue" /\ x.row = txn[r].row
        /\ x.view = txn[r].view /\ x.stored = txn[r].stored
    BY <1>0, <2>2, Names DEF Txn, PCs
  <2> HIDE DEF x
  <2>4. \A d \in Docs : lock[d] # r
    BY <1>0, <2>1 DEF Inv4, LocksKnow
  <2>5. RecordKnows(r, x)
    BY <1>0, <2>3 DEF RecordKnows
  <2>6. Fresh => RequestKnows(r, x, lock')
    BY <2>1, <2>3 DEF Inv4, FreshPart, RequestKnows
  <2>7. OnlyLocksOf(r)
    BY <2>1 DEF OnlyLocksOf
  <2> QED
    BY <1>0, <2>1, <2>3, <2>4, <2>5, <2>6, <2>7, Quiet4
<1>6. CASE ReprocessEnqueue(r)
  <2>1. /\ SetStatus(r, "queued", "request_commit") /\ ~Seen(r).deleted
        /\ txn[r].pc = "requeue" /\ UNCHANGED <<doc, chunks>>
        /\ faultsLeft'["age"] = faultsLeft["age"]
    BY <1>6, EnqueueAge DEF ReprocessEnqueue
  <2>2. CASE txn[r].view = "queued" /\ lock' = lock
             /\ Becomes(r, [txn[r] EXCEPT !.pc = "request_commit"])
    <3> DEFINE x == [txn[r] EXCEPT !.pc = "request_commit"]
    <3>1. x \in Txn /\ x.pc = "request_commit" /\ x.row = txn[r].row
      BY <1>0, PCRecord, Names
    <3>2. Becomes(r, x)
      BY <2>2
    <3> HIDE DEF x
    <3>3. ~Fresh
      BY <2>1, <2>2 DEF Inv4, FreshPart, RequestKnows
    <3>4. \A d \in Docs : lock[d] # r
      BY <1>0, <2>1 DEF Inv4, LocksKnow
    <3>5. RecordKnows(r, x) /\ OnlyLocksOf(r)
      BY <1>0, <2>2, <3>1 DEF RecordKnows, OnlyLocksOf
    <3> QED
      BY <1>0, <2>1, <2>2, <3>1, <3>2, <3>3, <3>4, <3>5, Quiet4
  <2>3. CASE /\ lock[txn[r].doc] \in {None, r}
             /\ lock' = [lock EXCEPT ![txn[r].doc] = r]
             /\ Becomes(r, [txn[r] EXCEPT !.pc = "request_commit", !.view = "queued",
                              !.row = [Seen(r) EXCEPT !.status = "queued", !.stale = FALSE]])
    <3>1. /\ "queued" \in Statuses /\ "request_commit" \in PCs \ {"idle"}
          /\ txn[r].pc # "idle" /\ "queued" # "ready" /\ "request_commit" # "extracting"
      BY <2>1, Names
    <3> QED
      BY <1>0, <2>1, <2>3, <3>1, Written4
  <2> QED
    BY <2>1, <2>2, <2>3 DEF SetStatus
<1>7. ASSUME NEW d \in Docs, DeleteDocument(r, d) PROVE Inv4'
  <2> DEFINE row == [doc[d] EXCEPT !.deleted = TRUE, !.stale = FALSE]
             b == Begin("request_commit", d, None, doc[d].status)
             x == [b EXCEPT !.row = row]
  <2>1. /\ lock[d] = None /\ lock' = [lock EXCEPT ![d] = r] /\ ~doc[d].deleted
        /\ txn[r].pc = "idle"
        /\ UNCHANGED <<doc, object, chunks, usage, job, faultsLeft>>
        /\ doc[d] \in Row /\ doc[d].status \in Statuses
    BY <1>7 DEF DeleteDocument, Present, Inv1, DocPart, Row
  <2>2. row \in Row /\ row.deleted /\ ~row.stale
    BY <2>1 DEF Row
  <2>3. b \in Txn /\ b.pc = "request_commit" /\ b.doc = d /\ b.cleared = {} /\ b.stored = {}
    BY <2>1, BeginRecord, BeginFresh, Names
  <2>4. Becomes(r, x)
    BY <1>7 DEF DeleteDocument
  <2> HIDE DEF row, b
  <2>5. /\ x \in Txn /\ x.pc = "request_commit" /\ x.doc = d /\ x.row = row
        /\ x.cleared = {} /\ x.stored = {}
    BY <2>2, <2>3 DEF Txn
  <2> HIDE DEF x
  <2>6. OnlyLocksOf(r) /\ \A c \in Docs : lock'[c] = r => c = d
    BY <1>0, <2>1, NoLock DEF OnlyLocksOf, Inv1, TxnPart, Unlocked
  <2>7. RecordKnows(r, x) /\ RequestKnows(r, x, lock') /\ Publishable(x, chunks[d])
    BY <1>0, <2>2, <2>5 DEF RecordKnows, RequestKnows, Publishable
  <2> QED
    BY <1>0, <2>1, <2>4, <2>5, <2>6, <2>7, Quiet4
<1>8. CASE CommitRequest(r)
  BY <1>0, <1>8, IdleRecord, IdleBlank, Install4 DEF CommitRequest
<1> QED
  BY <1>1, <1>2, <1>3, <1>4, <1>5, <1>6, <1>7, <1>8 DEF RequestStep

LEMMA Worker4 ==
  ASSUME Inv1, Inv4, NEW w \in Workers, WorkerStep(w) \/ CrashWorker(w) \/ TimeOutJob(w)
  PROVE  Inv4'
<1>0. w \in Txns /\ w \notin Requests
  OBVIOUS
<1>1. ASSUME NEW j \in JobIds, TakeJob(w, j) PROVE Inv4'
  <2> DEFINE d == job[j].doc
             pc == IF doc[d].deleted \/ doc[d].status = "ready" THEN "ack" ELSE "start"
             x == Begin(pc, d, j, doc[d].status)
  <2>1. /\ Becomes(w, x) /\ UNCHANGED <<doc, chunks, lock, faultsLeft>>
        /\ txn[w].pc = "idle" /\ job[j].state # "free"
    BY <1>1 DEF TakeJob
  <2>2. d \in Docs /\ doc[d].status \in Statuses /\ pc \in PCs /\ pc \in {"ack", "start"}
    BY <2>1, Names DEF Inv1, JobPart, JobWellFormed, Existing, DocPart, Row
  <2> HIDE DEF d, pc
  <2>3. x \in Txn /\ Blank(x)
    BY <2>2, BeginRecord, BeginBlank
  <2>4. Becomes(w, x)
    BY <2>1
  <2> HIDE DEF x
  <2> QED
    BY <1>0, <2>1, <2>3, <2>4, NoLock, Blank4 DEF Unlocked
<1>2. CASE StartExtracting(w)
  BY <1>2, WorkerSetStatus4, Names DEF StartExtracting, At, OwnPCs
<1>3. CASE Extract(w)
  <2>1. txn[w].pc = "extracting" /\ UNCHANGED <<doc, object, chunks, usage, job, faultsLeft>>
    BY <1>3 DEF Extract, At
  <2>2. CASE Goto(w, "raise")
    BY <2>1, <2>2, Goto4, Names DEF OwnPCs
  <2>3. CASE SetStatus(w, "chunking", "chunking")
    BY <2>1, <2>3, WorkerSetStatus4, Names
  <2>4. CASE SetStatus(w, "failed", "job_commit")
    BY <2>1, <2>4, WorkerSetStatus4, Names DEF OwnPCs
  <2> QED
    BY <1>3, <2>2, <2>3, <2>4 DEF Extract
<1>4. CASE Chunk(w)
  <2>1. txn[w].pc = "chunking" /\ UNCHANGED <<doc, object, chunks, usage, job, faultsLeft>>
    BY <1>4 DEF Chunk, At
  <2>2. CASE SetStatus(w, "embedding", "embedding")
    BY <2>1, <2>2, WorkerSetStatus4, Names DEF OwnPCs
  <2>3. CASE SetStatus(w, "failed", "job_commit")
    BY <2>1, <2>3, WorkerSetStatus4, Names DEF OwnPCs
  <2> QED
    BY <1>4, <2>2, <2>3 DEF Chunk
<1>5. CASE Embed(w)
  BY <1>5, Goto4, Names DEF Embed, At, OwnPCs
<1>6. CASE Publish(w)
  BY <1>6, WorkerSetStatus4, Names DEF Publish, At, OwnPCs
<1>7. CASE CommitJob(w) \/ RollBackJob(w)
  <2>1. PICK pc \in {"ack", "callback"} : Becomes(w, Ended(w, pc))
    BY <1>7 DEF CommitJob, RollBackJob
  <2>2. txn[w].pc # "idle" /\ faultsLeft' = faultsLeft
    BY <1>7 DEF CommitJob, RollBackJob
  <2> DEFINE x == Ended(w, pc)
  <2>3. x \in Txn /\ Blank(x)
    BY <2>2, EndedRecord, BeginBlank, Names DEF Ended
  <2>4. Becomes(w, x)
    BY <2>1
  <2> HIDE DEF x
  <2>5. CASE Install(w)
    BY <1>0, <2>2, <2>3, <2>4, <2>5, Install4
  <2>6. CASE Discard(w)
    BY <1>0, <2>2, <2>3, <2>4, <2>6, Blank4 DEF Discard
  <2> QED
    BY <1>7, <2>5, <2>6 DEF CommitJob, RollBackJob
<1>8. CASE RetryLater(w) \/ GiveUp(w) \/ FinishJob(w)
  <2>1. /\ Becomes(w, Idle) /\ UNCHANGED <<chunks, lock, faultsLeft>>
        /\ txn[w].pc \in {"callback", "ack"}
    BY <1>8 DEF RetryLater, GiveUp, FinishJob
  <2>2. ASSUME NEW d \in Docs
        PROVE  \/ doc'[d] = doc[d]
               \/ /\ doc'[d].status = "failed" /\ ~doc'[d].stale
                  /\ doc'[d].deleted = doc[d].deleted
    BY <1>8 DEF RetryLater, GiveUp, FinishJob, Inv1, DocPart, Row
  <2> QED
    BY <1>0, <2>1, <2>2, IdleRecord, IdleBlank, NoLock, Blank4 DEF Unlocked
<1>9. CASE CrashWorker(w)
  <2>1. /\ Discard(w) /\ txn[w].pc # "idle" /\ faultsLeft'["age"] = faultsLeft["age"]
        /\ Becomes(w, Idle) \/ Becomes(w, Ended(w, "callback"))
    BY <1>9, OtherFault DEF CrashWorker, FaultKinds
  <2> DEFINE x == Ended(w, "callback")
  <2>2. x \in Txn /\ Blank(x)
    BY <2>1, EndedRecord, BeginBlank, Names DEF Ended
  <2>3. Becomes(w, Idle) \/ Becomes(w, x)
    BY <2>1
  <2> HIDE DEF x
  <2> QED
    BY <1>0, <2>1, <2>2, <2>3, IdleRecord, IdleBlank, Blank4 DEF Discard
<1>10. CASE TimeOutJob(w)
  <2>1. PICK pc \in {"raise", "abort", "callback"} : Goto(w, pc)
    BY <1>10 DEF TimeOutJob
  <2>2. /\ txn[w].pc # "idle" /\ UNCHANGED <<doc, chunks>>
        /\ faultsLeft'["age"] = faultsLeft["age"]
    BY <1>10, OtherFault DEF TimeOutJob, FaultKinds
  <2> QED
    BY <2>1, <2>2, Goto4, Names DEF OwnPCs
<1> QED
  BY <1>1, <1>2, <1>3, <1>4, <1>5, <1>6, <1>7, <1>8, <1>9, <1>10, ClearChunks4, InsertChunks4
     DEF WorkerStep

LEMMA BreakDeadlock4 ==
  ASSUME Inv1, Inv4, NEW r \in Requests, NEW w \in Workers, BreakDeadlock(r, w)
  PROVE  Inv4'
<1>1. txn[w].pc # "idle" /\ faultsLeft' = faultsLeft /\ r \in Txns /\ w \in Txns
  BY DEF BreakDeadlock
<1>2. CASE Discard(r) /\ Becomes(r, Idle)
  BY <1>1, <1>2, IdleRecord, IdleBlank, Blank4 DEF Discard
<1>3. CASE Discard(w) /\ Becomes(w, Ended(w, "callback"))
  <2> DEFINE x == Ended(w, "callback")
  <2>1. x \in Txn /\ Blank(x)
    BY <1>1, EndedRecord, BeginBlank, Names DEF Ended
  <2>2. Becomes(w, x)
    BY <1>3
  <2> HIDE DEF x
  <2> QED
    BY <1>1, <1>3, <2>1, <2>2, Blank4 DEF Discard
<1> QED
  BY <1>2, <1>3 DEF BreakDeadlock

LEMMA Inv4Step == Inv1 /\ Inv4 /\ [Next]_vars => Inv4'
<1> SUFFICES ASSUME Inv1, Inv4, [Next]_vars PROVE Inv4'
  OBVIOUS
<1>1. UNCHANGED <<doc, chunks, lock, txn, faultsLeft>> => Inv4'
  BY DEF Inv4, LocksKnow, Fresh, FreshPart, ReadyHasChunks, Present
<1>2. CASE UNCHANGED vars
  BY <1>1, <1>2 DEF vars
<1>3. CASE Next
  BY <1>1, <1>3, Client4, Request4, Worker4, BreakDeadlock4 DEF Next, RetryDue
<1> QED
  BY <1>2, <1>3

(* As long as no row has grown stale, a document that readers see as ready *)
(* has its chunks, wherever crashes, timeouts, lost commits and outages    *)
(* strike (process_document publishes chunks and status in one commit,     *)
(* reprocess_document discards them in one).                               *)
THEOREM FreshReadyHasChunksCorrect == Spec => []FreshReadyHasChunks
<1>1. Inv4 => FreshReadyHasChunks
  BY DEF Inv4, Fresh, FreshPart, FreshReadyHasChunks
<1>2. Init => Inv1 /\ Inv4
  BY Inv1Init, Inv4Init
<1>3. Inv1 /\ Inv4 /\ [Next]_vars => Inv1' /\ Inv4'
  BY Inv1Step, Inv4Step
<1> QED
  BY <1>1, <1>2, <1>3, PTL DEF Spec

-------------------------------------------------------------------------------
(* What the pipeline promises when each job is worked off once (see        *)
(* WorkedOnce): it implements DocumentLifecycle, no document is flashed to *)
(* failed.                                                                 *)

(* The inductive invariant.  A job is pending until its work is committed. *)
(* A document has at most one pending job, and has it only if a commit has *)
(* said that it is to be processed, or is about to.                        *)

Pending(j) == Live(j) /\ \A w \in Workers : txn[w].pc = "ack" => txn[w].job # j

WorkersApart ==
  /\ \A w \in Workers : txn[w].pc # "idle" =>
       job[txn[w].job].state = "running" /\ job[txn[w].job].doc = txn[w].doc
  /\ \A v, w \in Workers :
       v # w /\ txn[v].pc # "idle" /\ txn[w].pc # "idle" => txn[v].job # txn[w].job

Confirming(d) == lock[d] \in Requests /\ txn[lock[d]].adds = 1

Requeuing(d) == lock[d] \in Requests /\ txn[lock[d]].row.status = "queued"

Awaited(d) ==
  \/ doc[d].status \in NonTerminal /\ (doc[d].confirmed \/ Confirming(d))
  \/ doc[d].status = "failed" /\ Requeuing(d)

PendingOn(j, d) == Pending(j) /\ job[j].doc = d

OnePending == \A d \in Docs : \A i, j \in JobIds : PendingOn(i, d) /\ PendingOn(j, d) => i = j

PendingAwaited == \A d \in Docs : \A j \in JobIds : PendingOn(j, d) => doc[d].deleted \/ Awaited(d)

(* Only a ready document has chunks, or one that was deleted and has no    *)
(* work left to do.                                                        *)
ChunksPart ==
  \A d \in Docs :
    /\ ~doc[d].deleted /\ doc[d].status # "ready" => chunks[d] = {}
    /\ \A j \in JobIds : PendingOn(j, d) => chunks[d] = {}

UnconfirmedQueued ==
  \A d \in Docs : Present(d) /\ ~doc[d].confirmed => doc[d].status = "queued"

(* What a request knows of its document: it has deleted chunks only of one *)
(* that is settled, and until it commits what it has written under the     *)
(* lock, nobody else changes the row.                                      *)
RequestSerial(x, row, held) ==
  /\ x.stored = {} /\ (x.adds = 1 => ~x.row.deleted)
  /\ x.cleared # {} => row.deleted \/ row.status = "ready"
  /\ x.pc = "request_commit" =>
       /\ held /\ x.cleared = {}
       /\ \/ x.row.status = row.status
          \/ /\ x.row.status = "queued" /\ ~x.row.deleted /\ x.adds = 0
             /\ row.status = "failed"

(* What a worker knows, unless its document has been deleted.              *)
WorkerSerial(x, row, held, calm) ==
  /\ x.adds = 0 /\ x.cleared = {}
  /\ x.pc = "chunking" => x.view = "chunking" \/ row.deleted
  /\ x.pc \in {"embedding", "clear", "insert", "publish"} => x.view = "embedding" \/ row.deleted
  /\ calm /\ x.pc \in {"raise", "abort", "callback"} => x.view \in NonTerminal \/ row.deleted
  /\ x.pc # "ack" /\ x.view \in NonTerminal => row.status \in NonTerminal \/ row.deleted
  /\ x.stored # {} => x.pc \in {"publish", "job_commit", "abort"}
  /\ x.pc = "job_commit" =>
       \/ row.deleted
       \/ held /\ x.row.status = "ready"
       \/ held /\ x.row.status = "failed" /\ x.stored = {}
  /\ held /\ x.pc \notin {"job_commit", "abort"} => x.row.status \in NonTerminal

TxnsSerial ==
  \A t \in Txns : txn[t].pc # "idle" =>
    LET d == txn[t].doc IN
    /\ t \in Requests => RequestSerial(txn[t], doc[d], lock[d] = t)
    /\ t \in Workers => WorkerSerial(txn[t], doc[d], lock[d] = t, Undisturbed)

PendingPart == OnePending /\ PendingAwaited /\ ChunksPart

FaultsPart == \A k \in FaultKinds : faultsLeft[k] <= FaultBudget[k]

Inv5 == FaultsPart /\ WorkersApart /\ PendingPart /\ UnconfirmedQueued /\ TxnsSerial

(* Only presign_upload writes a row that is not there yet.                 *)
AbsentBlank == \A d \in Docs : doc[d].status = "absent" => doc[d] = NoRow

(* Everything that is known of a state.                                    *)
Known == Inv1 /\ Inv2 /\ Inv4 /\ Inv5 /\ AbsentBlank

LEMMA Inv5Init == Init => Inv5
<1> SUFFICES ASSUME Init PROVE Inv5
  OBVIOUS
<1>1. \A t \in Txns : txn[t].pc = "idle"
  BY DEF Init, Idle
<1>2. \A j \in JobIds : ~Live(j)
  BY DEF Init, Live
<1>3. \A d \in Docs : doc[d].status = "absent" /\ chunks[d] = {}
  BY DEF Init, NoRow
<1>4. FaultsPart
  BY DEF Init, FaultsPart
<1> QED
  BY <1>1, <1>2, <1>3, <1>4 DEF Inv5, WorkersApart, PendingPart, OnePending, PendingAwaited,
     ChunksPart, UnconfirmedQueued, TxnsSerial, Pending, PendingOn, Awaited, NonTerminal, Present

(* Faults are only ever used up.                                           *)
Spent == FaultsPart' /\ (Undisturbed' => Undisturbed)

LEMMA NoFault ==
  ASSUME Inv5, faultsLeft' = faultsLeft
  PROVE  Spent /\ Undisturbed' = Undisturbed
  BY DEF Inv5, FaultsPart, Spent, Undisturbed

LEMMA FaultSpends ==
  ASSUME Inv1, FaultsPart, NEW k \in FaultKinds, Suffer(k)
  PROVE  Spent /\ (k \in {"crash", "outage", "timeout"} => ~Undisturbed')
<1>1. /\ faultsLeft'[k] = faultsLeft[k] - 1
      /\ \A i \in FaultKinds \ {k} : faultsLeft'[i] = faultsLeft[i]
  BY DEF Suffer, Inv1, RestPart
<1>2. \A i \in FaultKinds : faultsLeft[i] \in Nat /\ faultsLeft[i] <= FaultBudget[i]
                           /\ FaultBudget[i] \in Nat
  BY DEF Inv1, RestPart, FaultsPart
<1>3. FaultsPart' /\ faultsLeft'[k] # FaultBudget[k]
  BY <1>1, <1>2 DEF FaultsPart
<1>4. {"crash", "outage", "timeout"} \subseteq FaultKinds
  BY DEF FaultKinds
<1>5. k \in {"crash", "outage", "timeout"} => ~Undisturbed'
  BY <1>3 DEF Undisturbed
<1>6. Undisturbed' => Undisturbed
  BY <1>1, <1>3, <1>4 DEF Undisturbed
<1> QED
  BY <1>3, <1>5, <1>6 DEF Spent

LEMMA OneFault ==
  ASSUME Inv1, Inv5, NEW k \in FaultKinds, Suffer(k)
  PROVE  Spent /\ (k \in {"crash", "outage", "timeout"} => ~Undisturbed')
  BY FaultSpends DEF Inv5

-------------------------------------------------------------------------------
(* Consequences.                                                           *)

(* A worker in the middle of a job: the job is pending, and its document,  *)
(* if it is still there, is one to be processed.                           *)
LEMMA Busy ==
  ASSUME Inv1, Inv5, NEW w \in Workers, txn[w].pc \notin {"idle", "ack"}
  PROVE  /\ txn[w].job \in JobIds /\ txn[w].doc \in Docs
         /\ PendingOn(txn[w].job, txn[w].doc)
         /\ doc[txn[w].doc].deleted \/ Awaited(txn[w].doc)
<1>1. txn[w].job \in JobIds /\ txn[w].doc \in Docs
  BY DEF Inv1, WorkerHasJob, TxnPart, TxnWellFormed, Existing
<1>2. PendingOn(txn[w].job, txn[w].doc)
  BY DEF Inv5, WorkersApart, PendingOn, Pending, Live
<1> QED
  BY <1>1, <1>2 DEF Inv5, PendingPart, PendingAwaited

(* A worker that holds the lock works on a confirmed document that is not  *)
(* settled yet.                                                            *)
LEMMA BusyOwner ==
  ASSUME Inv1, Inv4, Inv5, NEW w \in Workers, NEW d \in Docs, lock[d] = w
  PROVE  /\ txn[w].pc \notin {"idle", "ack", "callback"} /\ txn[w].doc = d
         /\ doc[d].status \in NonTerminal /\ doc[d].confirmed /\ ~doc[d].deleted
<1>1. txn[w].pc \notin {"idle", "ack", "callback"} /\ txn[w].doc = d
  BY DEF Inv1, TxnPart, LockWellFormed, Unlocked
<1>2. ~doc[d].deleted
  BY DEF Inv4, LocksKnow
<1>3. Awaited(d) /\ w \notin Requests
  BY <1>1, <1>2, Busy
<1> QED
  BY <1>1, <1>2, <1>3 DEF Awaited, Confirming, Requeuing

(* Nobody works on a document that is found failed by a reprocess.         *)
LEMMA Reprocessing ==
  ASSUME Known, NEW r \in Requests, ReprocessEnqueue(r), txn[r].view = "failed",
         doc[txn[r].doc].status = "failed"
  PROVE  LET d == txn[r].doc IN
         /\ d \in Docs /\ Seen(r) = doc[d] /\ ~doc[d].deleted /\ doc[d].confirmed
         /\ lock[d] = None /\ ~Awaited(d)
         /\ \A j \in JobIds : ~PendingOn(j, d)
<1> DEFINE d == txn[r].doc
<1>1. /\ d \in Docs /\ txn[r].pc = "requeue" /\ ~Seen(r).deleted
      /\ SetStatus(r, "queued", "request_commit")
  BY DEF ReprocessEnqueue, Known, Inv1, TxnPart, TxnWellFormed, Existing
<1>2. lock[d] # r
  BY <1>1 DEF Known, Inv4, LocksKnow
<1>3. Seen(r) = doc[d] /\ ~doc[d].deleted
  BY <1>1, <1>2 DEF Seen
<1>4. lock[d] = None
  BY <1>1, <1>2 DEF SetStatus
<1>5. doc[d].confirmed
  BY <1>1, <1>3 DEF Known, Inv5, UnconfirmedQueued, Present
<1>6. ~Awaited(d)
  BY <1>4 DEF Awaited, Requeuing, NonTerminal
<1> QED
  BY <1>1, <1>3, <1>4, <1>5, <1>6 DEF Known, Inv5, PendingPart, PendingAwaited

(* A request about to commit holds the lock of its row.                    *)
LEMMA Committing ==
  ASSUME Known, NEW r \in Requests, txn[r].pc = "request_commit"
  PROVE  /\ txn[r].doc \in Docs /\ lock[txn[r].doc] = r /\ ~doc[txn[r].doc].deleted
         /\ Agrees(txn[r], doc[txn[r].doc])
<1>1. txn[r].doc \in Docs /\ lock[txn[r].doc] = r
  BY DEF Known, Inv5, TxnsSerial, RequestSerial, Inv1, TxnPart, TxnWellFormed, Existing
<1> QED
  BY <1>1 DEF Known, Inv4, LocksKnow, Inv2, RowAgrees

LEMMA WorkerSerialMonotone ==
  ASSUME NEW x, NEW a, NEW b, NEW held, NEW calm, NEW calmer,
         WorkerSerial(x, a, held, calmer), calm => calmer,
         a.deleted => b.deleted,
         a.status \in NonTerminal => b.status \in NonTerminal \/ b.deleted
  PROVE  WorkerSerial(x, b, held, calm)
  BY DEF WorkerSerial

(* The part of the invariant about jobs, when no job is added.             *)
LEMMA NoNewPending ==
  ASSUME Inv5, \A d \in Docs : \A j \in JobIds : PendingOn(j, d)' => PendingOn(j, d),
         \A d \in Docs :
           \/ (doc[d].deleted \/ Awaited(d)) => (doc'[d].deleted \/ Awaited(d)')
           \/ \A j \in JobIds : ~PendingOn(j, d)',
         ChunksPart'
  PROVE  PendingPart'
<1>1. OnePending /\ PendingAwaited
  BY DEF Inv5, PendingPart
<1>2. OnePending'
  BY <1>1 DEF OnePending
<1>3. PendingAwaited'
  BY <1>1 DEF PendingAwaited
<1> QED
  BY <1>2, <1>3 DEF PendingPart

(* ... and when a document that had none gets one.                         *)
LEMMA NewPending ==
  ASSUME Inv5, NEW d \in Docs,
         \A c \in Docs \ {d} : /\ doc'[c] = doc[c] /\ Awaited(c)' = Awaited(c)
                               /\ \A i \in JobIds : PendingOn(i, c)' = PendingOn(i, c),
         \A i \in JobIds : ~PendingOn(i, d),
         \A i, j \in JobIds : PendingOn(i, d)' /\ PendingOn(j, d)' => i = j,
         Awaited(d)',
         ChunksPart'
  PROVE  PendingPart'
<1>1. OnePending /\ PendingAwaited
  BY DEF Inv5, PendingPart
<1>2. OnePending'
  BY <1>1 DEF OnePending
<1>3. PendingAwaited'
  BY <1>1 DEF PendingAwaited
<1> QED
  BY <1>2, <1>3 DEF PendingPart

LEMMA SameChunks ==
  ASSUME Inv5, UNCHANGED <<doc, chunks>>,
         \A d \in Docs : \A j \in JobIds : PendingOn(j, d)' => PendingOn(j, d) \/ chunks[d] = {}
  PROVE  ChunksPart'
  BY DEF Inv5, PendingPart, ChunksPart

(* What no step undoes.                                                    *)
Settled(row) == row.deleted \/ row.status = "ready"

(* Who else is to be considered when transaction t moves.                  *)
LEMMA OthersSerial ==
  ASSUME Inv1, Inv5, NEW t \in Txns, NEW x, x \in Txn, Becomes(t, x), OnlyLocksOf(t),
         Undisturbed' => Undisturbed,
         \A r \in Requests \ {t} : txn[r].pc = "request_commit" =>
           doc'[txn[r].doc] = doc[txn[r].doc],
         \A d \in Docs : /\ doc[d].deleted => doc'[d].deleted
                         /\ Settled(doc[d]) => Settled(doc'[d]),
         \A w \in Workers \ {t} : txn[w].pc \notin {"idle", "ack"} =>
           LET d == txn[w].doc IN
           doc[d].status \in NonTerminal => doc'[d].status \in NonTerminal \/ doc'[d].deleted,
         x.pc # "idle" =>
           /\ t \in Requests => RequestSerial(x, doc'[x.doc], lock'[x.doc] = t)
           /\ t \in Workers => WorkerSerial(x, doc'[x.doc], lock'[x.doc] = t, Undisturbed')
  PROVE  TxnsSerial'
<1>1. txn'[t] = x /\ \A u \in Txns \ {t} : txn'[u] = txn[u]
  BY DEF Becomes, Inv1, TxnPart
<1>2. ASSUME NEW u \in Txns \ {t}, txn[u].pc # "idle"
      PROVE  txn[u].doc \in Docs /\ (lock'[txn[u].doc] = u) = (lock[txn[u].doc] = u)
  BY <1>2 DEF Inv1, TxnPart, TxnWellFormed, Existing, OnlyLocksOf
<1>3. ASSUME NEW r \in Requests \ {t}, txn[r].pc # "idle"
      PROVE  RequestSerial(txn[r], doc'[txn[r].doc], lock'[txn[r].doc] = r)
  <2>1. RequestSerial(txn[r], doc[txn[r].doc], lock[txn[r].doc] = r)
    BY <1>3 DEF Inv5, TxnsSerial
  <2>2. RequestSerial(txn[r], doc[txn[r].doc], lock'[txn[r].doc] = r)
    BY <1>2, <1>3, <2>1
  <2>3. Settled(doc[txn[r].doc]) => Settled(doc'[txn[r].doc])
    BY <1>2, <1>3
  <2>4. CASE txn[r].pc = "request_commit"
    BY <2>2, <2>4
  <2>5. CASE txn[r].pc # "request_commit"
    BY <2>2, <2>3, <2>5 DEF RequestSerial, Settled
  <2> QED
    BY <2>4, <2>5
<1>4. ASSUME NEW w \in Workers \ {t}, txn[w].pc # "idle"
      PROVE  WorkerSerial(txn[w], doc'[txn[w].doc], lock'[txn[w].doc] = w, Undisturbed')
  <2>1. WorkerSerial(txn[w], doc[txn[w].doc], lock[txn[w].doc] = w, Undisturbed)
    BY <1>4 DEF Inv5, TxnsSerial
  <2>2. WorkerSerial(txn[w], doc[txn[w].doc], lock'[txn[w].doc] = w, Undisturbed)
    BY <1>2, <1>4, <2>1
  <2>3. doc[txn[w].doc].deleted => doc'[txn[w].doc].deleted
    BY <1>2, <1>4
  <2>4. CASE txn[w].pc = "ack"
    BY <2>2, <2>3, <2>4 DEF WorkerSerial
  <2>5. CASE txn[w].pc # "ack"
    BY <1>4, <2>2, <2>3, <2>5, WorkerSerialMonotone
  <2> QED
    BY <2>4, <2>5
<1> QED
  BY <1>1, <1>3, <1>4 DEF TxnsSerial

-------------------------------------------------------------------------------
(* The steps of a worker.                                                  *)

LEMMA PendingKept ==
  ASSUME Inv1, NEW t \in Txns, NEW x, x \in Txn, Becomes(t, x),
         t \in Workers => txn[t].pc # "ack" /\ x.pc # "ack",
         NEW j \in JobIds, Live(j)' = Live(j)
  PROVE  Pending(j)' = Pending(j)
<1>1. txn'[t] = x /\ \A u \in Txns \ {t} : txn'[u] = txn[u]
  BY DEF Becomes, Inv1, TxnPart
<1>2. \A w \in Workers :
        (txn'[w].pc = "ack" => txn'[w].job # j) <=> (txn[w].pc = "ack" => txn[w].job # j)
  BY <1>1
<1> QED
  BY <1>2 DEF Pending

(* A step in the middle of a job.                                          *)
LEMMA Middle5 ==
  ASSUME Known, NEW w \in Workers, NEW x, x \in Txn, Becomes(w, x),
         txn[w].pc \notin {"idle", "ack"}, x.pc \notin {"idle", "ack"},
         x.job = txn[w].job, x.doc = txn[w].doc,
         UNCHANGED <<doc, chunks, job>>, Spent, OnlyLocksOf(w),
         WorkerSerial(x, doc[x.doc], lock'[x.doc] = w, Undisturbed')
  PROVE  Inv5'
<1>0. w \in Txns /\ Inv1 /\ Inv5 /\ w \notin Requests
  BY DEF Known
<1>1. txn'[w] = x /\ \A u \in Txns \ {w} : txn'[u] = txn[u]
  BY <1>0 DEF Becomes, Inv1, TxnPart
<1>2. x.doc \in Docs
  BY <1>0, Busy
<1>3. \A j \in JobIds : Pending(j)' = Pending(j)
  BY <1>0, PendingKept DEF Live
<1>4. \A d \in Docs : Awaited(d)' = Awaited(d)
  <2> SUFFICES ASSUME NEW d \in Docs
               PROVE  Confirming(d)' = Confirming(d) /\ Requeuing(d)' = Requeuing(d)
    BY DEF Awaited
  <2>1. /\ lock'[d] \in Requests <=> lock[d] \in Requests
        /\ lock[d] \in Requests => lock'[d] = lock[d]
    BY <1>0, <1>2 DEF OnlyLocksOf
  <2> QED
    BY <1>0, <1>1, <2>1 DEF Confirming, Requeuing
<1>5. \A j \in JobIds, d \in Docs : PendingOn(j, d)' = PendingOn(j, d)
  BY <1>3 DEF PendingOn
<1>6. PendingPart'
  BY <1>0, <1>4, <1>5, NoNewPending, SameChunks DEF Spent
<1>7. WorkersApart'
  BY <1>0, <1>1 DEF Inv5, WorkersApart
<1>8. UnconfirmedQueued' /\ FaultsPart'
  BY <1>0 DEF Inv5, UnconfirmedQueued, Present, Spent
<1>9. TxnsSerial'
  BY <1>0, <1>2, OthersSerial DEF Spent
<1> QED
  BY <1>6, <1>7, <1>8, <1>9 DEF Inv5

LEMMA OwnLock ==
  ASSUME Inv1, NEW t \in Txns, NEW d \in Docs,
         \/ lock' = lock
         \/ lock[d] \in {None, t} /\ lock' = [lock EXCEPT ![d] = t]
  PROVE  OnlyLocksOf(t)
  BY DEF OnlyLocksOf, Inv1, TxnPart

LEMMA WorkerSees ==
  ASSUME Known, NEW w \in Workers, txn[w].pc # "idle"
  PROVE  /\ txn[w] \in Txn
         /\ WorkerSerial(txn[w], doc[txn[w].doc], lock[txn[w].doc] = w, Undisturbed)
         /\ RecordKnows(w, txn[w]) /\ WorkerKnows(w, txn[w], lock, doc)
  BY DEF Known, Inv1, TxnPart, Inv4, Inv5, TxnsSerial

(* The writes of the status.  A worker that meets a status it has already  *)
(* written, or a deleted row, goes on without the lock.                    *)
LEMMA SetStatus5 ==
  ASSUME Known, NEW w \in Workers, NEW s \in Statuses, NEW next \in PCs,
         txn[w].pc \in {"start", "extracting", "chunking", "publish"},
         txn[w].pc = "publish" => next = "job_commit",
         SetStatus(w, s, next), UNCHANGED <<doc, chunks, job, faultsLeft>>,
         <<s, next>> \in {<<"extracting", "extracting">>, <<"chunking", "chunking">>,
                          <<"embedding", "embedding">>, <<"failed", "job_commit">>,
                          <<"ready", "job_commit">>},
         next = "extracting" <=> txn[w].pc = "start",
         next = "chunking" => txn[w].pc = "extracting",
         next = "embedding" => txn[w].pc = "chunking",
         s = "ready" <=> txn[w].pc = "publish"
  PROVE  Inv5'
<1> DEFINE d == txn[w].doc
<1>0. /\ txn[w] \in Txn /\ w \in Txns /\ d \in Docs
      /\ WorkerSerial(txn[w], doc[d], lock[d] = w, Undisturbed)
      /\ RecordKnows(w, txn[w]) /\ WorkerKnows(w, txn[w], lock, doc)
  BY WorkerSees, Busy DEF Known
<1>a. Spent /\ Undisturbed' = Undisturbed
  BY NoFault DEF Known
<1>1. CASE (Seen(w).deleted \/ txn[w].view = s) /\ Goto(w, next)
  <2> DEFINE x == [txn[w] EXCEPT !.pc = next]
  <2>1. /\ x \in Txn /\ x.pc = next /\ x.doc = d /\ x.job = txn[w].job
        /\ x.row = txn[w].row /\ x.view = txn[w].view /\ x.adds = txn[w].adds
        /\ x.cleared = txn[w].cleared /\ x.stored = txn[w].stored
    BY <1>0 DEF Txn, PCs
  <2>2. Becomes(w, x) /\ lock' = lock
    BY <1>1 DEF Goto
  <2>3. doc[d].deleted \/ (txn[w].view = s /\ next = "extracting")
    <3>1. doc[d].deleted \/ txn[w].view = s
      BY <1>0, <1>1 DEF Seen, RecordKnows
    <3>2. txn[w].view = s => doc[d].deleted \/ next = "extracting"
      BY <1>0 DEF WorkerSerial, WorkerKnows, NonTerminal
    <3> QED
      BY <3>1, <3>2
  <2> HIDE DEF x
  <2>4. WorkerSerial(x, doc[d], lock'[d] = w, Undisturbed')
    BY <1>0, <1>a, <2>1, <2>2, <2>3, BusyOwner DEF WorkerSerial, NonTerminal, Known, RecordKnows
  <2>5. OnlyLocksOf(w)
    BY <1>0, <2>2, OwnLock DEF Known
  <2> QED
    BY <1>a, <2>1, <2>2, <2>4, <2>5, Middle5
<1>2. CASE /\ ~Seen(w).deleted
           /\ lock[d] \in {None, w}
           /\ lock' = [lock EXCEPT ![d] = w]
           /\ Becomes(w, [txn[w] EXCEPT !.pc = next, !.view = s,
                            !.row = [Seen(w) EXCEPT !.status = s, !.stale = FALSE]])
  <2> DEFINE row == [Seen(w) EXCEPT !.status = s, !.stale = FALSE]
             x == [txn[w] EXCEPT !.pc = next, !.view = s, !.row = row]
  <2>1. row \in Row /\ row.status = s
    BY SeenRow, StatusRow DEF Known
  <2>2. Becomes(w, x)
    BY <1>2
  <2> HIDE DEF row
  <2>3. /\ x \in Txn /\ x.pc = next /\ x.doc = d /\ x.job = txn[w].job
        /\ x.row.status = s /\ x.view = s /\ x.adds = txn[w].adds
        /\ x.cleared = txn[w].cleared /\ x.stored = txn[w].stored
    BY <1>0, <2>1 DEF Txn, PCs
  <2> HIDE DEF x
  <2>4. doc[d].status \in NonTerminal
    <3>1. ~doc[d].deleted
      BY <1>0, <1>2 DEF Seen, Known, Inv4, LocksKnow
    <3>2. lock[d] \notin Requests
      BY <1>0, <1>2
    <3> QED
      BY <3>1, <3>2, Busy DEF Known, Awaited, Requeuing
  <2>5. lock'[d] = w
    BY <1>0, <1>2 DEF Known, Inv1, TxnPart
  <2>6. WorkerSerial(x, doc[d], lock'[d] = w, Undisturbed')
    BY <1>0, <1>a, <2>3, <2>4, <2>5 DEF WorkerSerial, NonTerminal, RecordKnows, Touched
  <2>7. OnlyLocksOf(w)
    BY <1>0, <1>2, OwnLock DEF Known
  <2> QED
    BY <1>2, <1>a, <2>2, <2>3, <2>6, <2>7, Middle5
<1> QED
  BY <1>1, <1>2 DEF SetStatus, Goto

(* A step that leaves everything to the next: only the counter moves.  It  *)
(* may be RQ's alarm that moves it, if the attempt has nothing to lose.    *)
LEMMA Goto5 ==
  ASSUME Known, NEW w \in Workers, NEW pc \in {"clear", "raise", "abort"}, Goto(w, pc),
         UNCHANGED <<doc, chunks, job>>, Spent,
         \/ txn[w].pc = "extracting" /\ pc = "raise"
         \/ txn[w].pc = "embedding" /\ pc \in {"clear", "raise"}
         \/ txn[w].pc = "insert" /\ pc = "abort"
         \/ /\ txn[w].pc \notin {"idle", "ack", "abort", "callback"} /\ pc # "clear"
            /\ pc = "raise" => txn[w].pc \notin {"publish", "job_commit"}
            /\ ~Undisturbed'
  PROVE  Inv5'
<1> DEFINE x == [txn[w] EXCEPT !.pc = pc]
<1>0. /\ txn[w] \in Txn /\ w \in Txns /\ txn[w].doc \in Docs
      /\ WorkerSerial(txn[w], doc[txn[w].doc], lock[txn[w].doc] = w, Undisturbed)
  BY WorkerSees, Busy DEF Known
<1>1. /\ x \in Txn /\ x.pc = pc /\ x.doc = txn[w].doc /\ x.job = txn[w].job
      /\ x.row = txn[w].row /\ x.view = txn[w].view /\ x.adds = txn[w].adds
      /\ x.cleared = txn[w].cleared /\ x.stored = txn[w].stored
  BY <1>0, Names DEF Txn, PCs
<1>2. Becomes(w, x) /\ lock' = lock /\ (Undisturbed' => Undisturbed)
  BY DEF Goto, Spent
<1> HIDE DEF x
<1>3. /\ txn[w].pc = "extracting" => txn[w].view = "extracting" \/ doc[txn[w].doc].deleted
      /\ txn[w].pc \in {"embedding", "insert"} =>
           txn[w].view = "embedding" \/ doc[txn[w].doc].deleted
  BY WorkerSees DEF WorkerKnows, WorkerSerial
<1>4. Undisturbed' /\ pc # "clear" => x.view \in NonTerminal \/ doc[txn[w].doc].deleted
  BY <1>1, <1>3 DEF NonTerminal
<1>5. WorkerSerial(x, doc[x.doc], lock'[x.doc] = w, Undisturbed')
  BY <1>0, <1>1, <1>2, <1>4 DEF WorkerSerial, NonTerminal
<1>6. OnlyLocksOf(w)
  BY <1>0, <1>2, OwnLock DEF Known
<1> QED
  BY <1>1, <1>2, <1>5, <1>6, Middle5

LEMMA ClearChunks5 ==
  ASSUME Known, NEW w \in Workers, ClearChunks(w)
  PROVE  Inv5'
<1> DEFINE x == [txn[w] EXCEPT !.pc = "insert", !.cleared = chunks[txn[w].doc]]
<1>1. /\ Becomes(w, x) /\ txn[w].pc = "clear"
      /\ UNCHANGED <<doc, object, chunks, usage, lock, job, faultsLeft>>
  BY DEF ClearChunks, DeleteChunks
<1>2. /\ txn[w] \in Txn /\ w \in Txns /\ txn[w].doc \in Docs /\ chunks[txn[w].doc] = {}
      /\ WorkerSerial(txn[w], doc[txn[w].doc], lock[txn[w].doc] = w, Undisturbed)
  BY <1>1, WorkerSees, Busy DEF Known, Inv5, PendingPart, ChunksPart
<1>3. /\ x \in Txn /\ x.pc = "insert" /\ x.doc = txn[w].doc /\ x.job = txn[w].job
      /\ x.row = txn[w].row /\ x.view = txn[w].view /\ x.adds = txn[w].adds
      /\ x.stored = txn[w].stored /\ x.cleared = {}
  BY <1>2, Names DEF Txn, PCs
<1> HIDE DEF x
<1>4. Spent /\ Undisturbed' = Undisturbed /\ OnlyLocksOf(w)
  BY <1>1, <1>2, NoFault, OwnLock DEF Known
<1>5. WorkerSerial(x, doc[x.doc], lock'[x.doc] = w, Undisturbed')
  BY <1>1, <1>2, <1>3, <1>4 DEF WorkerSerial, NonTerminal
<1> QED
  BY <1>1, <1>3, <1>4, <1>5, Middle5

LEMMA InsertChunks5 ==
  ASSUME Known, NEW w \in Workers, InsertChunks(w)
  PROVE  Inv5'
<1>1. txn[w].pc = "insert" /\ UNCHANGED <<doc, object, chunks, usage, job, faultsLeft>>
  BY DEF InsertChunks, At
<1>a. Spent /\ Undisturbed' = Undisturbed
  BY <1>1, NoFault DEF Known
<1>2. CASE Goto(w, "abort")
  BY <1>1, <1>2, <1>a, Goto5
<1>3. CASE Becomes(w, [txn[w] EXCEPT !.pc = "publish", !.stored = {txn[w].job}]) /\ UNCHANGED lock
  <2> DEFINE x == [txn[w] EXCEPT !.pc = "publish", !.stored = {txn[w].job}]
  <2>1. /\ txn[w] \in Txn /\ w \in Txns /\ txn[w].doc \in Docs
        /\ {txn[w].job} \in SUBSET JobIds
        /\ WorkerSerial(txn[w], doc[txn[w].doc], lock[txn[w].doc] = w, Undisturbed)
    BY <1>1, WorkerSees, Busy DEF Known
  <2>2. /\ x \in Txn /\ x.pc = "publish" /\ x.doc = txn[w].doc /\ x.job = txn[w].job
        /\ x.row = txn[w].row /\ x.view = txn[w].view /\ x.adds = txn[w].adds
        /\ x.cleared = txn[w].cleared
    BY <2>1, Names DEF Txn, PCs
  <2>3. Becomes(w, x)
    BY <1>3
  <2> HIDE DEF x
  <2>4. WorkerSerial(x, doc[x.doc], lock'[x.doc] = w, Undisturbed')
    BY <1>1, <1>3, <1>a, <2>1, <2>2 DEF WorkerSerial, NonTerminal
  <2>5. OnlyLocksOf(w)
    BY <1>3, <2>1, OwnLock DEF Known
  <2> QED
    BY <1>1, <1>a, <2>2, <2>3, <2>4, <2>5, Middle5
<1> QED
  BY <1>2, <1>3 DEF InsertChunks

(* A worker takes a job.  A job it declines was not needed.                *)
LEMMA TakeJob5 ==
  ASSUME Known, NEW w \in Workers, NEW j \in JobIds, TakeJob(w, j)
  PROVE  Inv5'
<1> DEFINE d == job[j].doc
           pc == IF doc[d].deleted \/ doc[d].status = "ready" THEN "ack" ELSE "start"
           x == Begin(pc, d, j, doc[d].status)
<1>0. w \in Txns /\ Inv1 /\ Inv5 /\ w \notin Requests
  BY DEF Known
<1>1. /\ Becomes(w, x) /\ UNCHANGED <<doc, chunks, lock, faultsLeft>>
      /\ txn[w].pc = "idle" /\ job[j].state = "queued"
      /\ job' = [job EXCEPT ![j].state = "running", ![j].attempts = @ + 1]
  BY DEF TakeJob
<1>2. d \in Docs /\ doc[d].status \in Statuses /\ pc \in PCs
  BY <1>0, <1>1, Names DEF Inv1, JobPart, JobWellFormed, Existing, DocPart, Row
<1>3. /\ pc \in {"ack", "start"}
      /\ pc = "ack" => doc[d].deleted \/ doc[d].status = "ready"
  OBVIOUS
<1> HIDE DEF pc
<1>4. /\ job'[j].state = "running" /\ job'[j].doc = d
      /\ \A i \in JobIds \ {j} : job'[i] = job[i]
  BY <1>0, <1>1 DEF Inv1, JobPart, Job
<1> HIDE DEF d
<1>5. /\ x \in Txn /\ x.pc = pc /\ x.doc = d /\ x.job = j /\ x.view = doc[d].status
      /\ x.adds = 0 /\ x.cleared = {} /\ x.stored = {}
  BY <1>2, BeginRecord, BeginFresh DEF Begin, Idle
<1> HIDE DEF x
<1>6. txn'[w] = x /\ \A u \in Txns \ {w} : txn'[u] = txn[u]
  BY <1>0, <1>1 DEF Becomes, Inv1, TxnPart
<1>7. \A c \in Docs : lock'[c] # w /\ lock[c] # w
  BY <1>0, <1>1, NoLock DEF Unlocked
<1>8. \A v \in Workers : txn[v].pc # "idle" => txn[v].job # j /\ txn[v].job \in JobIds
  BY <1>0, <1>1 DEF Inv5, WorkersApart, Inv1, WorkerHasJob
<1>9. WorkersApart'
  BY <1>0, <1>4, <1>5, <1>6, <1>8 DEF Inv5, WorkersApart
<1>10. /\ \A i \in JobIds \ {j} : Pending(i)' = Pending(i)
       /\ Pending(j) /\ (pc = "start" => Pending(j)') /\ d = job[j].doc
  <2>1. \A i \in JobIds \ {j} : Pending(i)' = Pending(i)
    <3> SUFFICES ASSUME NEW i \in JobIds, i # j PROVE Pending(i)' = Pending(i)
      OBVIOUS
    <3>1. Live(i)' = Live(i)
      BY <1>4 DEF Live
    <3>2. \A v \in Workers :
            (txn'[v].pc = "ack" => txn'[v].job # i) <=> (txn[v].pc = "ack" => txn[v].job # i)
      BY <1>1, <1>5, <1>6
    <3> QED
      BY <3>1, <3>2 DEF Pending
  <2>2. Pending(j)
    BY <1>1, <1>8 DEF Pending, Live
  <2>3. ASSUME pc = "start" PROVE Pending(j)'
    BY <1>4, <1>5, <1>6, <1>8, <2>3 DEF Pending, Live
  <2> QED
    BY <2>1, <2>2, <2>3 DEF d
<1>11. \A c \in Docs : Awaited(c)' = Awaited(c)
  BY <1>1, <1>6, <1>7 DEF Awaited, Confirming, Requeuing
<1>12. doc[d].status = "ready" => ~Awaited(d)
  BY DEF Awaited, NonTerminal
<1>b. Spent /\ Undisturbed' = Undisturbed
  BY <1>0, <1>1, NoFault
<1>13. PendingPart'
  <2>1. \A c \in Docs : \A i \in JobIds : PendingOn(i, c)' => PendingOn(i, c)
    BY <1>4, <1>10 DEF PendingOn
  <2>2. ASSUME NEW c \in Docs
        PROVE  \/ \A i \in JobIds : PendingOn(i, c) => PendingOn(i, c)'
               \/ doc[c].deleted \/ ~Awaited(c)
    <3>1. CASE pc = "start" \/ c # d
      BY <1>4, <1>10, <3>1 DEF PendingOn
    <3>2. CASE pc = "ack" /\ c = d
      BY <1>3, <1>12, <3>2
    <3> QED
      BY <1>3, <3>1, <3>2
  <2> QED
    BY <1>0, <1>1, <1>b, <1>11, <2>1, <2>2, NoNewPending, SameChunks DEF Spent
<1>14. WorkerSerial(x, doc[d], lock[d] = w, Undisturbed')
  BY <1>2, <1>3, <1>5, <1>7 DEF WorkerSerial
<1>15. TxnsSerial'
  BY <1>0, <1>1, <1>5, <1>14, <1>b, OthersSerial DEF OnlyLocksOf, Spent
<1> QED
  BY <1>0, <1>1, <1>9, <1>13, <1>15, <1>b DEF Inv5, UnconfirmedQueued, Present, Spent

(* What the commit at the end of a job does.  It settles the document, or  *)
(* leaves it to be retried; if the document is deleted, or was not written *)
(* by this attempt, nobody sees a difference but in its chunks.            *)
LEMMA CommitJobDoes ==
  ASSUME Known, NEW w \in Workers, CommitJob(w)
  PROVE  LET d == txn[w].doc IN
         /\ \A c \in Docs \ {d} : doc'[c] = doc[c] /\ chunks'[c] = chunks[c]
         /\ \/ /\ lock[d] = w /\ doc'[d].confirmed /\ ~doc'[d].deleted
               /\ \/ /\ txn[w].pc = "raise" /\ doc'[d].status \in NonTerminal
                     /\ chunks'[d] = chunks[d]
                  \/ /\ txn[w].pc = "job_commit" /\ doc'[d].status = "failed"
                     /\ chunks'[d] = chunks[d]
                  \/ /\ txn[w].pc = "job_commit" /\ doc'[d].status = "ready"
                     /\ chunks'[d] # {}
            \/ /\ lock[d] # w /\ doc'[d] = doc[d] /\ chunks'[d] = chunks[d]
               /\ txn[w].pc = "raise" \/ doc[d].deleted
            \/ /\ lock[d] # w /\ doc'[d] = doc[d] /\ doc[d].deleted
               /\ txn[w].pc = "job_commit"
               /\ chunks[d] # {} => chunks'[d] # {}
<1> DEFINE d == txn[w].doc
<1>1. /\ txn[w].pc \in {"job_commit", "raise"} /\ Install(w) /\ w \in Txns
  BY DEF CommitJob
<1>2. /\ txn[w] \in Txn /\ d \in Docs
      /\ WorkerSerial(txn[w], doc[d], lock[d] = w, Undisturbed)
      /\ RecordKnows(w, txn[w]) /\ WorkerKnows(w, txn[w], lock, doc)
  BY <1>1, WorkerSees, Busy DEF Known
<1>3. /\ \A c \in Docs \ {d} : doc'[c] = doc[c] /\ chunks'[c] = chunks[c]
      /\ doc'[d] = Seen(w)
      /\ chunks'[d] = (chunks[d] \ txn[w].cleared) \cup txn[w].stored
  BY <1>1, <1>2 DEF Install, Known, Inv1, DocPart, RestPart
<1>4. CASE lock[d] = w
  <2>1. doc'[d] = txn[w].row /\ ~txn[w].row.deleted
    BY <1>2, <1>3, <1>4 DEF Seen, RecordKnows
  <2>2. doc[d].confirmed /\ ~doc[d].deleted
    BY <1>2, <1>4, BusyOwner DEF Known
  <2>3. txn[w].row.confirmed
    BY <1>2, <1>4, <2>2 DEF Known, Inv2, RowAgrees, Agrees, WorkerSerial, Inv1, TxnPart
  <2>4. CASE txn[w].pc = "raise"
    BY <1>2, <1>3, <1>4, <2>1, <2>3, <2>4 DEF WorkerSerial
  <2>5. CASE txn[w].pc = "job_commit"
    BY <1>2, <1>3, <1>4, <2>1, <2>2, <2>3, <2>5 DEF WorkerSerial, RecordKnows, Touched
  <2> QED
    BY <1>1, <1>3, <1>4, <2>4, <2>5
<1>5. CASE lock[d] # w
  <2>1. doc'[d] = doc[d]
    BY <1>3, <1>5 DEF Seen
  <2>2. CASE txn[w].pc = "raise"
    BY <1>2, <1>3, <1>5, <2>1, <2>2 DEF WorkerSerial
  <2>3. CASE txn[w].pc = "job_commit"
    BY <1>2, <1>3, <1>5, <2>1, <2>3 DEF WorkerSerial
  <2> QED
    BY <1>1, <1>3, <2>2, <2>3
<1> QED
  BY <1>4, <1>5

(* While a worker is at work, what others know of its document does not    *)
(* depend on the status it may give it.                                    *)
LEMMA OthersAreApart ==
  ASSUME Known, NEW w \in Workers, txn[w].pc \notin {"idle", "ack"},
         NEW x, x \in Txn, Becomes(w, x), OnlyLocksOf(w), Undisturbed' => Undisturbed,
         \A c \in Docs \ {txn[w].doc} : doc'[c] = doc[c],
         \/ doc'[txn[w].doc] = doc[txn[w].doc]
         \/ /\ lock[txn[w].doc] \in {None, w} /\ ~doc[txn[w].doc].deleted
            /\ doc[txn[w].doc].status \in NonTerminal,
         x.pc # "idle" => WorkerSerial(x, doc'[x.doc], lock'[x.doc] = w, Undisturbed')
  PROVE  TxnsSerial'
<1> DEFINE d == txn[w].doc
<1>1. /\ w \in Txns /\ w \notin Requests /\ d \in Docs /\ Inv1 /\ Inv5
      /\ PendingOn(txn[w].job, d) /\ txn[w].job \in JobIds
  BY Busy DEF Known
<1>2. ASSUME NEW r \in Requests, txn[r].pc = "request_commit"
      PROVE  doc'[txn[r].doc] = doc[txn[r].doc]
  BY <1>1, <1>2, Committing
<1>3. \A c \in Docs : /\ doc[c].deleted => doc'[c].deleted
                      /\ Settled(doc[c]) => Settled(doc'[c])
  BY <1>1 DEF Settled, NonTerminal
<1>4. \A v \in Workers \ {w} : txn[v].pc \notin {"idle", "ack"} => txn[v].doc \in Docs \ {d}
  <2> SUFFICES ASSUME NEW v \in Workers, v # w, txn[v].pc \notin {"idle", "ack"}
               PROVE  txn[v].doc \in Docs \ {d}
    OBVIOUS
  <2>1. /\ txn[v].doc \in Docs /\ txn[v].job \in JobIds /\ PendingOn(txn[v].job, txn[v].doc)
    BY <1>1, Busy
  <2>2. txn[v].job # txn[w].job
    BY DEF Known, Inv5, WorkersApart
  <2> QED
    BY <1>1, <2>1, <2>2 DEF Inv5, PendingPart, OnePending
<1> QED
  BY <1>1, <1>2, <1>3, <1>4, OthersSerial

LEMMA LocksSame ==
  ASSUME NEW t \in Txns, lock' = Released(t)
  PROVE  OnlyLocksOf(t) /\ \A d \in Docs : lock'[d] = IF lock[d] = t THEN None ELSE lock[d]
  BY DEF OnlyLocksOf, Released

(* Only the holder of a row lock, and the committed row, say whether a     *)
(* document is to be processed.                                            *)
LEMMA AwaitedSame ==
  ASSUME NEW d \in Docs, doc'[d] = doc[d],
         lock[d] \in Requests \/ lock'[d] \in Requests =>
           lock'[d] = lock[d] /\ txn'[lock[d]] = txn[lock[d]]
  PROVE  Awaited(d)' = Awaited(d)
  BY DEF Awaited, Confirming, Requeuing

LEMMA EndJob5 ==
  ASSUME Known, NEW w \in Workers, CommitJob(w) \/ RollBackJob(w)
  PROVE  Inv5'
<1>0. /\ w \in Txns /\ w \notin Requests /\ Inv1 /\ Inv5
      /\ txn[w].pc \in {"raise", "job_commit", "abort"}
  BY DEF Known, CommitJob, RollBackJob
<1>a. PICK d \in Docs, j \in JobIds : d = txn[w].doc /\ j = txn[w].job
  BY <1>0, Busy
<1>b. PICK pc \in {"ack", "callback"} : pc = "ack" <=> txn[w].pc = "job_commit"
  OBVIOUS
<1> DEFINE x == Ended(w, pc)
<1>1. /\ Becomes(w, x) /\ UNCHANGED <<object, job, faultsLeft>> /\ lock' = Released(w)
  BY <1>0, <1>b DEF CommitJob, RollBackJob, Install, Discard
<1>2. /\ PendingOn(j, d)
      /\ txn[w] \in Txn /\ WorkerSerial(txn[w], doc[d], lock[d] = w, Undisturbed)
  BY <1>0, <1>a, Busy, WorkerSees
<1>3. /\ x \in Txn /\ x.pc = pc /\ x.doc = d /\ x.job = j /\ x.view = txn[w].view
      /\ x.adds = 0 /\ x.cleared = {} /\ x.stored = {}
  BY ZenonT(60), <1>0, <1>a, <1>2, EndedRecord, BeginFresh, Names DEF Ended, Begin, Idle
<1> HIDE DEF x
<1>4. txn'[w] = x /\ \A u \in Txns \ {w} : txn'[u] = txn[u]
  BY <1>0, <1>1 DEF Becomes, Inv1, TxnPart
<1>5. OnlyLocksOf(w) /\ \A c \in Docs : lock'[c] = IF lock[c] = w THEN None ELSE lock[c]
  BY <1>0, <1>1, LocksSame
<1>6. /\ \A c \in Docs \ {d} : doc'[c] = doc[c] /\ chunks'[c] = chunks[c]
      /\ \/ /\ lock[d] = w /\ doc'[d].confirmed /\ ~doc'[d].deleted
            /\ \/ /\ txn[w].pc = "raise" /\ doc'[d].status \in NonTerminal
                  /\ chunks'[d] = chunks[d]
               \/ /\ txn[w].pc = "job_commit" /\ doc'[d].status = "failed"
                  /\ chunks'[d] = chunks[d]
               \/ txn[w].pc = "job_commit" /\ doc'[d].status = "ready"
         \/ /\ doc'[d] = doc[d]
            /\ \/ txn[w].pc # "job_commit" /\ chunks'[d] = chunks[d]
               \/ txn[w].pc = "job_commit" /\ doc[d].deleted
  <2>1. CASE RollBackJob(w)
    BY <2>1 DEF RollBackJob, Discard
  <2>2. CASE CommitJob(w)
    BY <1>a, <2>2, CommitJobDoes
  <2> QED
    BY <2>1, <2>2
<1>c. Spent /\ Undisturbed' = Undisturbed
  BY <1>0, <1>1, NoFault
<1>7. lock[d] = w => doc[d].status \in NonTerminal /\ doc[d].confirmed /\ ~doc[d].deleted
  BY <1>0, BusyOwner DEF Known
<1>9. \A i \in JobIds \ {j} : Pending(i)' = Pending(i)
  <2> SUFFICES ASSUME NEW i \in JobIds, i # j PROVE Pending(i)' = Pending(i)
    OBVIOUS
  <2>1. \A v \in Workers :
          (txn'[v].pc = "ack" => txn'[v].job # i) <=> (txn[v].pc = "ack" => txn[v].job # i)
    BY <1>0, <1>a, <1>3, <1>4
  <2> QED
    BY <1>1, <2>1 DEF Pending, Live
<1>10. Pending(j)' = (pc = "callback")
  <2>1. \A v \in Workers \ {w} : txn[v].pc = "ack" => txn[v].job # j
    BY <1>2 DEF PendingOn, Pending
  <2>2. Live(j)'
    BY <1>1, <1>2 DEF PendingOn, Pending, Live
  <2> QED
    BY <1>2, <1>3, <1>4, <2>1, <2>2 DEF Pending
<1>11. \A c \in Docs : \A i \in JobIds : PendingOn(i, c)' => PendingOn(i, c)
  BY <1>1, <1>2, <1>9, <1>10 DEF PendingOn
<1>12. \A c \in Docs : (c # d \/ lock[d] # w) /\ doc'[c] = doc[c] => Awaited(c)' = Awaited(c)
  BY <1>0, <1>4, <1>5, AwaitedSame
<1>13. ASSUME pc = "ack" PROVE \A i \in JobIds : ~PendingOn(i, d)'
  <2>1. \A i \in JobIds : PendingOn(i, d) => i = j
    BY <1>0, <1>2 DEF Inv5, PendingPart, OnePending
  <2> QED
    BY <1>10, <1>11, <1>13, <2>1 DEF PendingOn
<1>d. ChunksPart'
  <2>1. \A c \in Docs :
          /\ ~doc[c].deleted /\ doc[c].status # "ready" => chunks[c] = {}
          /\ \A i \in JobIds : PendingOn(i, c) => chunks[c] = {}
    BY <1>0 DEF Inv5, PendingPart, ChunksPart
  <2>2. \A i \in JobIds : PendingOn(i, d)' => chunks'[d] = {}
    BY <1>0, <1>b, <1>2, <1>6, <1>13, <2>1
  <2>3. ~doc'[d].deleted /\ doc'[d].status # "ready" => chunks'[d] = {}
    BY <1>2, <1>6, <1>7, <2>1
  <2> QED
    BY <1>6, <1>11, <2>1, <2>2, <2>3 DEF ChunksPart
<1>14. PendingPart'
  <2>1. ASSUME NEW c \in Docs, c # d
        PROVE  /\ doc'[c] = doc[c] /\ Awaited(c)' = Awaited(c)
               /\ \A i \in JobIds : PendingOn(i, c) => PendingOn(i, c)'
    BY <1>1, <1>2, <1>6, <1>9, <1>12, <2>1 DEF PendingOn
  <2>2. CASE pc = "callback"
    <3>1. \A i \in JobIds : PendingOn(i, d) => PendingOn(i, d)'
      BY <1>1, <1>2, <1>9, <1>10, <2>2 DEF PendingOn
    <3>2. /\ (doc[d].deleted \/ Awaited(d)) => (doc'[d].deleted \/ Awaited(d)')
          /\ (~doc'[d].deleted /\ Awaited(d)') => (~doc[d].deleted /\ Awaited(d))
      <4>1. CASE lock[d] = w
        <5>1. Awaited(d) /\ ~doc[d].deleted
          BY <1>7, <4>1 DEF Awaited
        <5>2. doc'[d].deleted \/ Awaited(d)'
          BY <1>2, <1>6, <1>7, <1>b, <2>2, <4>1 DEF Awaited
        <5> QED
          BY <5>1, <5>2
      <4>2. CASE lock[d] # w
        BY <1>2, <1>6, <1>12, <4>2
      <4> QED
        BY <4>1, <4>2
    <3> QED
      BY <1>0, <1>c, <1>d, <1>11, <2>1, <3>1, <3>2, NoNewPending
  <2>3. CASE pc = "ack"
    <3>1. doc'[d].deleted \/ ~Awaited(d)'
      <4>1. CASE doc[d].deleted
        BY <1>2, <1>6, <1>7, <4>1
      <4>2. CASE ~doc[d].deleted
        <5>1. lock[d] = w /\ doc'[d].status \in {"ready", "failed"}
          BY <1>b, <1>6, <2>3, <4>2
        <5>2. lock'[d] \notin Requests
          BY <1>5, <5>1
        <5> QED
          BY <5>1, <5>2 DEF Awaited, Requeuing, NonTerminal
      <4> QED
        BY <4>1, <4>2
    <3> QED
      BY <1>0, <1>c, <1>d, <1>11, <1>13, <2>1, <2>3, <3>1, NoNewPending
  <2> QED
    BY <1>2, <2>2, <2>3
<1>15. WorkersApart'
  BY <1>0, <1>a, <1>1, <1>2, <1>3, <1>4 DEF Inv5, WorkersApart
<1>16. UnconfirmedQueued'
  BY <1>0, <1>2, <1>6, <1>7 DEF Inv5, UnconfirmedQueued, Present
<1>17. WorkerSerial(x, doc'[d], lock'[d] = w, Undisturbed')
  <2>1. lock'[d] # w
    BY <1>0, <1>5
  <2>2. pc = "callback" /\ Undisturbed' => txn[w].view \in NonTerminal \/ doc[d].deleted
    BY <1>0, <1>b, <1>2, <1>c DEF WorkerSerial
  <2>3. doc[d].deleted => doc'[d].deleted
    BY <1>6, <1>7
  <2>4. pc = "callback" /\ txn[w].view \in NonTerminal =>
          doc'[d].status \in NonTerminal \/ doc'[d].deleted
    BY <1>0, <1>b, <1>2, <1>6 DEF WorkerSerial
  <2> QED
    BY <1>3, <2>1, <2>2, <2>3, <2>4 DEF WorkerSerial
<1>18. TxnsSerial'
  BY <1>0, <1>a, <1>c, <1>1, <1>2, <1>3, <1>5, <1>6, <1>7, <1>17, OthersAreApart
<1> QED
  BY <1>0, <1>1, <1>c, <1>14, <1>15, <1>16, <1>18 DEF Inv5, Spent

(* What the failure callback does to the row: the last attempt of the only *)
(* pending job of a document gives it up.  It finds the document failed    *)
(* already if it is being requeued and the attempt was ended by a fault.   *)
LEMMA GiveUpDoes ==
  ASSUME Known, NEW w \in Workers, GiveUp(w)
  PROVE  LET d == txn[w].doc IN
         /\ \A c \in Docs \ {d} : doc'[c] = doc[c]
         /\ \/ doc'[d] = doc[d] /\ (doc[d].deleted \/ ~Undisturbed)
            \/ /\ lock[d] = None /\ doc[d].status \in NonTerminal
               /\ doc[d].confirmed /\ ~doc[d].deleted
               /\ doc'[d].status = "failed" /\ doc'[d].confirmed /\ ~doc'[d].deleted
<1> DEFINE d == txn[w].doc
<1>1. txn[w].pc = "callback" /\ w \in Txns /\ None \notin Requests
  BY DEF GiveUp
<1>2. /\ d \in Docs
      /\ doc[d].deleted \/ Awaited(d)
      /\ WorkerSerial(txn[w], doc[d], lock[d] = w, Undisturbed)
  BY <1>1, Busy, WorkerSees DEF Known
<1>3. Undisturbed => doc[d].deleted \/ doc[d].status \in NonTerminal
  BY <1>1, <1>2 DEF WorkerSerial
<1>4. CASE doc' = doc /\ (doc[d].deleted \/ doc[d].status = "failed")
  BY <1>3, <1>4 DEF NonTerminal
<1>5. CASE /\ ~doc[d].deleted
           /\ lock[d] = None
           /\ doc' = [doc EXCEPT ![d].status = "failed", ![d].stale = FALSE]
  <2>1. doc[d].status \in NonTerminal /\ doc[d].confirmed
    BY <1>1, <1>2, <1>5 DEF Awaited, Confirming, Requeuing
  <2>2. /\ doc'[d].status = "failed" /\ doc'[d].confirmed = doc[d].confirmed
        /\ doc'[d].deleted = doc[d].deleted
        /\ \A c \in Docs \ {d} : doc'[c] = doc[c]
    <3> DEFINE row == [doc[d] EXCEPT !.status = "failed", !.stale = FALSE]
    <3>1. doc[d] \in Row /\ doc \in [Docs -> Row]
      BY <1>2 DEF Known, Inv1, DocPart
    <3>2. row.status = "failed" /\ row.confirmed = doc[d].confirmed /\ row.deleted = doc[d].deleted
      BY <3>1 DEF Row
    <3>3. doc' = [doc EXCEPT ![d] = row]
      BY <1>5
    <3> HIDE DEF row
    <3> QED
      BY <1>2, <3>1, <3>2, <3>3
  <2> QED
    BY <1>5, <2>1, <2>2
<1> QED
  BY <1>4, <1>5 DEF GiveUp

(* A worker is done with its job, or dies with it.                         *)
LEMMA Leave5 ==
  ASSUME Known, NEW w \in Workers, txn[w].pc # "idle", Becomes(w, Idle), chunks' = chunks,
         Spent, OnlyLocksOf(w), \A c \in Docs : lock'[c] # w,
         NEW s \in {"retry", "failed", "finished", "lost"},
         job' = [job EXCEPT ![txn[w].job].state = s],
         s = "finished" <=> txn[w].pc = "ack",
         s = "lost" => ~Undisturbed',
         \A c \in Docs \ {txn[w].doc} : doc'[c] = doc[c],
         LET d == txn[w].doc IN
           \/ doc'[d] = doc[d] /\ (s = "failed" => doc[d].deleted \/ ~Undisturbed')
           \/ /\ s = "failed" /\ lock[d] = None /\ doc[d].status \in NonTerminal
              /\ doc[d].confirmed /\ ~doc[d].deleted
              /\ doc'[d].status = "failed" /\ doc'[d].confirmed /\ ~doc'[d].deleted
  PROVE  Inv5'
<1>0. w \in Txns /\ w \notin Requests /\ Inv1 /\ Inv5
  BY DEF Known
<1>1. PICK d \in Docs, j \in JobIds : d = txn[w].doc /\ j = txn[w].job
  BY <1>0 DEF Inv1, WorkerHasJob, TxnPart, TxnWellFormed, Existing
<1>3. txn'[w] = Idle /\ \A u \in Txns \ {w} : txn'[u] = txn[u]
  BY <1>0 DEF Becomes, Inv1, TxnPart
<1>4. Idle \in Txn /\ Idle.pc = "idle"
  BY IdleRecord
<1>5. /\ job'[j].state = s /\ \A i \in JobIds \ {j} : job'[i] = job[i]
      /\ \A i \in JobIds : job'[i].doc = job[i].doc
  <2>1. job \in [JobIds -> Job]
    BY <1>0 DEF Inv1, JobPart
  <2>2. job'[j].state = s /\ job'[j].doc = job[j].doc
    BY <1>1, <2>1 DEF Job
  <2>3. \A i \in JobIds \ {j} : job'[i] = job[i]
    BY <1>1, <2>1
  <2> QED
    BY <2>2, <2>3
<1>6. \A v \in Workers \ {w} : txn[v].pc # "idle" => txn[v].job # j /\ txn[v].job \in JobIds
  BY <1>0, <1>1 DEF Inv5, WorkersApart, Inv1, WorkerHasJob
<1>7. job[j].state = "running" /\ job[j].doc = d
  BY <1>0, <1>1 DEF Inv5, WorkersApart
<1>8. WorkersApart'
  <2>1. ASSUME NEW v \in Workers, txn'[v].pc # "idle"
        PROVE  v # w /\ txn'[v] = txn[v] /\ txn[v].job \in JobIds \ {j}
    BY <1>0, <1>3, <1>4, <1>6, <2>1
  <2>2. \A v \in Workers : txn'[v].pc # "idle" =>
          job'[txn'[v].job].state = "running" /\ job'[txn'[v].job].doc = txn'[v].doc
    BY <1>0, <1>5, <2>1 DEF Inv5, WorkersApart
  <2>3. ASSUME NEW u \in Workers, NEW v \in Workers, u # v,
               txn'[u].pc # "idle", txn'[v].pc # "idle"
        PROVE  txn'[u].job # txn'[v].job
    <3>1. txn'[u] = txn[u] /\ txn'[v] = txn[v]
      BY <2>1, <2>3
    <3> QED
      BY <1>0, <2>3, <3>1 DEF Inv5, WorkersApart
  <2> QED
    BY <2>2, <2>3 DEF WorkersApart
<1>9. \A i \in JobIds \ {j} : Pending(i)' = Pending(i)
  <2> SUFFICES ASSUME NEW i \in JobIds, i # j PROVE Pending(i)' = Pending(i)
    OBVIOUS
  <2>1. \A v \in Workers :
          (txn'[v].pc = "ack" => txn'[v].job # i) <=> (txn[v].pc = "ack" => txn[v].job # i)
    BY <1>1, <1>3, <1>4
  <2>2. Live(i)' = Live(i)
    BY <1>5 DEF Live
  <2> QED
    BY <2>1, <2>2 DEF Pending
<1>10. /\ Pending(j)' <=> s = "retry"
       /\ Pending(j) <=> s # "finished"
  <2>1. \A v \in Workers : txn'[v].pc = "ack" => txn'[v].job # j
    BY <1>3, <1>4, <1>6
  <2>2. Live(j)' <=> s = "retry"
    BY <1>5 DEF Live
  <2>3. Pending(j) <=> txn[w].pc # "ack"
    BY <1>1, <1>6, <1>7 DEF Pending, Live
  <2> QED
    BY <2>1, <2>2, <2>3 DEF Pending
<1>11. \A c \in Docs : \A i \in JobIds : PendingOn(i, c)' => PendingOn(i, c)
  BY <1>5, <1>9, <1>10 DEF PendingOn
<1>12. /\ \A c \in Docs \ {d} : doc'[c] = doc[c]
       /\ \/ doc'[d] = doc[d] /\ (s = "failed" => doc[d].deleted \/ ~Undisturbed')
          \/ /\ s = "failed" /\ lock[d] = None /\ doc[d].status \in NonTerminal
             /\ doc[d].confirmed /\ ~doc[d].deleted
             /\ doc'[d].status = "failed" /\ doc'[d].confirmed /\ ~doc'[d].deleted
  BY <1>1
<1>14. \A c \in Docs : doc'[c] = doc[c] => Awaited(c)' = Awaited(c)
  <2> SUFFICES ASSUME NEW c \in Docs, doc'[c] = doc[c] PROVE Awaited(c)' = Awaited(c)
    OBVIOUS
  <2>1. lock[c] \in Requests \/ lock'[c] \in Requests => lock'[c] = lock[c]
    BY <1>0 DEF OnlyLocksOf
  <2>2. lock[c] \in Requests => txn'[lock[c]] = txn[lock[c]]
    BY <1>0, <1>3
  <2> QED
    BY <2>1, <2>2, AwaitedSame
<1>15. PendingPart'
  <2>1. ASSUME NEW c \in Docs, doc'[c] = doc[c]
        PROVE  /\ Awaited(c)' = Awaited(c)
               /\ \/ \A i \in JobIds : PendingOn(i, c) => PendingOn(i, c)'
                  \/ doc[c].deleted \/ ~Undisturbed'
    <3>1. CASE c # d \/ s \in {"retry", "finished"}
      BY <1>5, <1>7, <1>9, <1>10, <1>14, <2>1, <3>1 DEF PendingOn
    <3>2. CASE c = d /\ s \in {"failed", "lost"}
      BY <1>12, <1>14, <2>1, <3>2 DEF NonTerminal
    <3> QED
      BY <3>1, <3>2
  <2>2. ASSUME NEW c \in Docs, doc'[c] # doc[c]
        PROVE  /\ \A i \in JobIds : ~PendingOn(i, c)'
               /\ ~Awaited(c)'
    <3>0. c = d /\ s = "failed" /\ lock[d] = None /\ doc'[d].status = "failed"
      BY <1>12, <2>2
    <3>1. \A i \in JobIds : PendingOn(i, d) => i = j
      BY <1>0, <1>7, <1>10, <3>0 DEF Inv5, PendingPart, OnePending, PendingOn
    <3>2. \A i \in JobIds : ~PendingOn(i, d)'
      BY <1>10, <1>11, <3>0, <3>1 DEF PendingOn
    <3>3. lock'[d] \notin Requests
      BY <1>0, <3>0 DEF OnlyLocksOf
    <3>4. ~Awaited(d)'
      BY <3>0, <3>3 DEF Awaited, Requeuing, NonTerminal
    <3> QED
      BY <3>0, <3>2, <3>4
  <2>3. ChunksPart'
    <3>1. \A c \in Docs : ~doc'[c].deleted /\ doc'[c].status # "ready" =>
                            ~doc[c].deleted /\ doc[c].status # "ready"
      BY <1>12 DEF NonTerminal
    <3> QED
      BY <1>0, <1>11, <3>1 DEF Inv5, PendingPart, ChunksPart
  <2> QED
    BY <1>0, <1>11, <2>1, <2>2, <2>3, NoNewPending DEF Spent
<1>16. UnconfirmedQueued'
  BY <1>0, <1>12 DEF Inv5, UnconfirmedQueued, Present
<1>17. TxnsSerial'
  <2>1. CASE txn[w].pc # "ack"
    BY <1>0, <1>1, <1>4, <1>12, <2>1, OthersAreApart DEF Spent
  <2>2. CASE txn[w].pc = "ack"
    <3>1. \A c \in Docs : doc'[c] = doc[c]
      BY <1>12, <2>2
    <3>2. \A u \in Txns : txn[u].pc # "idle" => txn[u].doc \in Docs
      BY <1>0 DEF Inv1, TxnPart, TxnWellFormed, Existing
    <3> QED
      BY <1>0, <1>4, <3>1, <3>2, OthersSerial DEF Spent
  <2> QED
    BY <2>1, <2>2
<1> QED
  BY <1>0, <1>8, <1>15, <1>16, <1>17 DEF Inv5, Spent

LEMMA LetGo5 ==
  ASSUME Known, NEW w \in Workers, RetryLater(w) \/ GiveUp(w) \/ FinishJob(w)
  PROVE  Inv5'
<1>0. /\ w \in Txns /\ Inv1 /\ Inv5 /\ txn[w].pc \in {"callback", "ack"}
      /\ UNCHANGED <<object, chunks, usage, lock, faultsLeft>> /\ Becomes(w, Idle)
  BY DEF Known, RetryLater, GiveUp, FinishJob
<1>1. Spent /\ Undisturbed' = Undisturbed
  BY <1>0, NoFault
<1>2. OnlyLocksOf(w) /\ \A c \in Docs : lock'[c] # w
  BY <1>0, NoLock DEF Unlocked, OnlyLocksOf
<1>3. CASE RetryLater(w)
  BY <1>0, <1>1, <1>2, <1>3, Leave5 DEF RetryLater
<1>4. CASE FinishJob(w)
  BY <1>0, <1>1, <1>2, <1>4, Leave5 DEF FinishJob
<1>5. CASE GiveUp(w)
  <2>1. job' = [job EXCEPT ![txn[w].job].state = "failed"] /\ txn[w].pc = "callback"
    BY <1>5 DEF GiveUp
  <2> QED
    BY <1>0, <1>1, <1>2, <1>5, <2>1, GiveUpDoes, Leave5
<1> QED
  BY <1>3, <1>4, <1>5

(* The worker dies: its job is lost, or its failure callback is run.       *)
LEMMA Crash5 ==
  ASSUME Known, NEW w \in Workers, CrashWorker(w), txn[w].pc # "ack"
  PROVE  Inv5'
<1>0. /\ w \in Txns /\ Inv1 /\ Inv5 /\ txn[w].pc \notin {"idle", "ack"}
      /\ UNCHANGED <<doc, chunks>> /\ lock' = Released(w) /\ Suffer("crash")
  BY DEF Known, CrashWorker, Discard
<1>1. Spent /\ ~Undisturbed'
  BY <1>0, OneFault DEF FaultKinds
<1>2. OnlyLocksOf(w) /\ \A c \in Docs : lock'[c] # w
  BY <1>0, LocksSame
<1>3. CASE job' = [job EXCEPT ![txn[w].job].state = "lost"] /\ Becomes(w, Idle)
  BY <1>0, <1>1, <1>2, <1>3, Leave5
<1>4. CASE Becomes(w, Ended(w, "callback")) /\ UNCHANGED job
  <2> DEFINE x == Ended(w, "callback")
  <2>1. /\ txn[w].doc \in Docs /\ txn[w].job \in JobIds
        /\ WorkerSerial(txn[w], doc[txn[w].doc], lock[txn[w].doc] = w, Undisturbed)
    BY <1>0, Busy, WorkerSees
  <2>2. /\ x \in Txn /\ x.pc = "callback" /\ x.doc = txn[w].doc /\ x.job = txn[w].job
        /\ x.view = txn[w].view /\ x.adds = 0 /\ x.cleared = {} /\ x.stored = {}
    BY ZenonT(60), <1>0, <2>1, EndedRecord, BeginFresh, Names DEF Ended, Begin, Idle
  <2>3. Becomes(w, x)
    BY <1>4
  <2> HIDE DEF x
  <2>4. WorkerSerial(x, doc[x.doc], lock'[x.doc] = w, Undisturbed')
    BY <1>0, <1>1, <1>2, <2>1, <2>2 DEF WorkerSerial
  <2> QED
    BY <1>0, <1>1, <1>2, <1>4, <2>2, <2>3, <2>4, Middle5
<1> QED
  BY <1>3, <1>4 DEF CrashWorker

(* RQ's alarm goes off.                                                    *)
LEMMA TimeOut5 ==
  ASSUME Known, NEW w \in Workers, TimeOutJob(w), txn[w].pc # "ack",
         txn'[w].pc = "raise" => txn[w].pc \notin {"publish", "job_commit"}
  PROVE  Inv5'
<1>1. PICK pc \in {"raise", "abort"} : Goto(w, pc)
  BY DEF TimeOutJob
<1>2. /\ txn[w].pc \notin {"idle", "ack", "abort", "callback"} /\ Suffer("timeout")
      /\ UNCHANGED <<doc, chunks, job>> /\ Inv1 /\ Inv5
  BY DEF TimeOutJob, Known
<1>3. Spent /\ ~Undisturbed'
  BY <1>2, OneFault DEF FaultKinds
<1>4. txn'[w].pc = pc
  <2>1. txn[w] \in Txn /\ w \in Txns /\ txn \in [Txns -> Txn]
    BY DEF Known, Inv1, TxnPart
  <2> QED
    BY <1>1, <2>1 DEF Goto, Becomes, Txn
<1> QED
  BY <1>1, <1>2, <1>3, <1>4, Goto5

LEMMA RetryDue5 ==
  ASSUME Known, NEW j \in JobIds, RetryDue(j)
  PROVE  Inv5'
<1>0. /\ Inv1 /\ Inv5 /\ UNCHANGED <<doc, object, chunks, usage, lock, txn, faultsLeft>>
      /\ job[j].state = "retry" /\ job' = [job EXCEPT ![j].state = "queued"]
  BY DEF Known, RetryDue
<1>1. /\ job'[j].state = "queued" /\ \A i \in JobIds \ {j} : job'[i] = job[i]
      /\ \A i \in JobIds : job'[i].doc = job[i].doc
  BY <1>0 DEF Inv1, JobPart, Job
<1>2. \A i \in JobIds : Live(i)' = Live(i)
  BY <1>0, <1>1 DEF Live
<1>3. \A i \in JobIds, d \in Docs : PendingOn(i, d)' = PendingOn(i, d)
  BY <1>0, <1>1, <1>2 DEF PendingOn, Pending
<1>4. \A d \in Docs : Awaited(d)' = Awaited(d)
  BY <1>0 DEF Awaited, Confirming, Requeuing
<1>5. Spent /\ Undisturbed' = Undisturbed
  BY <1>0, NoFault
<1>6. PendingPart'
  BY <1>0, <1>3, <1>4, <1>5, NoNewPending, SameChunks
<1>7. WorkersApart'
  BY <1>0, <1>1 DEF Inv5, WorkersApart, Inv1, WorkerHasJob
<1> QED
  BY <1>0, <1>5, <1>6, <1>7 DEF Inv5, UnconfirmedQueued, Present, TxnsSerial, Spent

-------------------------------------------------------------------------------
(* The steps of a request.                                                 *)

LEMMA RequestsOwn ==
  ASSUME Inv1, NEW r \in Requests, NEW x, x \in Txn, Becomes(r, x)
  PROVE  /\ r \in Txns /\ r \notin Workers
         /\ txn' \in [Txns -> Txn]
         /\ txn'[r] = x /\ \A u \in Txns \ {r} : txn'[u] = txn[u]
         /\ \A w \in Workers : txn'[w] = txn[w]
         /\ \A u \in Txns : txn[u].pc # "idle" => txn[u].doc \in Docs
         /\ \A w \in Workers : txn[w].pc # "idle" => txn[w].job \in JobIds
         /\ \A d \in Docs : lock[d] = r => txn[r].doc = d /\ txn[r].pc # "idle"
  BY DEF Becomes, Inv1, TxnPart, TxnWellFormed, LockWellFormed, Existing, WorkerHasJob, Unlocked

(* A request reads, deletes chunks or gives up: no lock, no job.           *)
LEMMA RequestMiddle5 ==
  ASSUME Known, NEW r \in Requests, NEW x, x \in Txn, Becomes(r, x),
         UNCHANGED <<doc, chunks, job>>, Spent,
         OnlyLocksOf(r), \A d \in Docs : lock'[d] # r,
         \A d \in Docs : lock[d] = r => txn[r].adds # 1 /\ txn[r].row.status = doc[d].status,
         x.pc # "idle" => RequestSerial(x, doc[x.doc], FALSE)
  PROVE  Inv5'
<1>0. Inv1 /\ Inv5
  BY DEF Known
<1>1. /\ r \in Txns /\ r \notin Workers
      /\ txn'[r] = x /\ \A u \in Txns \ {r} : txn'[u] = txn[u]
      /\ \A w \in Workers : txn'[w] = txn[w]
      /\ \A u \in Txns : txn[u].pc # "idle" => txn[u].doc \in Docs
  BY <1>0, RequestsOwn
<1>2. \A i \in JobIds, d \in Docs : PendingOn(i, d)' = PendingOn(i, d)
  BY <1>1 DEF PendingOn, Pending, Live
<1>3. \A d \in Docs : Awaited(d)' = Awaited(d)
  <2> SUFFICES ASSUME NEW d \in Docs PROVE Awaited(d)' = Awaited(d)
    OBVIOUS
  <2>1. CASE lock[d] = r
    <3>1. lock'[d] \notin Requests
      BY <2>1 DEF OnlyLocksOf
    <3> QED
      BY <2>1, <3>1 DEF Awaited, Confirming, Requeuing
  <2>2. CASE lock[d] # r
    <3>1. /\ lock[d] \in Txns \cup {None}
          /\ lock[d] \in Requests \/ lock'[d] \in Requests => lock'[d] = lock[d]
      BY <1>0, <2>2 DEF OnlyLocksOf, Inv1, TxnPart
    <3> QED
      BY <1>1, <2>2, <3>1, AwaitedSame
  <2> QED
    BY <2>1, <2>2
<1>4. PendingPart'
  BY <1>0, <1>2, <1>3, NoNewPending, SameChunks DEF Spent
<1>5. WorkersApart'
  BY <1>0, <1>1 DEF Inv5, WorkersApart
<1>6. x.pc # "idle" => RequestSerial(x, doc'[x.doc], lock'[x.doc] = r)
  BY DEF RequestSerial
<1>7. \A d \in Docs : Settled(doc[d]) => Settled(doc'[d])
  OBVIOUS
<1>8. TxnsSerial'
  BY <1>0, <1>1, <1>6, <1>7, OthersSerial DEF Spent
<1> QED
  BY <1>0, <1>4, <1>5, <1>8 DEF Inv5, UnconfirmedQueued, Present, Spent

LEMMA RequestSees ==
  ASSUME Known, NEW r \in Requests, txn[r].pc # "idle"
  PROVE  /\ txn[r] \in Txn /\ txn[r].doc \in Docs
         /\ RequestSerial(txn[r], doc[txn[r].doc], lock[txn[r].doc] = r)
  BY DEF Known, Inv1, TxnPart, TxnWellFormed, Existing, Inv5, TxnsSerial

LEMMA EnqueueDoes ==
  ASSUME Inv1, NEW d \in Docs, Enqueue(d)
  PROVE  \/ /\ \E j \in JobIds :
                 /\ job[j].state = "free" /\ job'[j].state = "queued" /\ job'[j].doc = d
                 /\ \A i \in JobIds \ {j} : job'[i] = job[i]
            /\ faultsLeft' = faultsLeft
         \/ job' = job /\ Suffer("outage")
<1>1. job \in [JobIds -> Job]
  BY DEF Inv1, JobPart
<1>2. ASSUME NEW j \in JobIds, job[j].state = "free", UNCHANGED faultsLeft,
             job' = [job EXCEPT ![j] = [state |-> "queued", doc |-> d, attempts |-> 0]]
      PROVE  /\ job'[j].state = "queued" /\ job'[j].doc = d
             /\ \A i \in JobIds \ {j} : job'[i] = job[i]
  BY <1>1, <1>2
<1> QED
  BY <1>2 DEF Enqueue

(* A request locks a row it is going to change; the job it enqueues, if    *)
(* Redis can be reached, is the only one of the document.                  *)
LEMMA RequestLocks5 ==
  ASSUME Known, NEW r \in Requests, NEW x, x \in Txn, Becomes(r, x),
         txn[r].pc # "request_commit",
         x.pc # "idle", x.doc \in Docs, lock[x.doc] = None,
         lock' = [lock EXCEPT ![x.doc] = r],
         UNCHANGED <<doc, chunks>>,
         RequestSerial(x, doc[x.doc], TRUE),
         \/ /\ UNCHANGED <<job, faultsLeft>> /\ x.adds # 1
            /\ ~(doc[x.doc].status = "failed" /\ x.row.status = "queued")
         \/ /\ ~Awaited(x.doc) /\ ~doc[x.doc].deleted /\ Enqueue(x.doc)
            /\ \/ doc[x.doc].status \in NonTerminal /\ x.adds = 1
               \/ doc[x.doc].status = "failed" /\ x.row.status = "queued"
  PROVE  Inv5'
<1>0. Inv1 /\ Inv5
  BY DEF Known
<1>a. PICK d \in Docs : d = x.doc
  OBVIOUS
<1>1. /\ r \in Txns /\ r \notin Workers
      /\ txn'[r] = x /\ \A u \in Txns \ {r} : txn'[u] = txn[u]
      /\ \A w \in Workers : txn'[w] = txn[w]
      /\ \A u \in Txns : txn[u].pc # "idle" => txn[u].doc \in Docs
      /\ \A w \in Workers : txn[w].pc # "idle" => txn[w].job \in JobIds
  BY <1>0, RequestsOwn
<1>2. /\ OnlyLocksOf(r) /\ lock'[d] = r
      /\ \A c \in Docs \ {d} : lock'[c] = lock[c] /\ lock[c] # r
  <2>1. lock \in [Docs -> Txns \cup {None}] /\ None # r
    BY <1>0 DEF Inv1, TxnPart
  <2>2. \A c \in Docs : lock[c] # r
    BY DEF Known, Inv4, LocksKnow
  <2> QED
    BY <1>a, <2>1, <2>2 DEF OnlyLocksOf
<1>3. \A c \in Docs \ {d} : Awaited(c)' = Awaited(c)
  BY <1>0, <1>1, <1>2, AwaitedSame DEF Inv1, TxnPart
<1>b. Spent
  <2>1. CASE faultsLeft' = faultsLeft
    BY <1>0, <2>1, NoFault
  <2>2. CASE Suffer("outage")
    BY <1>0, <2>2, OneFault DEF FaultKinds
  <2> QED
    BY <2>1, <2>2 DEF Enqueue
<1>c. \A c \in Docs : Settled(doc[c]) => Settled(doc'[c])
  OBVIOUS
<1>4. TxnsSerial'
  BY <1>0, <1>1, <1>2, <1>a, <1>b, <1>c, OthersSerial DEF Spent
<1>5. UnconfirmedQueued'
  BY <1>0 DEF Inv5, UnconfirmedQueued, Present
<1>6. CASE /\ UNCHANGED <<job, faultsLeft>> /\ x.adds # 1
           /\ ~(doc[d].status = "failed" /\ x.row.status = "queued")
  <2>1. Awaited(d)' = Awaited(d)
    BY <1>1, <1>2, <1>6, <1>a DEF Awaited, Confirming, Requeuing
  <2>2. \A i \in JobIds, c \in Docs : PendingOn(i, c)' = PendingOn(i, c)
    BY <1>1, <1>6 DEF PendingOn, Pending, Live
  <2>3. PendingPart'
    BY <1>0, <1>3, <1>b, <2>1, <2>2, NoNewPending, SameChunks DEF Spent
  <2>4. WorkersApart'
    BY <1>0, <1>1, <1>6 DEF Inv5, WorkersApart
  <2> QED
    BY <1>b, <1>4, <1>5, <2>3, <2>4 DEF Inv5, Spent
<1>7. CASE /\ ~Awaited(d) /\ ~doc[d].deleted /\ Enqueue(d)
           /\ \/ doc[d].status \in NonTerminal /\ x.adds = 1
              \/ doc[d].status = "failed" /\ x.row.status = "queued"
  <2>1. Awaited(d)'
    BY <1>1, <1>2, <1>7 DEF Awaited, Confirming, Requeuing
  <2>2. \A i \in JobIds : ~PendingOn(i, d)
    BY <1>0, <1>7 DEF Inv5, PendingPart, PendingAwaited
  <2>3. CASE job' = job /\ Suffer("outage")
    <3>1. \A i \in JobIds, c \in Docs : PendingOn(i, c)' = PendingOn(i, c)
      BY <1>1, <2>3 DEF PendingOn, Pending, Live
    <3>2. ~Undisturbed'
      BY <1>0, <2>3, OneFault DEF FaultKinds
    <3>3. PendingPart'
      BY <1>0, <1>3, <1>b, <2>1, <2>2, <3>1, <3>2, NewPending, SameChunks DEF Spent
    <3>4. WorkersApart'
      BY <1>0, <1>1, <2>3 DEF Inv5, WorkersApart
    <3> QED
      BY <1>b, <1>4, <1>5, <3>3, <3>4 DEF Inv5, Spent
  <2>4. ASSUME NEW j \in JobIds, job[j].state = "free", job'[j].state = "queued", job'[j].doc = d,
               \A i \in JobIds \ {j} : job'[i] = job[i], faultsLeft' = faultsLeft
        PROVE  Inv5'
    <3>1. \A w \in Workers : txn[w].pc # "idle" => txn[w].job # j
      BY <1>0, <2>4 DEF Inv5, WorkersApart
    <3>2. PendingOn(j, d)'
      BY <1>1, <2>4, <3>1 DEF PendingOn, Pending, Live
    <3>3. ASSUME NEW i \in JobIds, i # j, NEW c \in Docs PROVE PendingOn(i, c)' = PendingOn(i, c)
      BY <1>1, <2>4, <3>3 DEF PendingOn, Pending, Live
    <3>4. \A c \in Docs \ {d} : PendingOn(j, c)' = PendingOn(j, c)
      BY <2>4 DEF PendingOn, Pending, Live
    <3>5. \A i \in JobIds : PendingOn(i, d)' => i = j
      BY <2>2, <3>3
    <3>6. PendingPart'
      <4>1. chunks[d] = {}
        BY <1>0, <1>7 DEF Inv5, PendingPart, ChunksPart, NonTerminal
      <4>2. ChunksPart'
        BY <1>0, <3>3, <3>4, <4>1, SameChunks
      <4> QED
        BY <1>0, <1>3, <1>b, <2>1, <2>2, <3>2, <3>3, <3>4, <3>5, <4>2, NewPending DEF Spent
    <3>7. WorkersApart'
      BY <1>0, <1>1, <2>4, <3>1 DEF Inv5, WorkersApart
    <3> QED
      BY <1>b, <1>4, <1>5, <3>6, <3>7 DEF Inv5, Spent
  <2> QED
    BY <1>0, <1>7, <2>3, <2>4, EnqueueDoes
<1> QED
  BY <1>6, <1>7, <1>a

(* What the commit of a request does: it confirms or deletes a document,   *)
(* which leaves its status and its chunks alone, or sends a failed one,    *)
(* which has no chunks, back to the queue.                                 *)
LEMMA CommitRequestDoes ==
  ASSUME Known, NEW r \in Requests, CommitRequest(r)
  PROVE  LET d == txn[r].doc IN
         /\ d \in Docs /\ lock[d] = r /\ ~doc[d].deleted
         /\ \A c \in Docs \ {d} : doc'[c] = doc[c] /\ chunks'[c] = chunks[c]
         /\ doc'[d] = txn[r].row /\ doc'[d].status # "absent" /\ doc[d].status # "absent"
         /\ doc[d].confirmed \/ txn[r].adds = 1 <=> doc'[d].confirmed
         /\ chunks'[d] = chunks[d]
         /\ \/ doc'[d].status = doc[d].status
            \/ /\ doc'[d].status = "queued" /\ ~doc'[d].deleted /\ doc[d].status = "failed"
               /\ doc'[d].confirmed /\ chunks'[d] = {}
<1> DEFINE d == txn[r].doc
<1>1. /\ txn[r].pc = "request_commit" /\ Install(r) /\ r \in Txns
  BY DEF CommitRequest
<1>2. /\ d \in Docs /\ lock[d] = r /\ ~doc[d].deleted /\ Agrees(txn[r], doc[d])
  BY <1>1, Committing
<1>3. /\ \A c \in Docs \ {d} : doc'[c] = doc[c] /\ chunks'[c] = chunks[c]
      /\ doc'[d] = txn[r].row
      /\ chunks'[d] = (chunks[d] \ txn[r].cleared) \cup txn[r].stored
  BY <1>1, <1>2 DEF Install, Seen, Known, Inv1, DocPart, RestPart
<1>4. /\ RequestSerial(txn[r], doc[d], TRUE)
      /\ txn[r].adds \in {0, 1}
      /\ txn[r].row.status # "absent" /\ doc[d].status # "absent"
  <2>1. txn[r] \in Txn /\ d \in Existing /\ txn[r].row.status # "absent"
    BY <1>1, <1>2 DEF Known, Inv1, TxnPart, TxnWellFormed, LockWellFormed
  <2>2. RequestSerial(txn[r], doc[d], lock[d] = r)
    BY <1>1, RequestSees
  <2> QED
    BY <1>2, <2>1, <2>2 DEF Txn, Existing
<1>5. doc[d].status = "failed" => doc[d].confirmed /\ chunks[d] = {}
  BY <1>2 DEF Known, Inv5, UnconfirmedQueued, Present, PendingPart, ChunksPart
<1>6. (doc[d].confirmed \/ txn[r].adds = 1) <=> doc'[d].confirmed
  BY <1>2, <1>3, <1>4 DEF Agrees
<1>7. /\ chunks'[d] = chunks[d]
      /\ \/ doc'[d].status = doc[d].status
         \/ doc'[d].status = "queued" /\ ~doc'[d].deleted /\ doc[d].status = "failed"
  BY <1>1, <1>3, <1>4 DEF RequestSerial
<1> QED
  BY <1>2, <1>3, <1>4, <1>5, <1>6, <1>7

LEMMA CommitRequest5 ==
  ASSUME Known, NEW r \in Requests, CommitRequest(r)
  PROVE  Inv5'
<1>0. /\ Inv1 /\ Inv5 /\ txn[r].pc = "request_commit" /\ Becomes(r, Idle)
      /\ UNCHANGED <<object, job, faultsLeft>> /\ lock' = Released(r)
      /\ Idle \in Txn /\ Idle.pc = "idle"
  BY IdleRecord DEF Known, CommitRequest, Install
<1>1. /\ r \in Txns /\ r \notin Workers
      /\ txn'[r] = Idle /\ \A u \in Txns \ {r} : txn'[u] = txn[u]
      /\ \A w \in Workers : txn'[w] = txn[w]
      /\ \A u \in Txns : txn[u].pc # "idle" => txn[u].doc \in Docs
  BY <1>0, RequestsOwn
<1>2. OnlyLocksOf(r) /\ \A c \in Docs : lock'[c] = IF lock[c] = r THEN None ELSE lock[c]
  BY <1>0, <1>1, LocksSame
<1>3. PICK d \in Docs :
         /\ d = txn[r].doc /\ lock[d] = r /\ ~doc[d].deleted
         /\ \A c \in Docs \ {d} : doc'[c] = doc[c] /\ chunks'[c] = chunks[c]
         /\ doc'[d] = txn[r].row
         /\ (doc[d].confirmed \/ txn[r].adds = 1) <=> doc'[d].confirmed
         /\ chunks'[d] = chunks[d]
         /\ \/ doc'[d].status = doc[d].status
            \/ /\ doc'[d].status = "queued" /\ ~doc'[d].deleted /\ doc[d].status = "failed"
               /\ doc'[d].confirmed /\ chunks'[d] = {}
  BY CommitRequestDoes
<1>4. /\ lock'[d] = None /\ \A c \in Docs \ {d} : lock[c] # r /\ lock'[c] = lock[c]
  BY <1>0, <1>1, <1>2, <1>3, RequestsOwn
<1>a. Spent /\ Undisturbed' = Undisturbed
  BY <1>0, NoFault
<1>5. \A i \in JobIds, c \in Docs : PendingOn(i, c)' = PendingOn(i, c)
  BY <1>0, <1>1 DEF PendingOn, Pending, Live
<1>6. \A c \in Docs \ {d} : Awaited(c)' = Awaited(c)
  BY <1>0, <1>1, <1>3, <1>4, AwaitedSame DEF Inv1, TxnPart
<1>7. /\ Awaited(d) => doc'[d].deleted \/ Awaited(d)'
      /\ Awaited(d)' => Awaited(d)
  <2>1. Awaited(d)' <=> doc'[d].status \in NonTerminal /\ doc'[d].confirmed
    BY <1>4 DEF Awaited, Confirming, Requeuing
  <2>2. Awaited(d) <=> \/ doc[d].status \in NonTerminal /\ (doc[d].confirmed \/ txn[r].adds = 1)
                       \/ doc[d].status = "failed" /\ doc'[d].status = "queued"
    BY <1>3 DEF Awaited, Confirming, Requeuing
  <2> QED
    BY <1>3, <2>1, <2>2 DEF NonTerminal
<1>8. PendingPart'
  <2>1. \A c \in Docs : ~doc'[c].deleted /\ doc'[c].status # "ready" /\ doc'[c] # doc[c] =>
                          chunks[c] = {}
    BY <1>0, <1>3 DEF Inv5, PendingPart, ChunksPart
  <2>2. \A c \in Docs : chunks'[c] = chunks[c]
    BY <1>3
  <2>3. ChunksPart'
    BY <1>0, <1>5, <2>1, <2>2 DEF Inv5, PendingPart, ChunksPart
  <2> QED
    BY <1>0, <1>a, <1>3, <1>5, <1>6, <1>7, <2>3, NoNewPending
<1>9. WorkersApart'
  BY <1>0, <1>1 DEF Inv5, WorkersApart
<1>10. UnconfirmedQueued'
  BY <1>0, <1>3 DEF Inv5, UnconfirmedQueued, Present
<1>11. TxnsSerial'
  <2>1. ASSUME NEW q \in Requests \ {r}, txn[q].pc = "request_commit"
        PROVE  doc'[txn[q].doc] = doc[txn[q].doc]
    BY <1>3, <2>1, Committing
  <2>2. doc[d].status \in NonTerminal => doc'[d].status \in NonTerminal
    BY <1>3 DEF NonTerminal
  <2>3. \A c \in Docs : Settled(doc[c]) => Settled(doc'[c])
    BY <1>3 DEF Settled
  <2> QED
    BY <1>0, <1>a, <1>1, <1>2, <1>3, <2>1, <2>2, <2>3, OthersSerial
<1> QED
  BY <1>0, <1>a, <1>8, <1>9, <1>10, <1>11 DEF Inv5, Spent

(* A request that holds no lock reads a row, deletes chunk rows, or ends   *)
(* without a trace.                                                        *)
LEMMA LocklessRequest5 ==
  ASSUME Known, NEW r \in Requests, NEW x, x \in Txn, Becomes(r, x),
         UNCHANGED <<doc, chunks, lock, job, faultsLeft>>,
         \A d \in Docs : lock[d] # r,
         x.pc # "idle" => RequestSerial(x, doc[x.doc], FALSE)
  PROVE  Inv5'
<1>1. Spent
  BY NoFault DEF Known
<1>2. OnlyLocksOf(r)
  BY DEF OnlyLocksOf
<1> QED
  BY <1>1, <1>2, RequestMiddle5

LEMMA ReadOrClear5 ==
  ASSUME Known, NEW r \in Requests,
         \/ \E d \in Docs : ConfirmRead(r, d) \/ ReprocessRead(r, d)
         \/ ConfirmLost(r) \/ ReprocessClear(r)
  PROVE  Inv5'
<1>0. r \in Txns /\ r \notin Workers /\ Inv1 /\ Inv5
  BY DEF Known
<1>1. ASSUME NEW d \in Docs, ConfirmRead(r, d) \/ ReprocessRead(r, d) PROVE Inv5'
  <2>1. PICK pc \in {"confirm", "reprocess"} : Becomes(r, Begin(pc, d, None, doc[d].status))
    BY <1>1 DEF ConfirmRead, ReprocessRead
  <2>2. /\ UNCHANGED <<doc, object, chunks, usage, lock, job, faultsLeft>>
        /\ txn[r].pc = "idle" /\ doc[d].status \in Statuses
    BY <1>0, <1>1 DEF ConfirmRead, ReprocessRead, Present, Inv1, DocPart, Row
  <2> DEFINE x == Begin(pc, d, None, doc[d].status)
  <2>3. x \in Txn /\ x.pc = pc /\ x.cleared = {} /\ x.stored = {} /\ x.adds = 0
    BY <2>2, BeginRecord, BeginFresh, Names
  <2>4. Becomes(r, x)
    BY <2>1
  <2> HIDE DEF x
  <2>5. RequestSerial(x, doc[x.doc], FALSE)
    BY <2>3 DEF RequestSerial
  <2>6. \A c \in Docs : lock[c] # r
    BY <1>0, <2>2, NoLock DEF Unlocked
  <2> QED
    BY <2>2, <2>3, <2>4, <2>5, <2>6, LocklessRequest5
<1>2. CASE ConfirmLost(r)
  <2>1. /\ Becomes(r, Idle) /\ txn[r].pc = "confirm"
        /\ UNCHANGED <<doc, object, chunks, usage, lock, job, faultsLeft>>
    BY <1>2 DEF ConfirmLost
  <2>2. \A c \in Docs : lock[c] # r
    BY <1>0, <2>1 DEF Known, Inv4, LocksKnow
  <2> QED
    BY <2>1, <2>2, IdleRecord, LocklessRequest5
<1>3. CASE ReprocessClear(r)
  <2> DEFINE x == [txn[r] EXCEPT !.pc = "requeue", !.cleared = chunks[txn[r].doc]]
  <2>1. /\ Becomes(r, x) /\ txn[r].pc = "reprocess"
        /\ UNCHANGED <<doc, object, chunks, usage, lock, job, faultsLeft>>
    BY <1>3 DEF ReprocessClear, DeleteChunks
  <2>2. /\ chunks[txn[r].doc] \in SUBSET JobIds /\ txn[r] \in Txn /\ txn[r].doc \in Docs
        /\ RequestSerial(txn[r], doc[txn[r].doc], lock[txn[r].doc] = r)
    BY <1>0, <2>1, RequestSees DEF Inv1, RestPart
  <2>3. /\ x \in Txn /\ x.pc = "requeue" /\ x.doc = txn[r].doc
        /\ x.cleared = chunks[txn[r].doc] /\ x.stored = txn[r].stored
        /\ x.adds = txn[r].adds /\ x.row = txn[r].row
    BY <2>2, Names DEF Txn, PCs
  <2> HIDE DEF x
  <2>4. \A d \in Docs : lock[d] # r
    BY <1>0, <2>1 DEF Known, Inv4, LocksKnow
  <2>5. RequestSerial(x, doc[x.doc], FALSE)
    BY <1>0, <2>2, <2>3 DEF RequestSerial, Inv5, PendingPart, ChunksPart
  <2> QED
    BY <2>1, <2>3, <2>4, <2>5, LocklessRequest5
<1> QED
  BY <1>1, <1>2, <1>3

(* A request that fails takes back what it has done, unless it has         *)
(* enqueued a job.                                                         *)
LEMMA Abandon5 ==
  ASSUME Known, NEW r \in Requests,
         \/ ReprocessGone(r)
         \/ AbortRequest(r) /\ (txn[r].pc = "request_commit" => txn[r].row.deleted)
  PROVE  Inv5'
<1>0. /\ r \in Txns /\ Inv1 /\ Inv5 /\ txn[r].pc # "idle" /\ Becomes(r, Idle)
      /\ UNCHANGED <<doc, chunks, job>> /\ lock' = Released(r)
      /\ Idle \in Txn /\ Idle.pc = "idle"
  BY IdleRecord DEF Known, ReprocessGone, AbortRequest, Discard
<1>1. Spent
  <2>1. CASE faultsLeft' = faultsLeft
    BY <1>0, <2>1, NoFault
  <2>2. CASE Suffer("abort")
    BY <1>0, <2>2, OneFault DEF FaultKinds
  <2> QED
    BY <2>1, <2>2 DEF ReprocessGone, AbortRequest
<1>2. OnlyLocksOf(r) /\ \A c \in Docs : lock'[c] # r
  BY <1>0, LocksSame
<1>3. ASSUME NEW d \in Docs, lock[d] = r
      PROVE  txn[r].adds # 1 /\ txn[r].row.status = doc[d].status
  <2>1. txn[r].pc = "request_commit" /\ d = txn[r].doc
    BY <1>3 DEF Known, Inv4, LocksKnow, Inv1, TxnPart, LockWellFormed
  <2>2. txn[r].row.deleted
    BY <2>1 DEF ReprocessGone
  <2>3. txn[r].row.status = doc[d].status
    BY <1>0, <2>1, <2>2, RequestSees DEF RequestSerial
  <2>4. txn[r].adds # 1
    BY <1>0, <2>2, RequestSees DEF RequestSerial
  <2> QED
    BY <2>3, <2>4
<1> QED
  BY <1>0, <1>1, <1>2, <1>3, RequestMiddle5

LEMMA ConfirmWrite5 ==
  ASSUME Known, NEW r \in Requests, ConfirmWrite(r)
  PROVE  Inv5'
<1>0. r \in Txns /\ r \notin Workers /\ Inv1 /\ Inv5 /\ txn[r] \in Txn /\ txn[r].pc = "confirm"
  BY DEF Known, Inv1, TxnPart, ConfirmWrite
<1>1. PICK d \in Docs : d = txn[r].doc
  BY <1>0 DEF Inv1, TxnPart, TxnWellFormed, Existing
<1> DEFINE row == [doc[d] EXCEPT !.confirmed = TRUE, !.stale = FALSE]
           x == [txn[r] EXCEPT !.pc = "request_commit", !.adds = 1, !.row = row]
<1>2. /\ Becomes(r, x) /\ lock[d] = None /\ lock' = [lock EXCEPT ![d] = r]
      /\ ~doc[d].deleted /\ ~doc[d].confirmed /\ Enqueue(d) /\ UNCHANGED <<doc, chunks>>
  BY <1>1 DEF ConfirmWrite
<1>3. doc[d] \in Row /\ doc[d].status # "absent"
  BY <1>0, <1>1 DEF Inv1, TxnPart, TxnWellFormed, Existing, DocPart
<1>4. row \in Row /\ row.status = doc[d].status /\ ~row.deleted
  BY <1>2, <1>3 DEF Row
<1> HIDE DEF row
<1>5. /\ x \in Txn /\ x.pc = "request_commit" /\ x.doc = d /\ x.row = row
      /\ x.adds = 1 /\ x.cleared = txn[r].cleared /\ x.stored = txn[r].stored
  BY <1>0, <1>1, <1>4, Names DEF Txn, PCs
<1> HIDE DEF x
<1>6. doc[d].status = "queued" /\ ~Awaited(d)
  BY <1>0, <1>2, <1>3 DEF Inv5, UnconfirmedQueued, Present, Awaited, Confirming
<1>7. x.cleared = {} /\ x.stored = {}
  BY <1>0, <1>1, <1>2, <1>5, <1>6, RequestSees DEF RequestSerial
<1>8. RequestSerial(x, doc[d], TRUE)
  BY <1>4, <1>5, <1>7 DEF RequestSerial
<1> QED
  BY <1>0, <1>2, <1>5, <1>6, <1>8, RequestLocks5 DEF NonTerminal

LEMMA ReprocessEnqueue5 ==
  ASSUME Known, NEW r \in Requests, ReprocessEnqueue(r),
         txn[r].view = "failed", doc[txn[r].doc].status = "failed"
  PROVE  Inv5'
<1>0. /\ r \in Txns /\ r \notin Workers /\ Inv1 /\ Inv5 /\ txn[r] \in Txn
      /\ txn[r].pc = "requeue" /\ SetStatus(r, "queued", "request_commit")
      /\ Enqueue(txn[r].doc) /\ UNCHANGED <<doc, object, chunks, usage>> /\ ~Seen(r).deleted
  BY DEF Known, Inv1, TxnPart, ReprocessEnqueue
<1>1. PICK d \in Docs :
        /\ d = txn[r].doc /\ doc[d].status = "failed" /\ ~doc[d].deleted /\ doc[d].confirmed
        /\ lock[d] = None /\ ~Awaited(d) /\ Seen(r) = doc[d]
  BY Reprocessing
<1> DEFINE row == [Seen(r) EXCEPT !.status = "queued", !.stale = FALSE]
           x == [txn[r] EXCEPT !.pc = "request_commit", !.view = "queued", !.row = row]
<1>3. Becomes(r, x) /\ lock' = [lock EXCEPT ![d] = r]
  BY <1>0, <1>1 DEF SetStatus
<1>4. Seen(r) = doc[d] /\ doc[d] \in Row
  BY <1>0, <1>1 DEF Inv1, DocPart
<1>5. row \in Row /\ row.status = "queued" /\ ~row.deleted
  BY <1>1, <1>4, Names DEF Row
<1> HIDE DEF row
<1>6. /\ x \in Txn /\ x.pc = "request_commit" /\ x.doc = d /\ x.row = row
      /\ x.adds = txn[r].adds /\ x.cleared = txn[r].cleared /\ x.stored = txn[r].stored
  BY <1>0, <1>1, <1>5, Names DEF Txn, PCs
<1> HIDE DEF x
<1>7. x.adds = 0
  BY <1>0, <1>1, <1>6 DEF Known, Inv2, AddsUnderLock, Txn
<1>8. x.cleared = {} /\ x.stored = {}
  BY <1>0, <1>1, <1>6, RequestSees DEF RequestSerial
<1>9. RequestSerial(x, doc[d], TRUE)
  BY <1>1, <1>5, <1>6, <1>7, <1>8 DEF RequestSerial
<1> QED
  BY <1>0, <1>1, <1>3, <1>5, <1>6, <1>9, RequestLocks5

LEMMA DeleteDocument5 ==
  ASSUME Known, NEW r \in Requests, NEW d \in Docs, DeleteDocument(r, d)
  PROVE  Inv5'
<1>0. /\ r \in Txns /\ r \notin Workers /\ txn[r].pc = "idle"
      /\ lock[d] = None /\ lock' = [lock EXCEPT ![d] = r]
      /\ UNCHANGED <<doc, object, chunks, usage, job, faultsLeft>>
      /\ doc[d] \in Row /\ doc[d].status \in Statuses
  BY DEF DeleteDocument, Present, Known, Inv1, DocPart, Row
<1> DEFINE row == [doc[d] EXCEPT !.deleted = TRUE, !.stale = FALSE]
           b == Begin("request_commit", d, None, doc[d].status)
           x == [b EXCEPT !.row = row]
<1>1. row \in Row /\ row.status = doc[d].status
  BY <1>0 DEF Row
<1>2. /\ b \in Txn /\ b.pc = "request_commit" /\ b.doc = d
      /\ b.cleared = {} /\ b.stored = {} /\ b.adds = 0
  BY <1>0, BeginRecord, BeginFresh, Names
<1>3. Becomes(r, x)
  BY DEF DeleteDocument
<1> HIDE DEF row, b
<1>4. /\ x \in Txn /\ x.pc = "request_commit" /\ x.doc = d /\ x.row = row
      /\ x.cleared = {} /\ x.stored = {} /\ x.adds = 0
  BY <1>1, <1>2 DEF Txn
<1> HIDE DEF x
<1>5. RequestSerial(x, doc[d], TRUE)
  BY <1>1, <1>4 DEF RequestSerial
<1>6. x.adds # 1 /\ ~(doc[d].status = "failed" /\ x.row.status = "queued")
  BY <1>1, <1>4
<1> QED
  BY <1>0, <1>3, <1>4, <1>5, <1>6, RequestLocks5

LEMMA Request5 ==
  ASSUME Known, WorkedOnce, NEW r \in Requests, RequestStep(r)
  PROVE  Inv5'
<1>1. CASE ReprocessEnqueue(r)
  BY <1>1, ReprocessEnqueue5 DEF WorkedOnce
<1>2. CASE AbortRequest(r) \/ ReprocessGone(r)
  BY <1>2, Abandon5 DEF WorkedOnce
<1> QED
  BY <1>1, <1>2, ReadOrClear5, ConfirmWrite5, DeleteDocument5, CommitRequest5 DEF RequestStep

-------------------------------------------------------------------------------
(* The steps of clients, and all of them.                                  *)

LEMMA Client5 ==
  ASSUME Known, NEW d \in Docs, ClientStep(d)
  PROVE  Inv5'
<1>0. /\ Inv1 /\ Inv5 /\ doc \in [Docs -> Row]
      /\ UNCHANGED <<chunks, usage, lock, txn, job>>
  BY DEF Known, Inv1, DocPart, ClientStep, GrowStale, PresignUpload, PutObject
<1>1. /\ \A c \in Docs \ {d} : doc'[c] = doc[c]
      /\ \/ /\ doc'[d].status = doc[d].status /\ doc'[d].confirmed = doc[d].confirmed
            /\ doc'[d].deleted = doc[d].deleted
         \/ /\ d \notin Existing /\ doc'[d].status = "queued" /\ ~doc[d].deleted
            /\ ~doc'[d].confirmed /\ ~doc'[d].deleted
  <2>1. CASE PresignUpload(d)
    BY <1>0, <2>1 DEF PresignUpload, Known, AbsentBlank, NoRow, Row, Existing
  <2>2. CASE PutObject(d)
    BY <2>2 DEF PutObject
  <2>3. CASE GrowStale(d)
    <3> DEFINE row == [doc[d] EXCEPT !.stale = TRUE]
    <3>1. row.status = doc[d].status /\ row.confirmed = doc[d].confirmed /\ row.deleted = doc[d].deleted
      BY <1>0 DEF Row
    <3>2. doc' = [doc EXCEPT ![d] = row]
      BY <2>3 DEF GrowStale
    <3> HIDE DEF row
    <3> QED
      BY <1>0, <3>1, <3>2
  <2> QED
    BY <2>1, <2>2, <2>3 DEF ClientStep
<1>2. /\ \A t \in Txns : txn[t].pc # "idle" => txn[t].doc \in Existing
      /\ \A j \in JobIds : job[j].state # "free" => job[j].doc \in Existing
      /\ \A c \in Docs \ Existing : lock[c] = None
  BY <1>0 DEF Inv1, TxnPart, TxnWellFormed, JobPart, JobWellFormed, LockWellFormed, Unlocked
<1>3. Spent
  <2>1. CASE faultsLeft' = faultsLeft
    BY <1>0, <2>1, NoFault
  <2>2. CASE Suffer("age")
    BY <1>0, <2>2, OneFault DEF FaultKinds
  <2> QED
    BY <2>1, <2>2 DEF ClientStep, GrowStale, PresignUpload, PutObject
<1>4. TxnsSerial'
  <2> SUFFICES ASSUME NEW t \in Txns, txn[t].pc # "idle"
               PROVE  LET c == txn[t].doc IN
                      /\ t \in Requests => RequestSerial(txn[t], doc'[c], lock[c] = t)
                      /\ t \in Workers => WorkerSerial(txn[t], doc'[c], lock[c] = t, Undisturbed')
    BY <1>0 DEF TxnsSerial
  <2> DEFINE c == txn[t].doc
  <2>1. doc'[c].status = doc[c].status /\ doc'[c].deleted = doc[c].deleted
    BY <1>1, <1>2 DEF Existing
  <2>2. /\ t \in Requests => RequestSerial(txn[t], doc[c], lock[c] = t)
        /\ t \in Workers => WorkerSerial(txn[t], doc[c], lock[c] = t, Undisturbed)
    BY <1>0 DEF Inv5, TxnsSerial
  <2>3. t \in Requests => RequestSerial(txn[t], doc'[c], lock[c] = t)
    BY <2>1, <2>2 DEF RequestSerial
  <2>4. t \in Workers => WorkerSerial(txn[t], doc'[c], lock[c] = t, Undisturbed')
    BY <1>3, <2>1, <2>2 DEF WorkerSerial, Spent
  <2> QED
    BY <2>3, <2>4
<1>5. \A j \in JobIds, c \in Docs : PendingOn(j, c)' = PendingOn(j, c)
  BY <1>0 DEF PendingOn, Pending, Live
<1>6. \A c \in Docs :
        \/ Awaited(c)' = Awaited(c) /\ doc'[c].deleted = doc[c].deleted
        \/ ~Awaited(c)' /\ \A j \in JobIds : ~PendingOn(j, c)'
  <2>1. ASSUME NEW c \in Docs, c # d \/ d \in Existing
        PROVE  Awaited(c)' = Awaited(c) /\ doc'[c].deleted = doc[c].deleted
    BY <1>0, <1>1, <2>1 DEF Awaited, Confirming, Requeuing
  <2>2. ASSUME d \notin Existing, doc'[d].status = "queued", ~doc'[d].confirmed
        PROVE  ~Awaited(d)' /\ \A j \in JobIds : ~PendingOn(j, d)'
    <3>1. lock'[d] \notin Requests /\ \A j \in JobIds : ~PendingOn(j, d)
      BY <1>0, <1>2, <2>2 DEF PendingOn, Pending, Live
    <3> QED
      BY <1>5, <2>2, <3>1 DEF Awaited, Confirming, Requeuing
  <2>3. ASSUME d \notin Existing, doc'[d].status = doc[d].status,
               doc'[d].confirmed = doc[d].confirmed, doc'[d].deleted = doc[d].deleted
        PROVE  Awaited(d)' = Awaited(d)
    BY <1>0, <2>3 DEF Awaited, Confirming, Requeuing
  <2> QED
    BY <1>1, <2>1, <2>2, <2>3
<1>7. ChunksPart'
  <2>1. \A c \in Docs : ~doc'[c].deleted /\ doc'[c].status # "ready" =>
                          ~doc[c].deleted /\ doc[c].status # "ready"
    BY <1>1 DEF Existing
  <2> QED
    BY <1>0, <1>5, <2>1 DEF Inv5, PendingPart, ChunksPart
<1>8. PendingPart'
  BY <1>0, <1>3, <1>5, <1>6, <1>7, NoNewPending DEF Spent
<1>9. UnconfirmedQueued'
  BY <1>0, <1>1 DEF Inv5, UnconfirmedQueued, Present, Existing
<1>10. WorkersApart'
  BY <1>0 DEF Inv5, WorkersApart
<1> QED
  BY <1>3, <1>4, <1>8, <1>9, <1>10 DEF Inv5, Spent

LEMMA Worker5 ==
  ASSUME Known, NEW w \in Workers, WorkerStep(w)
  PROVE  Inv5'
<1>a. faultsLeft' = faultsLeft => Spent /\ Undisturbed' = Undisturbed
  BY NoFault DEF Known
<1>1. CASE StartExtracting(w)
  BY <1>1, SetStatus5, Names DEF StartExtracting, At
<1>2. CASE Extract(w)
  <2>1. txn[w].pc = "extracting" /\ UNCHANGED <<doc, object, chunks, usage, job, faultsLeft>>
    BY <1>2 DEF Extract, At
  <2>2. CASE Goto(w, "raise")
    BY <1>a, <2>1, <2>2, Goto5
  <2>3. CASE SetStatus(w, "chunking", "chunking")
    BY <2>1, <2>3, SetStatus5, Names
  <2>4. CASE SetStatus(w, "failed", "job_commit")
    BY <2>1, <2>4, SetStatus5, Names
  <2> QED
    BY <1>2, <2>2, <2>3, <2>4 DEF Extract
<1>3. CASE Chunk(w)
  <2>1. txn[w].pc = "chunking" /\ UNCHANGED <<doc, object, chunks, usage, job, faultsLeft>>
    BY <1>3 DEF Chunk, At
  <2>2. CASE SetStatus(w, "embedding", "embedding")
    BY <2>1, <2>2, SetStatus5, Names
  <2>3. CASE SetStatus(w, "failed", "job_commit")
    BY <2>1, <2>3, SetStatus5, Names
  <2> QED
    BY <1>3, <2>2, <2>3 DEF Chunk
<1>4. CASE Embed(w)
  BY <1>4, <1>a, Goto5 DEF Embed, At
<1>5. CASE Publish(w)
  BY <1>5, SetStatus5, Names DEF Publish, At
<1> QED
  BY <1>1, <1>2, <1>3, <1>4, <1>5, ClearChunks5, InsertChunks5, TakeJob5, EndJob5, LetGo5
     DEF WorkerStep

(* A request that has deleted chunks has met a ready document, a worker    *)
(* that holds the lock works on one that is not ready.                     *)
LEMMA NoDeadlock ==
  ASSUME Known, NEW r \in Requests, NEW w \in Workers
  PROVE  ~BreakDeadlock(r, w)
<1> SUFFICES ASSUME txn[r].pc = "requeue", txn[r].cleared # {}, lock[txn[r].doc] = w
             PROVE  FALSE
  BY DEF BreakDeadlock
<1>1. /\ txn[r].doc \in Docs
      /\ doc[txn[r].doc].deleted \/ doc[txn[r].doc].status = "ready"
  BY RequestSees DEF RequestSerial
<1>2. doc[txn[r].doc].status \in NonTerminal /\ ~doc[txn[r].doc].deleted
  BY <1>1, BusyOwner DEF Known
<1> QED
  BY <1>1, <1>2 DEF NonTerminal

LEMMA Inv5Step ==
  ASSUME Known, [Next]_vars, [WorkedOnce]_vars
  PROVE  Inv5'
<1>1. CASE UNCHANGED vars
  <2>1. \A d \in Docs : \A j \in JobIds : PendingOn(j, d)' <=> PendingOn(j, d)
    BY <1>1 DEF vars, PendingOn, Pending, Live
  <2>6. \A d \in Docs : (Awaited(d)' <=> Awaited(d)) /\ (doc'[d].deleted <=> doc[d].deleted)
    BY <1>1 DEF vars, Awaited, Confirming, Requeuing
  <2>2. Spent /\ Undisturbed' = Undisturbed
    BY <1>1, NoFault DEF vars, Known
  <2>3. UNCHANGED <<doc, chunks, lock, txn, job>>
    BY <1>1 DEF vars
  <2>4. ChunksPart'
    BY <2>1, <2>3, SameChunks DEF Known
  <2>5. PendingPart'
    BY <2>1, <2>2, <2>4, <2>6, NoNewPending DEF Known
  <2> QED
    BY <2>2, <2>3, <2>5 DEF Known, Inv5, WorkersApart, UnconfirmedQueued, Present, TxnsSerial, Spent
<1>2. ASSUME Next, WorkedOnce PROVE Inv5'
  <2>1. ASSUME NEW w \in Workers, CrashWorker(w) PROVE Inv5'
    BY <1>2, <2>1, Crash5 DEF WorkedOnce
  <2>2. ASSUME NEW w \in Workers, TimeOutJob(w) PROVE Inv5'
    BY <1>2, <2>2, TimeOut5 DEF WorkedOnce
  <2> QED
    BY <1>2, <2>1, <2>2, Client5, Request5, Worker5, RetryDue5, NoDeadlock DEF Next
<1> QED
  BY <1>1, <1>2

LEMMA AbsentBlankStep ==
  ASSUME Inv1, AbsentBlank, [Next]_vars
  PROVE  AbsentBlank'
<1> SUFFICES ASSUME NEW d \in Docs PROVE doc'[d] = doc[d] \/ doc'[d].status # "absent"
  BY DEF AbsentBlank
<1>0. doc \in [Docs -> Row]
  BY DEF Inv1, DocPart
<1>1. ASSUME NEW t \in Txns, txn[t].pc # "idle", Install(t)
      PROVE  doc'[d] = doc[d] \/ doc'[d].status # "absent"
  BY <1>0, <1>1, SeenRow DEF Install
<1>2. CASE UNCHANGED vars
  BY <1>2 DEF vars
<1>3. ASSUME NEW c \in Docs, ClientStep(c)
      PROVE  doc'[d] = doc[d] \/ doc'[d].status # "absent"
  BY <1>0, <1>3 DEF ClientStep, PresignUpload, PutObject, GrowStale, NonTerminal, Row
<1>4. ASSUME NEW r \in Requests, RequestStep(r)
      PROVE  doc'[d] = doc[d] \/ doc'[d].status # "absent"
  BY <1>1, <1>4 DEF RequestStep, ConfirmRead, ReprocessRead, DeleteDocument, ConfirmLost, ConfirmWrite,
     ReprocessClear, DeleteChunks, ReprocessEnqueue, ReprocessGone, CommitRequest, AbortRequest, Discard
<1>5. ASSUME NEW w \in Workers, WorkerStep(w) \/ CrashWorker(w) \/ TimeOutJob(w)
      PROVE  doc'[d] = doc[d] \/ doc'[d].status # "absent"
  <2>1. CASE GiveUp(w)
    BY <1>0, <2>1 DEF GiveUp, Row
  <2>2. CASE CommitJob(w)
    BY <1>1, <2>2 DEF CommitJob
  <2>3. CASE ~GiveUp(w) /\ ~CommitJob(w)
    BY <1>5, <2>3 DEF WorkerStep, CrashWorker, TimeOutJob, TakeJob, StartExtracting, Extract, Chunk,
       Embed, ClearChunks, DeleteChunks, InsertChunks, Publish, At, RollBackJob, RetryLater, FinishJob,
       Discard
  <2> QED
    BY <2>1, <2>2, <2>3
<1>6. CASE (\E j \in JobIds : RetryDue(j)) \/ \E r \in Requests, w \in Workers : BreakDeadlock(r, w)
  BY <1>6 DEF RetryDue, BreakDeadlock, Discard
<1> QED
  BY <1>2, <1>3, <1>4, <1>5, <1>6 DEF Next

LEMMA KnownInit == Init => Known
  BY Inv1Init, Inv2Init, Inv4Init, Inv5Init DEF Known, AbsentBlank, Init

LEMMA KnownStep == Known /\ [Next]_vars /\ [WorkedOnce]_vars => Known'
  BY Inv1Step, Inv2Step, Inv4Step, Inv5Step, AbsentBlankStep DEF Known

LEMMA AlwaysKnown == Spec /\ [][WorkedOnce]_vars => []Known
  BY KnownInit, KnownStep, PTL DEF Spec

-------------------------------------------------------------------------------
(* The theorems.                                                           *)

(* The steps that readers of the documents table can see.                  *)
LEMMA WhoPublishes ==
  ASSUME [Next]_vars
  PROVE  \/ doc' = doc /\ chunks' = chunks
         \/ \E d \in Docs : PresignUpload(d) \/ GrowStale(d)
         \/ \E r \in Requests : CommitRequest(r)
         \/ \E w \in Workers : CommitJob(w) \/ GiveUp(w)
<1>1. CASE UNCHANGED vars
  BY <1>1 DEF vars
<1>2. ASSUME NEW d \in Docs, ClientStep(d)
      PROVE  (doc' = doc /\ chunks' = chunks) \/ PresignUpload(d) \/ GrowStale(d)
  BY <1>2 DEF ClientStep, PutObject
<1>3. ASSUME NEW r \in Requests, RequestStep(r)
      PROVE  (doc' = doc /\ chunks' = chunks) \/ CommitRequest(r)
  BY <1>3 DEF RequestStep, ConfirmRead, ReprocessRead, DeleteDocument, ConfirmLost, ConfirmWrite,
     ReprocessClear, DeleteChunks, ReprocessEnqueue, ReprocessGone, AbortRequest, Discard
<1>4. ASSUME NEW w \in Workers, WorkerStep(w)
      PROVE  (doc' = doc /\ chunks' = chunks) \/ CommitJob(w) \/ GiveUp(w)
  BY <1>4 DEF WorkerStep, TakeJob, StartExtracting, Extract, Chunk, Embed, ClearChunks, DeleteChunks,
     InsertChunks, Publish, At, RollBackJob, RetryLater, FinishJob, Discard
<1>5. ASSUME NEW w \in Workers, CrashWorker(w) \/ TimeOutJob(w)
      PROVE  doc' = doc /\ chunks' = chunks
  BY <1>5 DEF CrashWorker, TimeOutJob, Discard
<1>6. CASE (\E j \in JobIds : RetryDue(j)) \/ \E r \in Requests, w \in Workers : BreakDeadlock(r, w)
  BY <1>6 DEF RetryDue, BreakDeadlock, Discard
<1> QED
  BY <1>1, <1>2, <1>3, <1>4, <1>5, <1>6 DEF Next

LEMMA GrowStaleDoes ==
  ASSUME Inv1, NEW d \in Docs, GrowStale(d)
  PROVE  /\ chunks' = chunks /\ \A c \in Docs \ {d} : doc'[c] = doc[c]
         /\ doc'[d].status = doc[d].status /\ doc'[d].deleted = doc[d].deleted
<1> DEFINE row == [doc[d] EXCEPT !.stale = TRUE]
<1>1. doc \in [Docs -> Row] /\ doc[d] \in Row
  BY DEF Inv1, DocPart
<1>2. row.status = doc[d].status /\ row.deleted = doc[d].deleted
  BY <1>1 DEF Row
<1>3. doc' = [doc EXCEPT ![d] = row] /\ chunks' = chunks
  BY DEF GrowStale
<1> HIDE DEF row
<1> QED
  BY <1>1, <1>2, <1>3

(* A document that fails is in nobody's hands.                             *)
LEMMA FailsUnlocked ==
  ASSUME Known, [Next]_vars, NEW d \in Docs,
         doc[d].status # "failed", doc'[d].status = "failed"
  PROVE  /\ ~doc'[d].deleted /\ lock'[d] = None
         /\ \A j \in JobIds : job'[j].doc = job[j].doc
<1>0. Inv1 /\ doc \in [Docs -> Row]
  BY DEF Known, Inv1, DocPart
<1>2. ASSUME NEW c \in Docs, PresignUpload(c) \/ GrowStale(c) PROVE FALSE
  BY <1>0, <1>2, GrowStaleDoes DEF PresignUpload, Row
<1>3. ASSUME NEW r \in Requests, CommitRequest(r) PROVE FALSE
  BY <1>3, CommitRequestDoes
<1>4. ASSUME NEW w \in Workers, CommitJob(w)
      PROVE  ~doc'[d].deleted /\ lock'[d] = None /\ job' = job
  <2>1. txn[w].doc \in Docs /\ lock' = Released(w)
    BY <1>0, <1>4, Busy DEF Known, CommitJob, Install
  <2>2. d = txn[w].doc /\ lock[d] = w /\ ~doc'[d].deleted
    BY <1>4, <2>1, CommitJobDoes
  <2> QED
    BY <1>4, <2>1, <2>2 DEF Released, CommitJob
<1>5. ASSUME NEW w \in Workers, GiveUp(w)
      PROVE  /\ ~doc'[d].deleted /\ lock'[d] = None
             /\ \A j \in JobIds : job'[j].doc = job[j].doc
  <2>1. txn[w].doc \in Docs /\ lock' = lock
    BY <1>0, <1>5, Busy DEF Known, GiveUp
  <2>2. ~doc'[d].deleted /\ lock'[d] = None
    BY <1>5, <2>1, GiveUpDoes
  <2>3. \A j \in JobIds : job'[j].doc = job[j].doc
    BY <1>0, <1>5 DEF GiveUp, Inv1, JobPart, Job
  <2> QED
    BY <2>2, <2>3
<1> QED
  BY <1>2, <1>3, <1>4, <1>5, WhoPublishes

(* A document is never flashed to failed while one of its jobs still has   *)
(* an attempt coming (on_processing_failure's should_retry test).          *)
THEOREM NoFlashToFailedCorrect ==
  Spec /\ [][WorkedOnce]_vars => NoFlashToFailed
<1> DEFINE Fails(d) == doc[d].status # "failed" /\ doc'[d].status = "failed"
           NoFlash == \A d \in Docs :
                        Fails(d) => \A j \in JobIds : job[j].doc = d => job'[j].state # "retry"
<1>1. ASSUME Known, Known', [Next]_vars PROVE [NoFlash]_vars
  <2> SUFFICES ASSUME NEW d \in Docs, Fails(d),
                      NEW j \in JobIds, job[j].doc = d, job'[j].state = "retry"
               PROVE  FALSE
    OBVIOUS
  <2>1. ~doc'[d].deleted /\ lock'[d] = None /\ job'[j].doc = d
    BY <1>1, FailsUnlocked
  <2>2. ~Awaited(d)'
    BY <2>1 DEF Awaited, Requeuing, NonTerminal
  <2>3. PendingOn(j, d)'
    BY <1>1, <2>1 DEF Known, Inv5, WorkersApart, PendingOn, Pending, Live
  <2> QED
    BY <1>1, <2>1, <2>2, <2>3 DEF Known, Inv5, PendingPart, PendingAwaited
<1> QED
  BY <1>1, AlwaysKnown, PTL DEF Spec, NoFlashToFailed

-------------------------------------------------------------------------------
(* Refinement.                                                             *)

PhaseOf == [d \in Docs |-> Phase(d)]

Indexed == [d \in Docs |-> chunks[d] # {}]

LEMMA Phases ==
  ASSUME NEW d \in Docs
  PROVE  /\ doc[d].deleted => Phase(d) = "deleted"
         /\ ~doc[d].deleted /\ doc[d].status \in NonTerminal => Phase(d) = "pending"
         /\ ~doc[d].deleted /\ doc[d].status \notin NonTerminal => Phase(d) = doc[d].status
  BY DEF Phase

LEMMA PhasesNext ==
  ASSUME NEW d \in Docs
  PROVE  /\ doc'[d].deleted => Phase(d)' = "deleted"
         /\ ~doc'[d].deleted /\ doc'[d].status \in NonTerminal => Phase(d)' = "pending"
         /\ ~doc'[d].deleted /\ doc'[d].status \notin NonTerminal => Phase(d)' = doc'[d].status
  BY DEF Phase

(* One document moves.                                                     *)
LEMMA OneMoves ==
  ASSUME NEW d \in Docs, NEW p, NEW b, Phase(d)' = p, (chunks'[d] # {}) = b,
         \A c \in Docs \ {d} : doc'[c] = doc[c] /\ chunks'[c] = chunks[c]
  PROVE  /\ PhaseOf' = [PhaseOf EXCEPT ![d] = p]
         /\ Indexed' = [Indexed EXCEPT ![d] = b]
<1>1. \A c \in Docs \ {d} : Phase(c)' = Phase(c)
  BY DEF Phase
<1> QED
  BY <1>1 DEF PhaseOf, Indexed

LEMMA OnlyPhaseMoves ==
  ASSUME NEW d \in Docs, NEW p, Phase(d)' = p, chunks'[d] = chunks[d],
         \A c \in Docs \ {d} : doc'[c] = doc[c] /\ chunks'[c] = chunks[c]
  PROVE  PhaseOf' = [PhaseOf EXCEPT ![d] = p] /\ Indexed' = Indexed
<1>1. \A c \in Docs \ {d} : Phase(c)' = Phase(c)
  BY DEF Phase
<1> QED
  BY <1>1 DEF PhaseOf, Indexed

LEMMA Stutters ==
  ASSUME NEW d \in Docs, Phase(d)' = Phase(d), (chunks'[d] # {}) = (chunks[d] # {}),
         \A c \in Docs \ {d} : doc'[c] = doc[c] /\ chunks'[c] = chunks[c]
  PROVE  UNCHANGED <<PhaseOf, Indexed>>
<1>1. \A c \in Docs \ {d} : Phase(c)' = Phase(c)
  BY DEF Phase
<1> QED
  BY <1>1 DEF PhaseOf, Indexed

LEMMA InitMaps == Init => Lifecycle!Init
<1> SUFFICES ASSUME Init PROVE Lifecycle!Init
  OBVIOUS
<1>1. \A d \in Docs : ~doc[d].deleted /\ doc[d].status = "absent" /\ chunks[d] = {}
  BY DEF Init, NoRow
<1>2. \A d \in Docs : Phase(d) = "absent"
  <2> SUFFICES ASSUME NEW d \in Docs PROVE Phase(d) = "absent"
    OBVIOUS
  <2>1. ~doc[d].deleted /\ doc[d].status = "absent" /\ doc[d].status \notin NonTerminal
    BY <1>1 DEF NonTerminal
  <2> QED
    BY <2>1, Phases
<1> QED
  BY <1>1, <1>2 DEF Lifecycle!Init

LEMMA PresignCreates ==
  ASSUME Inv1, AbsentBlank, NEW d \in Docs, PresignUpload(d)
  PROVE  Lifecycle!Create(d)
<1>1. /\ doc[d].status = "absent" /\ ~doc[d].deleted
      /\ doc'[d].status = "queued" /\ ~doc'[d].deleted
      /\ chunks' = chunks /\ \A c \in Docs \ {d} : doc'[c] = doc[c]
  BY DEF PresignUpload, AbsentBlank, NoRow, Row, Inv1, DocPart
<1>2. Phase(d) = "absent" /\ Phase(d)' = "pending"
  BY <1>1, Phases, PhasesNext DEF NonTerminal
<1>3. PhaseOf' = [PhaseOf EXCEPT ![d] = "pending"] /\ Indexed' = Indexed
  BY <1>1, <1>2, OnlyPhaseMoves
<1> QED
  BY <1>2, <1>3 DEF Lifecycle!Create, Lifecycle!Move, PhaseOf, Indexed

LEMMA GrowStaleMaps ==
  ASSUME Inv1, NEW d \in Docs, GrowStale(d)
  PROVE  UNCHANGED <<PhaseOf, Indexed>>
<1>1. /\ chunks' = chunks /\ \A c \in Docs \ {d} : doc'[c] = doc[c]
      /\ doc'[d].status = doc[d].status /\ doc'[d].deleted = doc[d].deleted
  BY GrowStaleDoes
<1>2. Phase(d)' = Phase(d)
  BY <1>1, Phases, PhasesNext
<1> QED
  BY <1>1, <1>2, Stutters

(* Each step of the pipeline is a step of the lifecycle, or none.          *)
LEMMA StepMaps ==
  ASSUME Known, [Next]_vars
  PROVE  [Lifecycle!Next]_<<PhaseOf, Indexed>>
<1> USE DEF Lifecycle!Next, Lifecycle!Move
<1>0. doc \in [Docs -> Row]
  BY DEF Known, Inv1, DocPart
<1>1. CASE doc' = doc /\ chunks' = chunks
  BY <1>1 DEF PhaseOf, Indexed, Phase
<1>2. ASSUME NEW d \in Docs, PresignUpload(d)
      PROVE  Lifecycle!Create(d)
  BY <1>2, PresignCreates DEF Known
<1>3. ASSUME NEW r \in Requests, CommitRequest(r)
      PROVE  [Lifecycle!Next]_<<PhaseOf, Indexed>>
  <2>1. PICK d \in Docs :
          /\ ~doc[d].deleted /\ doc'[d].status # "absent" /\ doc[d].status # "absent"
          /\ \A c \in Docs \ {d} : doc'[c] = doc[c] /\ chunks'[c] = chunks[c]
          /\ \/ doc'[d].status = doc[d].status /\ chunks'[d] = chunks[d]
             \/ /\ doc'[d].status = "queued" /\ ~doc'[d].deleted /\ doc[d].status = "failed"
                /\ chunks'[d] = {}
    BY <1>3, CommitRequestDoes
  <2>2. CASE doc'[d].status = doc[d].status /\ chunks'[d] = chunks[d] /\ ~doc'[d].deleted
    <3>1. Phase(d)' = Phase(d)
      BY <2>1, <2>2, Phases, PhasesNext
    <3> QED
      BY <2>1, <2>2, <3>1, Stutters
  <2>3. CASE doc'[d].status = doc[d].status /\ chunks'[d] = chunks[d] /\ doc'[d].deleted
    <3>1. Phase(d) \in {"pending", "ready", "failed"} /\ Phase(d)' = "deleted"
      BY <1>0, <2>1, <2>3, Phases, PhasesNext DEF Row, Statuses
    <3>2. PhaseOf' = [PhaseOf EXCEPT ![d] = "deleted"] /\ Indexed' = Indexed
      BY <2>1, <2>3, <3>1, OnlyPhaseMoves
    <3>3. Lifecycle!Remove(d)
      BY <3>1, <3>2 DEF Lifecycle!Remove, PhaseOf, Indexed
    <3> QED
      BY <3>3
  <2>4. CASE /\ doc'[d].status = "queued" /\ ~doc'[d].deleted /\ doc[d].status = "failed"
             /\ chunks'[d] = {}
    <3>1. Phase(d) = "failed" /\ Phase(d)' = "pending"
      BY <2>1, <2>4, Phases, PhasesNext DEF NonTerminal
    <3>2. /\ PhaseOf' = [PhaseOf EXCEPT ![d] = "pending"]
          /\ Indexed' = [Indexed EXCEPT ![d] = FALSE]
      <4>1. (chunks'[d] # {}) = FALSE
        BY <2>4
      <4>2. \A c \in Docs \ {d} : doc'[c] = doc[c] /\ chunks'[c] = chunks[c]
        BY <2>1
      <4> QED
        BY <3>1, <4>1, <4>2, OneMoves
    <3>3. Lifecycle!Requeue(d)
      BY <3>1, <3>2 DEF Lifecycle!Requeue, PhaseOf, Indexed
    <3> QED
      BY <3>3
  <2> QED
    BY <1>0, <2>1, <2>2, <2>3, <2>4 DEF Row
<1>4. ASSUME NEW w \in Workers, CommitJob(w)
      PROVE  [Lifecycle!Next]_<<PhaseOf, Indexed>>
  <2>0. txn[w].pc \notin {"idle", "ack"}
    BY <1>4 DEF CommitJob
  <2>1. PICK d \in Docs :
          /\ d = txn[w].doc
          /\ \A c \in Docs \ {d} : doc'[c] = doc[c] /\ chunks'[c] = chunks[c]
          /\ \/ /\ lock[d] = w /\ ~doc'[d].deleted
                /\ \/ doc'[d].status \in NonTerminal /\ chunks'[d] = chunks[d]
                   \/ doc'[d].status = "failed" /\ chunks'[d] = chunks[d]
                   \/ doc'[d].status = "ready" /\ chunks'[d] # {}
             \/ doc'[d] = doc[d] /\ chunks'[d] = chunks[d]
             \/ /\ doc'[d] = doc[d] /\ doc[d].deleted
                /\ chunks[d] # {} => chunks'[d] # {}
    BY <1>4, <2>0, Busy, CommitJobDoes DEF Known
  <2>2. lock[d] = w => Phase(d) = "pending"
    BY BusyOwner, Phases DEF Known
  <2>3. CASE doc'[d] = doc[d] /\ ((chunks'[d] # {}) <=> (chunks[d] # {}))
    BY <2>1, <2>3, Stutters DEF Phase
  <2>4. CASE /\ lock[d] = w /\ ~doc'[d].deleted /\ doc'[d].status \in NonTerminal
             /\ chunks'[d] = chunks[d]
    BY <2>1, <2>2, <2>4, PhasesNext, Stutters
  <2>5. CASE lock[d] = w /\ ~doc'[d].deleted /\ doc'[d].status = "failed" /\ chunks'[d] = chunks[d]
    <3>1. Phase(d)' = "failed"
      BY <2>5, PhasesNext DEF NonTerminal
    <3>2. PhaseOf' = [PhaseOf EXCEPT ![d] = "failed"] /\ Indexed' = Indexed
      BY <2>1, <2>5, <3>1, OnlyPhaseMoves
    <3>3. Lifecycle!Reject(d)
      BY <2>2, <2>5, <3>2 DEF Lifecycle!Reject, PhaseOf, Indexed
    <3> QED
      BY <3>3
  <2>6. CASE lock[d] = w /\ ~doc'[d].deleted /\ doc'[d].status = "ready" /\ chunks'[d] # {}
    <3>1. Phase(d)' = "ready"
      BY <2>6, PhasesNext DEF NonTerminal
    <3>2. /\ PhaseOf' = [PhaseOf EXCEPT ![d] = "ready"]
          /\ Indexed' = [Indexed EXCEPT ![d] = TRUE]
      <4>1. (chunks'[d] # {}) = TRUE
        BY <2>6
      <4>2. \A c \in Docs \ {d} : doc'[c] = doc[c] /\ chunks'[c] = chunks[c]
        BY <2>1
      <4> QED
        BY <3>1, <4>1, <4>2, OneMoves
    <3>3. Lifecycle!Publish(d)
      BY <2>2, <2>6, <3>2 DEF Lifecycle!Publish, PhaseOf, Indexed
    <3> QED
      BY <3>3
  <2>7. CASE doc'[d] = doc[d] /\ doc[d].deleted /\ chunks'[d] # {} /\ chunks[d] = {}
    <3>1. Phase(d) = "deleted" /\ Phase(d)' = "deleted"
      BY <2>7, Phases, PhasesNext
    <3>2. /\ PhaseOf' = [PhaseOf EXCEPT ![d] = "deleted"]
          /\ Indexed' = [Indexed EXCEPT ![d] = TRUE] /\ ~Indexed[d]
      <4>1. (chunks'[d] # {}) = TRUE
        BY <2>7
      <4>2. \A c \in Docs \ {d} : doc'[c] = doc[c] /\ chunks'[c] = chunks[c]
        BY <2>1
      <4> QED
        BY <2>7, <3>1, <4>1, <4>2, OneMoves DEF Indexed
    <3>3. Lifecycle!StoreLate(d)
      BY <3>1, <3>2 DEF Lifecycle!StoreLate, PhaseOf, Indexed
    <3> QED
      BY <3>3
  <2> QED
    BY <2>1, <2>3, <2>4, <2>5, <2>6, <2>7
<1>5. ASSUME NEW w \in Workers, GiveUp(w)
      PROVE  [Lifecycle!Next]_<<PhaseOf, Indexed>>
  <2>0. txn[w].pc \notin {"idle", "ack"} /\ chunks' = chunks
    BY <1>5 DEF GiveUp
  <2>1. PICK d \in Docs :
          /\ \A c \in Docs \ {d} : doc'[c] = doc[c]
          /\ \/ doc'[d] = doc[d]
             \/ /\ doc[d].status \in NonTerminal /\ ~doc[d].deleted
                /\ doc'[d].status = "failed" /\ ~doc'[d].deleted
    BY <1>5, <2>0, Busy, GiveUpDoes DEF Known
  <2>2. CASE doc'[d] = doc[d]
    BY <2>0, <2>1, <2>2, Stutters DEF Phase
  <2>3. CASE /\ doc[d].status \in NonTerminal /\ ~doc[d].deleted
             /\ doc'[d].status = "failed" /\ ~doc'[d].deleted
    <3>1. Phase(d) = "pending" /\ Phase(d)' = "failed"
      BY <2>3, Phases, PhasesNext DEF NonTerminal
    <3>2. PhaseOf' = [PhaseOf EXCEPT ![d] = "failed"] /\ Indexed' = Indexed
      BY <2>0, <2>1, <3>1, OnlyPhaseMoves
    <3>3. Lifecycle!Reject(d)
      BY <3>1, <3>2 DEF Lifecycle!Reject, PhaseOf, Indexed
    <3> QED
      BY <3>3
  <2> QED
    BY <2>1, <2>2, <2>3
<1>6. ASSUME NEW d \in Docs, GrowStale(d)
      PROVE  UNCHANGED <<PhaseOf, Indexed>>
  BY <1>6, GrowStaleMaps DEF Known
<1> QED
  BY <1>1, <1>2, <1>3, <1>4, <1>5, <1>6, WhoPublishes

(* With each job worked off once, the pipeline implements the abstract     *)
(* lifecycle, whatever requests, retries, crashes, timeouts, lost commits  *)
(* and outages do: a document becomes ready together with its chunks,      *)
(* stays ready with them until it is deleted, and only a failed one goes   *)
(* back to the queue, without chunks.                                      *)
THEOREM ImplementsLifecycleCorrect ==
  Spec /\ [][WorkedOnce]_vars => ImplementsLifecycle
<1>1. Known /\ [Next]_vars => [Lifecycle!Next]_<<PhaseOf, Indexed>>
  BY StepMaps
<1> QED
  BY <1>1, InitMaps, AlwaysKnown, PTL DEF Spec, ImplementsLifecycle, Lifecycle!Spec, PhaseOf, Indexed

-------------------------------------------------------------------------------
(* What holds whatever overtakes what: ImplementsDisturbedLifecycle.       *)

(* The rows that requests write: one that is requeued, or the status they  *)
(* have found, and then they delete no chunks (confirm_upload,             *)
(* delete_document).                                                       *)
RequestRecord(x) ==
  /\ x.stored = {}
  /\ x.cleared # {} => x.pc \in {"requeue", "request_commit"}

RequestRow(x, row) ==
  \/ x.row.status = "queued" /\ ~x.row.deleted
  \/ x.row.status = row.status /\ x.cleared = {}

RequestRows ==
  /\ \A r \in Requests : RequestRecord(txn[r])
  /\ \A d \in Docs : lock[d] \in Requests => RequestRow(txn[lock[d]], doc[d])

(* COMMIT, as the other transactions see it.                               *)
LEMMA InstallDoes ==
  ASSUME Inv1, Inv4, NEW t \in Txns, txn[t].pc # "idle", Install(t)
  PROVE  LET d == txn[t].doc IN
         /\ d \in Docs /\ txn[t] \in Txn /\ doc[d].status # "absent"
         /\ \A c \in Docs \ {d} : doc'[c] = doc[c] /\ chunks'[c] = chunks[c] /\ lock[c] # t
         /\ chunks'[d] = (chunks[d] \ txn[t].cleared) \cup txn[t].stored
         /\ doc'[d] \in Row /\ doc'[d].status # "absent"
         /\ lock[d] = t => ~doc[d].deleted /\ doc'[d] = txn[t].row
         /\ lock[d] # t => doc'[d] = doc[d]
         /\ \A c \in Docs : lock'[c] = IF lock[c] = t THEN None ELSE lock[c]
<1> DEFINE d == txn[t].doc
<1>1. d \in Docs /\ txn[t] \in Txn /\ doc[d].status # "absent"
  BY DEF Inv1, TxnPart, TxnWellFormed, Existing
<1>2. /\ \A c \in Docs \ {d} : doc'[c] = doc[c] /\ chunks'[c] = chunks[c]
      /\ doc'[d] = Seen(t)
      /\ chunks'[d] = (chunks[d] \ txn[t].cleared) \cup txn[t].stored
  BY <1>1 DEF Install, Inv1, DocPart, RestPart
<1>3. \A c \in Docs \ {d} : lock[c] # t
  BY DEF Inv1, TxnPart, LockWellFormed
<1>4. lock[d] = t => ~doc[d].deleted
  BY <1>1 DEF Inv4, LocksKnow
<1>5. Seen(t) \in Row /\ Seen(t).status # "absent"
  BY SeenRow
<1>6. \A c \in Docs : lock'[c] = IF lock[c] = t THEN None ELSE lock[c]
  BY DEF Install, Released
<1> QED
  BY <1>1, <1>2, <1>3, <1>4, <1>5, <1>6 DEF Seen

(* Nobody but the holder of its lock writes a row; and no row comes back.  *)
LEMMA RowUnderLock ==
  ASSUME Inv1, Inv4, [Next]_vars, NEW d \in Docs
  PROVE  /\ doc[d].deleted => doc'[d].deleted
         /\ lock'[d] # None =>
              /\ doc'[d].status = doc[d].status /\ doc'[d].deleted = doc[d].deleted
              /\ doc'[d].confirmed = doc[d].confirmed
<1> DEFINE Goal == /\ doc[d].deleted => doc'[d].deleted
                   /\ lock'[d] # None =>
                        /\ doc'[d].status = doc[d].status /\ doc'[d].deleted = doc[d].deleted
                        /\ doc'[d].confirmed = doc[d].confirmed
<1>0. doc \in [Docs -> Row] /\ doc[d] \in Row
  BY DEF Inv1, DocPart
<1>1. ASSUME NEW c \in Docs, PresignUpload(c) PROVE Goal
  <2>1. lock[c] = None
    BY <1>1 DEF PresignUpload, Inv1, TxnPart, LockWellFormed, TxnWellFormed, Existing, Unlocked
  <2> QED
    BY <1>0, <1>1, <2>1 DEF PresignUpload, Row
<1>2. ASSUME NEW c \in Docs, GrowStale(c) PROVE Goal
  BY <1>0, <1>2 DEF GrowStale, Row
<1>3. ASSUME NEW t \in Txns, txn[t].pc # "idle", Install(t) PROVE Goal
  BY <1>3, InstallDoes
<1>4. ASSUME NEW r \in Requests, CommitRequest(r) PROVE Goal
  BY <1>3, <1>4 DEF CommitRequest
<1>5. ASSUME NEW w \in Workers, CommitJob(w) PROVE Goal
  BY <1>3, <1>5 DEF CommitJob
<1>6. ASSUME NEW w \in Workers, GiveUp(w) PROVE Goal
  <2>1. lock' = lock /\ (doc' = doc \/
          /\ lock[txn[w].doc] = None
          /\ doc' = [doc EXCEPT ![txn[w].doc].status = "failed", ![txn[w].doc].stale = FALSE])
    BY <1>6 DEF GiveUp
  <2> QED
    BY <1>0, <2>1 DEF Row
<1> HIDE DEF Goal
<1>7. doc' = doc => Goal
  BY DEF Goal
<1>8. Goal
  BY <1>1, <1>2, <1>4, <1>5, <1>6, <1>7, WhoPublishes
<1> QED
  BY <1>8 DEF Goal

(* A request moves, or none does.                                          *)
LEMMA RequestRowsMove ==
  ASSUME Inv1, Inv4, RequestRows, [Next]_vars, NEW r \in Requests, NEW x, Becomes(r, x),
         RequestRecord(x), OnlyLocksOf(r),
         \A d \in Docs : lock'[d] = r => RequestRow(x, doc'[d])
  PROVE  RequestRows'
<1>1. txn'[r] = x /\ \A u \in Txns \ {r} : txn'[u] = txn[u]
  BY DEF Becomes, Inv1, TxnPart
<1>2. ASSUME NEW d \in Docs, lock'[d] \in Requests PROVE RequestRow(txn'[lock'[d]], doc'[d])
  <2>1. CASE lock'[d] = r
    BY <1>1, <2>1
  <2>2. CASE lock'[d] # r
    <3>1. lock[d] = lock'[d] /\ lock'[d] # None /\ txn'[lock'[d]] = txn[lock[d]]
      BY <1>1, <1>2, <2>2 DEF OnlyLocksOf
    <3>2. doc'[d].status = doc[d].status
      BY <3>1, RowUnderLock
    <3> QED
      BY <1>2, <3>1, <3>2 DEF RequestRows, RequestRow
  <2> QED
    BY <2>1, <2>2
<1> QED
  BY <1>1, <1>2 DEF RequestRows

LEMMA RequestRowsSame ==
  ASSUME Inv1, Inv4, RequestRows, [Next]_vars, \A r \in Requests : txn'[r] = txn[r],
         \A d \in Docs : lock'[d] \in Requests => lock'[d] = lock[d]
  PROVE  RequestRows'
<1> SUFFICES ASSUME NEW d \in Docs, lock'[d] \in Requests
             PROVE  RequestRow(txn'[lock'[d]], doc'[d])
  BY DEF RequestRows
<1>1. doc'[d].status = doc[d].status
  BY RowUnderLock
<1> QED
  BY <1>1 DEF RequestRows, RequestRow

(* A worker's step does not touch the locks and records of requests.       *)
LEMMA WorkersOwn ==
  ASSUME Inv1, NEW w \in Workers, WorkerStep(w) \/ CrashWorker(w) \/ TimeOutJob(w)
  PROVE  /\ \E x \in Txn : Becomes(w, x)
         /\ OnlyLocksOf(w)
<1>0. w \in Txns /\ txn[w].doc \in Docs \cup {None}
  BY DEF Inv1, TxnPart, Txn
<1>1. lock' = lock \/ lock' = Released(w) => OnlyLocksOf(w)
  BY DEF OnlyLocksOf, Released
<1>2. ASSUME NEW s, NEW next, SetStatus(w, s, next), txn[w].pc # "idle" PROVE OnlyLocksOf(w)
  BY <1>0, <1>2, OwnLock DEF SetStatus, Inv1, TxnPart, TxnWellFormed, Existing, OnlyLocksOf
<1>3. OnlyLocksOf(w)
  BY <1>1, <1>2 DEF WorkerStep, CrashWorker, TimeOutJob, TakeJob, StartExtracting, Extract, Chunk, Embed,
     ClearChunks, DeleteChunks, InsertChunks, Publish, At, Goto, CommitJob, Install, RollBackJob,
     RetryLater, GiveUp, FinishJob, Discard
<1>4. \E x \in Txn : Becomes(w, x)
  <2>1. Inv1'
    BY WorkerInv1, TimeOutJobInv1
  <2>2. \E x : Becomes(w, x)
    BY DEF WorkerStep, CrashWorker, TimeOutJob, TakeJob, StartExtracting, Extract, Chunk, Embed,
       ClearChunks, DeleteChunks, InsertChunks, Publish, SetStatus, At, Goto, CommitJob, RollBackJob,
       RetryLater, GiveUp, FinishJob
  <2> QED
    BY <1>0, <2>1, <2>2 DEF Becomes, Inv1, TxnPart
<1> QED
  BY <1>3, <1>4

LEMMA RequestRowsStep == Inv1 /\ Inv4 /\ RequestRows /\ [Next]_vars => RequestRows'
<1> SUFFICES ASSUME Inv1, Inv4, RequestRows, [Next]_vars PROVE RequestRows'
  OBVIOUS
<1>0. RequestRecord(Idle) /\ Workers \cap Requests = {}
  BY IdleFresh DEF RequestRecord
<1>1. CASE UNCHANGED <<txn, lock>>
  BY <1>1, RequestRowsSame
<1>2. ASSUME NEW w \in Workers, WorkerStep(w) \/ CrashWorker(w) \/ TimeOutJob(w) PROVE RequestRows'
  <2>1. \A r \in Requests : txn'[r] = txn[r]
    BY <1>0, <1>2, WorkersOwn DEF Becomes, Inv1, TxnPart
  <2>2. \A d \in Docs : lock'[d] \in Requests => lock'[d] = lock[d]
    BY <1>0, <1>2, WorkersOwn DEF OnlyLocksOf
  <2> QED
    BY <2>1, <2>2, RequestRowsSame
<1>3. ASSUME NEW t \in Txns, Discard(t) PROVE OnlyLocksOf(t) /\ \A d \in Docs : lock'[d] # t
  BY <1>3 DEF Discard, OnlyLocksOf, Released
<1>4. ASSUME NEW r \in Requests, NEW w \in Workers, BreakDeadlock(r, w) PROVE RequestRows'
  <2>1. CASE Discard(r) /\ Becomes(r, Idle)
    BY <1>0, <1>3, <2>1, RequestRowsMove
  <2>2. CASE Discard(w) /\ Becomes(w, Ended(w, "callback"))
    <3>1. \A u \in Requests : txn'[u] = txn[u]
      BY <1>0, <2>2 DEF Becomes, Inv1, TxnPart
    <3>2. \A d \in Docs : lock'[d] \in Requests => lock'[d] = lock[d]
      BY <1>0, <1>3, <2>2 DEF OnlyLocksOf
    <3> QED
      BY <3>1, <3>2, RequestRowsSame
  <2> QED
    BY <1>4, <2>1, <2>2 DEF BreakDeadlock
<1>5. ASSUME NEW r \in Requests, RequestStep(r) PROVE RequestRows'
  <2>0. r \in Txns /\ txn[r] \in Txn /\ RequestRecord(txn[r])
    BY DEF Inv1, TxnPart, RequestRows
  <2>a. ASSUME txn[r].pc # "request_commit" PROVE \A d \in Docs : lock[d] # r
    BY <2>a DEF Inv4, LocksKnow
  <2>b. lock' = lock => OnlyLocksOf(r)
    BY DEF OnlyLocksOf
  <2>1. ASSUME NEW d \in Docs, ConfirmRead(r, d) \/ ReprocessRead(r, d) PROVE RequestRows'
    <3>1. PICK pc \in {"confirm", "reprocess"} : Becomes(r, Begin(pc, d, None, doc[d].status))
      BY <2>1 DEF ConfirmRead, ReprocessRead
    <3>2. txn[r].pc = "idle" /\ lock' = lock
      BY <2>1 DEF ConfirmRead, ReprocessRead
    <3>3. RequestRecord(Begin(pc, d, None, doc[d].status))
      BY BeginFresh DEF RequestRecord
    <3> QED
      BY <2>a, <2>b, <3>1, <3>2, <3>3, RequestRowsMove
  <2>2. CASE ConfirmLost(r)
    BY <1>0, <2>2, <2>a, <2>b, RequestRowsMove DEF ConfirmLost
  <2>3. CASE ReprocessGone(r) \/ AbortRequest(r)
    BY <1>0, <1>3, <2>0, <2>3, RequestRowsMove DEF ReprocessGone, AbortRequest
  <2>4. CASE ConfirmWrite(r)
    <3> DEFINE d == txn[r].doc
               row == [doc[d] EXCEPT !.confirmed = TRUE, !.stale = FALSE]
               x == [txn[r] EXCEPT !.pc = "request_commit", !.adds = 1, !.row = row]
    <3>1. /\ Becomes(r, x) /\ txn[r].pc = "confirm" /\ UNCHANGED doc
          /\ lock[d] = None /\ lock' = [lock EXCEPT ![d] = r]
      BY <2>4 DEF ConfirmWrite
    <3>2. d \in Docs /\ doc[d] \in Row
      BY <2>0, <3>1 DEF Inv1, TxnPart, TxnWellFormed, Existing, DocPart
    <3>3. row.status = doc[d].status
      BY <3>2 DEF Row
    <3> HIDE DEF row
    <3>4. x.pc = "request_commit" /\ x.row = row /\ x.cleared = txn[r].cleared /\ x.stored = txn[r].stored
      BY <2>0 DEF Txn
    <3>5. Becomes(r, x)
      BY <3>1
    <3> HIDE DEF x
    <3>6. OnlyLocksOf(r) /\ \A c \in Docs : lock'[c] = r => c = d
      BY <2>0, <2>a, <3>1, <3>2, OwnLock DEF Inv1, TxnPart
    <3>7. RequestRecord(x) /\ RequestRow(x, doc'[d])
      BY <2>0, <3>1, <3>3, <3>4 DEF RequestRecord, RequestRow
    <3> HIDE DEF d
    <3> QED
      BY <3>5, <3>6, <3>7, RequestRowsMove
  <2>5. CASE ReprocessClear(r)
    <3> DEFINE x == [txn[r] EXCEPT !.pc = "requeue", !.cleared = chunks[txn[r].doc]]
    <3>1. Becomes(r, x) /\ txn[r].pc = "reprocess" /\ lock' = lock
      BY <2>5 DEF ReprocessClear, DeleteChunks
    <3>2. RequestRecord(x)
      BY <2>0 DEF RequestRecord, Txn
    <3> HIDE DEF x
    <3> QED
      BY <2>a, <2>b, <3>1, <3>2, RequestRowsMove
  <2>6. CASE ReprocessEnqueue(r)
    <3>1. SetStatus(r, "queued", "request_commit") /\ ~Seen(r).deleted /\ txn[r].pc = "requeue"
      BY <2>6 DEF ReprocessEnqueue
    <3>2. txn[r].doc \in Docs /\ Seen(r) \in Row
      BY <2>0, <3>1, SeenRow DEF Inv1, TxnPart, TxnWellFormed, Existing
    <3>3. CASE Becomes(r, [txn[r] EXCEPT !.pc = "request_commit"]) /\ UNCHANGED lock
      <4>1. RequestRecord([txn[r] EXCEPT !.pc = "request_commit"])
        BY <2>0 DEF RequestRecord, Txn
      <4> QED
        BY <2>a, <2>b, <3>1, <3>3, <4>1, RequestRowsMove
    <3>4. CASE /\ lock[txn[r].doc] \in {None, r} /\ lock' = [lock EXCEPT ![txn[r].doc] = r]
               /\ Becomes(r, [txn[r] EXCEPT !.pc = "request_commit", !.view = "queued",
                                !.row = [Seen(r) EXCEPT !.status = "queued", !.stale = FALSE]])
      <4> DEFINE row == [Seen(r) EXCEPT !.status = "queued", !.stale = FALSE]
                 x == [txn[r] EXCEPT !.pc = "request_commit", !.view = "queued", !.row = row]
      <4>1. row.status = "queued" /\ ~row.deleted
        BY <3>1, <3>2 DEF Row
      <4>2. Becomes(r, x)
        BY <3>4
      <4> HIDE DEF row
      <4>3. RequestRecord(x) /\ x.row = row
        BY <2>0 DEF RequestRecord, Txn
      <4> HIDE DEF x
      <4>4. OnlyLocksOf(r)
        BY <2>0, <3>2, <3>4, OwnLock
      <4> QED
        BY <4>1, <4>2, <4>3, <4>4, RequestRowsMove DEF RequestRow
    <3> QED
      BY <3>1, <3>3, <3>4 DEF SetStatus
  <2>7. ASSUME NEW d \in Docs, DeleteDocument(r, d) PROVE RequestRows'
    <3> DEFINE row == [doc[d] EXCEPT !.deleted = TRUE, !.stale = FALSE]
               b == Begin("request_commit", d, None, doc[d].status)
               x == [b EXCEPT !.row = row]
    <3>1. /\ lock[d] = None /\ lock' = [lock EXCEPT ![d] = r] /\ txn[r].pc = "idle"
          /\ UNCHANGED doc /\ doc[d] \in Row /\ doc[d].status \in Statuses
      BY <2>7 DEF DeleteDocument, Present, Inv1, DocPart, Row
    <3>2. row.status = doc[d].status
      BY <3>1 DEF Row
    <3>3. b \in Txn /\ b.cleared = {} /\ b.stored = {}
      BY <3>1, BeginRecord, BeginFresh, Names
    <3>4. Becomes(r, x)
      BY <2>7 DEF DeleteDocument
    <3> HIDE DEF row, b
    <3>5. x.row = row /\ x.cleared = {} /\ x.stored = {}
      BY <3>3 DEF Txn
    <3> HIDE DEF x
    <3>6. OnlyLocksOf(r) /\ \A c \in Docs : lock'[c] = r => c = d
      BY <2>0, <2>a, <3>1, OwnLock DEF Inv1, TxnPart
    <3>7. RequestRecord(x) /\ RequestRow(x, doc'[d])
      BY <3>1, <3>2, <3>5 DEF RequestRecord, RequestRow
    <3> QED
      BY <3>4, <3>6, <3>7, RequestRowsMove
  <2>8. CASE CommitRequest(r)
    <3>1. OnlyLocksOf(r) /\ \A d \in Docs : lock'[d] # r
      BY <2>0, <2>8 DEF CommitRequest, Install, OnlyLocksOf, Released
    <3> QED
      BY <1>0, <2>8, <3>1, RequestRowsMove DEF CommitRequest
  <2> QED
    BY <1>5, <2>1, <2>2, <2>3, <2>4, <2>5, <2>6, <2>7, <2>8 DEF RequestStep
<1>6. CASE \E d \in Docs : ClientStep(d)
  BY <1>1, <1>6 DEF ClientStep, PresignUpload, PutObject, GrowStale
<1>7. CASE \E j \in JobIds : RetryDue(j)
  BY <1>1, <1>7 DEF RetryDue
<1> QED
  BY <1>1, <1>2, <1>4, <1>5, <1>6, <1>7 DEF Next, vars

(* Everything that is known of a state without any hypothesis.             *)
Basics == Inv1 /\ Inv4 /\ RequestRows /\ AbsentBlank

LEMMA BasicsInit == Init => Basics
<1>1. Init => RequestRows /\ AbsentBlank
  BY IdleFresh DEF Init, RequestRows, RequestRecord, AbsentBlank
<1> QED
  BY <1>1, Inv1Init, Inv4Init DEF Basics

LEMMA BasicsStep == Basics /\ [Next]_vars => Basics'
  BY Inv1Step, Inv4Step, RequestRowsStep, AbsentBlankStep DEF Basics

LEMMA AlwaysBasics == Spec => []Basics
  BY BasicsInit, BasicsStep, PTL DEF Spec

(* COMMIT, as the readers see it.                                          *)
LEMMA InstallDisturbs ==
  ASSUME Basics, NEW t \in Txns, txn[t].pc # "idle", Install(t)
  PROVE  [Lifecycle!DisturbedNext]_<<PhaseOf, Indexed>>
<1> USE DEF Lifecycle!DisturbedNext
<1>a. /\ Inv1 /\ Inv4 /\ RequestRows /\ RecordKnows(t, txn[t])
      /\ txn[t].doc \in Docs /\ txn[t] \in Txn
      /\ doc[txn[t].doc] \in Row /\ doc[txn[t].doc].status # "absent"
  BY InstallDoes DEF Basics, Inv4, Inv1, DocPart
<1>b. PICK d \in Docs : d = txn[t].doc
  BY <1>a
<1>0. /\ d = txn[t].doc /\ Inv1 /\ Inv4 /\ RequestRows /\ RecordKnows(t, txn[t])
      /\ txn[t] \in Txn /\ doc[d] \in Row /\ doc[d].status # "absent"
  BY <1>a, <1>b
<1>1. /\ \A c \in Docs \ {d} : doc'[c] = doc[c] /\ chunks'[c] = chunks[c]
      /\ chunks'[d] = (chunks[d] \ txn[t].cleared) \cup txn[t].stored
      /\ doc'[d] \in Row /\ doc'[d].status # "absent"
      /\ lock[d] = t => ~doc[d].deleted /\ doc'[d] = txn[t].row
      /\ lock[d] # t => doc'[d] = doc[d]
  BY <1>0, InstallDoes
<1>2. ~doc[d].deleted => Phase(d) \in Lifecycle!Existing
  BY <1>0, Phases DEF Row, Statuses, Lifecycle!Existing
<1>3. ASSUME NEW p, Phase(d)' = p
      PROVE  PhaseOf' = [PhaseOf EXCEPT ![d] = p]
             /\ Indexed' = [Indexed EXCEPT ![d] = (chunks'[d] # {})]
  BY <1>0, <1>1, <1>3, OneMoves
<1>4. t \in Requests => txn[t].stored = {} /\ (lock[d] = t => RequestRow(txn[t], doc[d]))
  BY <1>0 DEF RequestRows, RequestRecord
<1>5. CASE Phase(d)' = Phase(d) /\ (chunks'[d] # {}) = (chunks[d] # {})
  BY <1>0, <1>1, <1>5, Stutters
<1>6. CASE Phase(d)' = Phase(d) /\ chunks'[d] = {} /\ Phase(d) # "absent"
  <2>1. PhaseOf' = PhaseOf /\ Indexed' = [Indexed EXCEPT ![d] = FALSE]
    BY <1>3, <1>6 DEF PhaseOf
  <2>2. Lifecycle!Discard(d)
    BY <1>0, <1>6, <2>1 DEF Lifecycle!Discard, PhaseOf, Indexed
  <2> QED
    BY <1>0, <2>2 DEF Lifecycle!Disturb
<1>7. CASE doc[d].deleted
  <2>1. Phase(d) = "deleted" /\ Phase(d)' = "deleted"
    BY <1>0, <1>1, <1>7, Phases, PhasesNext
  <2>2. CASE chunks'[d] # {} /\ chunks[d] = {}
    <3>1. PhaseOf' = PhaseOf /\ Indexed' = [Indexed EXCEPT ![d] = TRUE] /\ ~Indexed[d]
      BY <1>0, <1>3, <2>1, <2>2 DEF PhaseOf, Indexed
    <3>2. Lifecycle!StoreLate(d)
      BY <1>0, <2>1, <3>1 DEF Lifecycle!StoreLate, PhaseOf, Indexed
    <3> QED
      BY <1>0, <3>2 DEF Lifecycle!Next
  <2> QED
    BY <1>5, <1>6, <2>1, <2>2
<1>8. CASE ~doc[d].deleted /\ doc'[d].deleted
  <2>1. lock[d] = t /\ txn[t].row.deleted
    BY <1>1, <1>8
  <2>2. t \in Requests
    BY <1>0, <2>1 DEF RecordKnows
  <2>3. chunks'[d] = chunks[d]
    BY <1>1, <1>4, <2>1, <2>2 DEF RequestRow
  <2>4. Phase(d)' = "deleted"
    BY <1>0, <1>8, PhasesNext
  <2>5. PhaseOf' = [PhaseOf EXCEPT ![d] = "deleted"] /\ Indexed' = Indexed
    BY <1>0, <1>1, <2>3, <2>4, OnlyPhaseMoves
  <2>6. Lifecycle!Remove(d)
    BY <1>0, <1>2, <1>8, <2>5
       DEF Lifecycle!Remove, Lifecycle!Move, Lifecycle!Existing, PhaseOf, Indexed
  <2> QED
    BY <1>0, <2>6 DEF Lifecycle!Next
<1>9. CASE ~doc[d].deleted /\ ~doc'[d].deleted
  <2>0. Phase(d) # "absent"
    BY <1>2, <1>9 DEF Lifecycle!Existing
  <2>1. CASE lock[d] # t
    <3>1. Phase(d)' = Phase(d)
      BY <1>1, <2>1 DEF Phase
    <3>2. t \in Workers => chunks'[d] = chunks[d]
      BY <1>0, <1>1, <1>9, <2>1 DEF Inv4, WorkerKnows, Touched
    <3>3. t \in Requests => chunks'[d] \subseteq chunks[d]
      BY <1>1, <1>4
    <3> QED
      BY <1>5, <1>6, <2>0, <3>1, <3>2, <3>3
  <2>2. CASE lock[d] = t /\ doc'[d].status = "ready"
    <3>1. Phase(d)' = "ready"
      BY <1>0, <1>9, <2>2, PhasesNext DEF NonTerminal
    <3>2. CASE t \in Requests
      <4>1. doc[d].status = "ready" /\ txn[t].cleared = {} /\ txn[t].stored = {}
        BY <1>1, <1>4, <2>2, <3>2 DEF RequestRow
      <4>2. Phase(d) = "ready"
        BY <1>0, <1>9, <4>1, Phases DEF NonTerminal
      <4> QED
        BY <1>1, <1>5, <3>1, <4>1, <4>2
    <3>3. CASE t \in Workers
      <4>1. chunks'[d] # {}
        BY <1>0, <1>1, <2>2, <3>3 DEF RecordKnows
      <4>2. PhaseOf' = [PhaseOf EXCEPT ![d] = "ready"] /\ Indexed' = [Indexed EXCEPT ![d] = TRUE]
        BY <1>3, <3>1, <4>1
      <4>3. Lifecycle!Rework(d)
        BY <1>0, <1>2, <1>9, <4>2 DEF Lifecycle!Rework, Lifecycle!Move, PhaseOf, Indexed
      <4> QED
        BY <1>0, <4>3 DEF Lifecycle!Disturb
    <3> QED
      BY <3>2, <3>3
  <2>3. CASE doc'[d].status # "ready"
    <3>1. PICK p \in {"failed", "pending"} : Phase(d)' = p
      BY <1>0, <1>1, <1>9, <2>3, PhasesNext DEF Row, Statuses
    <3>2. /\ PhaseOf' = [PhaseOf EXCEPT ![d] = p]
          /\ \E i \in BOOLEAN : Indexed' = [Indexed EXCEPT ![d] = i]
      BY <1>3, <3>1
    <3>3. Lifecycle!Rework(d)
      BY <1>0, <1>2, <1>9, <3>2 DEF Lifecycle!Rework, Lifecycle!Move, PhaseOf, Indexed
    <3> QED
      BY <1>0, <3>3 DEF Lifecycle!Disturb
  <2> QED
    BY <2>1, <2>2, <2>3
<1> QED
  BY <1>7, <1>8, <1>9

(* Each step of the pipeline is a step of the disturbed lifecycle, or none. *)
LEMMA StepDisturbs ==
  ASSUME Basics, [Next]_vars
  PROVE  [Lifecycle!DisturbedNext]_<<PhaseOf, Indexed>>
<1>0. Inv1 /\ Inv4 /\ AbsentBlank /\ doc \in [Docs -> Row]
  BY DEF Basics, Inv1, DocPart
<1>1. CASE doc' = doc /\ chunks' = chunks
  BY <1>1 DEF PhaseOf, Indexed, Phase
<1>2. ASSUME NEW d \in Docs, PresignUpload(d)
      PROVE  [Lifecycle!DisturbedNext]_<<PhaseOf, Indexed>>
  <2>1. Lifecycle!Create(d)
    BY <1>0, <1>2, PresignCreates
  <2> QED
    BY <2>1 DEF Lifecycle!DisturbedNext, Lifecycle!Next
<1>3. ASSUME NEW r \in Requests, CommitRequest(r)
      PROVE  [Lifecycle!DisturbedNext]_<<PhaseOf, Indexed>>
  BY <1>3, InstallDisturbs DEF CommitRequest
<1>4. ASSUME NEW w \in Workers, CommitJob(w)
      PROVE  [Lifecycle!DisturbedNext]_<<PhaseOf, Indexed>>
  BY <1>4, InstallDisturbs DEF CommitJob
<1>5. ASSUME NEW w \in Workers, GiveUp(w)
      PROVE  [Lifecycle!DisturbedNext]_<<PhaseOf, Indexed>>
  <2>b. txn[w].pc # "idle"
    BY <1>5 DEF GiveUp
  <2>0. txn[w].doc \in Docs
    BY <1>0, <2>b DEF Inv1, TxnPart, TxnWellFormed, Existing
  <2>a. PICK d : d \in Docs /\ d = txn[w].doc
    BY <2>0
  <2> DEFINE row == [doc[d] EXCEPT !.status = "failed", !.stale = FALSE]
  <2>1. d \in Docs /\ doc[d] \in Row /\ doc[d].status # "absent" /\ chunks' = chunks
    BY <1>0, <1>5, <2>a DEF GiveUp, Inv1, TxnPart, TxnWellFormed, Existing
  <2>2. CASE doc' = doc
    BY <1>1, <2>1, <2>2
  <2>3. CASE ~doc[d].deleted /\ doc' = [doc EXCEPT ![d].status = "failed", ![d].stale = FALSE]
    <3>1. row.status = "failed" /\ row.deleted = doc[d].deleted
      BY <2>1 DEF Row
    <3>2. doc' = [doc EXCEPT ![d] = row]
      BY <2>3
    <3> HIDE DEF row
    <3>3. doc'[d] = row /\ \A c \in Docs \ {d} : doc'[c] = doc[c]
      BY <1>0, <2>1, <3>2
    <3>4. Phase(d)' = "failed"
      BY <2>1, <2>3, <3>1, <3>3, PhasesNext DEF NonTerminal
    <3>5. Phase(d) \in Lifecycle!Existing
      BY <2>1, <2>3, Phases DEF Row, Statuses, Lifecycle!Existing
    <3>6. /\ PhaseOf' = [PhaseOf EXCEPT ![d] = "failed"]
          /\ Indexed' = [Indexed EXCEPT ![d] = (chunks'[d] # {})]
      BY <2>1, <3>3, <3>4, OneMoves
    <3>7. Lifecycle!Rework(d)
      BY <2>1, <3>5, <3>6 DEF Lifecycle!Rework, Lifecycle!Move, PhaseOf, Indexed
    <3> QED
      BY <2>1, <3>7 DEF Lifecycle!DisturbedNext, Lifecycle!Disturb
  <2> QED
    BY <1>5, <2>a, <2>2, <2>3 DEF GiveUp
<1>6. ASSUME NEW d \in Docs, GrowStale(d)
      PROVE  UNCHANGED <<PhaseOf, Indexed>>
  BY <1>0, <1>6, GrowStaleMaps
<1> QED
  BY <1>1, <1>2, <1>3, <1>4, <1>5, <1>6, WhoPublishes

(* Whatever requests and jobs of a document overtake each other, and       *)
(* whatever faults strike: a document becomes ready only together with     *)
(* chunks (process_document's one commit), and a deleted one never comes   *)
(* back (get, set_status and confirm_if_unconfirmed filter on deleted_at). *)
THEOREM ImplementsDisturbedLifecycleCorrect == Spec => ImplementsDisturbedLifecycle
<1>1. Basics /\ [Next]_vars => [Lifecycle!DisturbedNext]_<<PhaseOf, Indexed>>
  BY StepDisturbs
<1> QED
  BY <1>1, InitMaps, AlwaysBasics, PTL
     DEF Spec, ImplementsDisturbedLifecycle, Lifecycle!DisturbedSpec, PhaseOf, Indexed

-------------------------------------------------------------------------------
(* NoStrandedDocument, unless a reprocess overtakes a job's success or the *)
(* job itself is lost.  Jobs may overlap, so that a document can have      *)
(* several; what matters is that the last one stays until the row is       *)
(* settled.                                                                *)

Needs(d) == ~doc[d].deleted /\ doc[d].confirmed /\ doc[d].status \in NonTerminal

(* A request is about to commit such a row.                                *)
Will(d) ==
  /\ lock[d] \in Requests
  /\ LET row == txn[lock[d]].row IN
     ~row.deleted /\ row.confirmed /\ row.status \in NonTerminal

(* A job whose worker, if it has one, has to wait for the row lock before  *)
(* it can do anything.  Only such a job survives until a failed row is     *)
(* requeued: with another, the last attempt may end, find the row failed   *)
(* already and change nothing.                                             *)
Untaken(j) ==
  /\ Live(j)
  /\ \A w \in Workers : txn[w].pc # "idle" /\ txn[w].job = j =>
       txn[w].pc = "start" /\ txn[w].view = "failed"

Serves(j, d) == PendingOn(j, d) /\ (Will(d) /\ doc[d].status = "failed" => Untaken(j))

ServedPart == \A d \in Docs : Needs(d) \/ Will(d) => \E j \in JobIds : Serves(j, d)

WillPart == \A d \in Docs : Will(d) => doc[d].status # "ready"

(* An attempt that goes through has written the status it ends with.       *)
ViewKnows(x, row, held) ==
  /\ x.pc = "chunking" => x.view = "chunking" \/ row.deleted
  /\ x.pc \in {"embedding", "clear", "insert", "publish"} => x.view = "embedding" \/ row.deleted
  /\ x.pc = "job_commit" => row.deleted \/ (held /\ x.row.status \in {"ready", "failed"})

ViewsPart ==
  \A w \in Workers : txn[w].pc # "idle" =>
    ViewKnows(txn[w], doc[txn[w].doc], lock[txn[w].doc] = w)

Serving == WorkersApart /\ ViewsPart /\ WillPart /\ ServedPart

Inv6 == FaultsPart /\ (Undisturbed => Serving)

LEMMA Inv6Init == Init => Inv6
<1> SUFFICES ASSUME Init PROVE Inv6
  OBVIOUS
<1>1. \A t \in Txns : txn[t].pc = "idle"
  BY DEF Init, Idle
<1>2. \A d \in Docs : ~doc[d].confirmed /\ lock[d] = None
  BY DEF Init, NoRow
<1>3. FaultsPart
  BY DEF Init, FaultsPart
<1> QED
  BY <1>1, <1>2, <1>3 DEF Inv6, Serving, WorkersApart, ViewsPart, WillPart, ServedPart, Needs, Will

(* A row that nobody but t could have locked is as it was, and so is what  *)
(* a request is about to make of it.                                       *)
LEMMA WillSame ==
  ASSUME Inv1, Inv4, [Next]_vars, NEW t \in Txns, NEW x, Becomes(t, x), OnlyLocksOf(t),
         NEW d \in Docs, lock'[d] # t, Will(d)'
  PROVE  Will(d) /\ doc'[d].status = doc[d].status /\ doc'[d].deleted = doc[d].deleted
<1>1. lock'[d] \in Requests /\ lock'[d] # None /\ lock'[d] = lock[d]
  BY DEF Will, OnlyLocksOf
<1>2. txn'[lock[d]] = txn[lock[d]]
  BY <1>1 DEF Becomes, Inv1, TxnPart
<1> QED
  BY <1>1, <1>2, RowUnderLock DEF Will

(* The view of a worker that does not move stays right.                    *)
LEMMA ViewSame ==
  ASSUME Inv1, Inv4, [Next]_vars, ViewsPart, NEW t \in Txns, OnlyLocksOf(t),
         NEW w \in Workers, w # t, txn'[w] = txn[w], txn[w].pc # "idle"
  PROVE  ViewKnows(txn'[w], doc'[txn'[w].doc], lock'[txn'[w].doc] = w)
<1>1. txn[w].doc \in Docs
  BY DEF Inv1, TxnPart, TxnWellFormed, Existing
<1>2. doc[txn[w].doc].deleted => doc'[txn[w].doc].deleted
  BY <1>1, RowUnderLock
<1>3. lock[txn[w].doc] = w => lock'[txn[w].doc] = w
  BY <1>1 DEF OnlyLocksOf
<1> QED
  BY <1>2, <1>3 DEF ViewsPart, ViewKnows

-------------------------------------------------------------------------------
(* A request moves: either it enqueues a job for its document, or it asks  *)
(* for nothing.                                                            *)

NewJob(d) ==
  \E j \in JobIds : job[j].state = "free" /\ job'[j].state = "queued" /\ job'[j].doc = d

LEMMA RequestServes ==
  ASSUME Inv1, Inv4, [Next]_vars, Serving, NEW r \in Requests, NEW x, x \in Txn, Becomes(r, x),
         OnlyLocksOf(r), \A j \in JobIds : job[j].state # "free" => job'[j] = job[j],
         \A d \in Docs : NewJob(d) \/ doc'[d] = doc[d] \/ (lock[d] = r /\ doc'[d] = txn[r].row),
         \A d \in Docs :
           lock'[d] = r /\ ~x.row.deleted =>
             \/ x.row.status \notin NonTerminal
             \/ NewJob(d) /\ doc'[d].status # "ready"
  PROVE  Serving'
<1>1. /\ r \in Txns /\ r \notin Workers /\ txn'[r] = x
      /\ \A w \in Workers : txn'[w] = txn[w]
      /\ \A w \in Workers : txn[w].pc # "idle" => txn[w].job \in JobIds /\ job[txn[w].job].state # "free"
  BY RequestsOwn DEF Inv1, WorkerHasJob
<1>2. WorkersApart'
  BY <1>1 DEF Serving, WorkersApart
<1>3. ViewsPart'
  BY <1>1, ViewSame DEF Serving, ViewsPart
<1>4. ASSUME NEW d \in Docs, Will(d)'
      PROVE  \/ NewJob(d) /\ doc'[d].status # "ready"
             \/ Will(d) /\ doc'[d].status = doc[d].status
  <2>1. CASE lock'[d] = r
    BY <1>1, <1>4, <2>1 DEF Will
  <2>2. CASE lock'[d] # r
    BY <1>1, <1>4, <2>2, WillSame
  <2> QED
    BY <2>1, <2>2
<1>5. WillPart'
  BY <1>4 DEF WillPart, Serving
<1>6. ASSUME NEW d \in Docs, NewJob(d) PROVE \E j \in JobIds : Serves(j, d)'
  <2>1. PICK j \in JobIds : job[j].state = "free" /\ job'[j].state = "queued" /\ job'[j].doc = d
    BY <1>6 DEF NewJob
  <2>2. \A w \in Workers : txn[w].pc # "idle" => txn'[w].job # j
    BY <1>1, <2>1
  <2>3. PendingOn(j, d)' /\ Untaken(j)'
    BY <1>1, <2>1, <2>2 DEF PendingOn, Pending, Untaken, Live
  <2> QED
    BY <2>3 DEF Serves
<1>7. ASSUME NEW d \in Docs, NEW j \in JobIds, Serves(j, d),
             Will(d)' => Will(d) /\ doc'[d].status = doc[d].status
      PROVE  Serves(j, d)'
  <2>1. job'[j] = job[j]
    BY <1>7 DEF Serves, PendingOn, Pending, Live
  <2>2. PendingOn(j, d)'
    BY <1>1, <1>7, <2>1 DEF Serves, PendingOn, Pending, Live
  <2>3. Untaken(j) => Untaken(j)'
    BY <1>1, <2>1 DEF Untaken, Live
  <2> QED
    BY <1>7, <2>2, <2>3 DEF Serves
<1>8. ServedPart'
  <2> SUFFICES ASSUME NEW d \in Docs, Needs(d)' \/ Will(d)', ~NewJob(d)
               PROVE  \E j \in JobIds : Serves(j, d)'
    BY <1>6 DEF ServedPart
  <2>1. Will(d)' => Will(d) /\ doc'[d].status = doc[d].status
    BY <1>4
  <2>2. Needs(d)' => Needs(d) \/ Will(d)
    BY DEF Needs, Will
  <2>3. PICK j \in JobIds : Serves(j, d)
    BY <2>1, <2>2 DEF Serving, ServedPart
  <2> QED
    BY <1>7, <2>1, <2>3
<1> QED
  BY <1>2, <1>3, <1>5, <1>8 DEF Serving

(* Nobody moves.                                                           *)
LEMMA QuietServes ==
  ASSUME Inv1, Serving, UNCHANGED <<txn, lock>>,
         \A j \in JobIds : /\ job'[j].doc = job[j].doc /\ (Live(j) => Live(j)')
                           /\ job[j].state = "running" => job'[j].state = "running",
         \A d \in Docs : /\ Needs(d)' => Needs(d)
                         /\ doc[d].deleted => doc'[d].deleted
                         /\ doc'[d].status = doc[d].status \/ lock[d] = None
  PROVE  Serving'
<1>1. \A w \in Workers : txn[w].pc # "idle" => txn[w].doc \in Docs /\ txn[w].job \in JobIds
  BY DEF Inv1, TxnPart, TxnWellFormed, Existing, WorkerHasJob
<1>2. WorkersApart' /\ ViewsPart'
  BY <1>1 DEF Serving, WorkersApart, ViewsPart, ViewKnows
<1>3. \A d \in Docs : Will(d)' => Will(d) /\ doc'[d].status = doc[d].status
  BY DEF Will
<1>4. \A j \in JobIds : (Untaken(j) => Untaken(j)') /\ \A d \in Docs : PendingOn(j, d) => PendingOn(j, d)'
  BY DEF Untaken, PendingOn, Pending
<1>5. \A d \in Docs, j \in JobIds : Serves(j, d) => Serves(j, d)'
  BY <1>3, <1>4 DEF Serves
<1> QED
  BY <1>2, <1>3, <1>5 DEF Serving, WillPart, ServedPart

-------------------------------------------------------------------------------
(* A worker moves, with job i of document d.  What has to be known of its  *)
(* step: the document asks for nothing afterwards; or i goes on serving    *)
(* it; or i was not what served it.                                        *)

LEMMA WorkerServes ==
  ASSUME Inv1, Inv4, [Next]_vars, Serving, NEW w \in Workers, NEW x, x \in Txn, Becomes(w, x),
         OnlyLocksOf(w), NEW i \in JobIds, NEW d \in Docs,
         job[i].doc = d, job'[i].doc = d, \A j \in JobIds \ {i} : job'[j] = job[j],
         txn[w].pc = "idle" => job[i].state = "queued",
         txn[w].pc # "idle" => txn[w].job = i /\ txn[w].doc = d,
         x.pc # "idle" => /\ x.job = i /\ x.doc = d /\ job'[i].state = "running"
                          /\ ViewKnows(x, doc'[d], lock'[d] = w),
         \A c \in Docs \ {d} : doc'[c] = doc[c],
         \/ ~Needs(d)' /\ ~Will(d)'
         \/ ~Will(d)' /\ PendingOn(i, d)'
         \/ /\ txn[w].pc # "idle" /\ ~(txn[w].pc = "start" /\ txn[w].view = "failed")
            /\ Needs(d)' \/ (Will(d)' /\ doc'[d].status # "failed") => PendingOn(i, d)'
         \/ /\ x.pc = "start" /\ x.view = doc'[d].status /\ txn[w].pc = "idle"
            /\ PendingOn(i, d)'
         \/ ~PendingOn(i, d) /\ doc' = doc
  PROVE  Serving'
<1>0. /\ w \in Txns /\ w \notin Requests /\ txn'[w] = x /\ \A u \in Txns \ {w} : txn'[u] = txn[u]
  BY DEF Becomes, Inv1, TxnPart
<1>1. \A v \in Workers : txn[v].pc # "idle" => txn[v].job \in JobIds /\ job[txn[v].job].state = "running"
  BY DEF Serving, WorkersApart, Inv1, WorkerHasJob
<1>2. \A v \in Workers \ {w} : txn[v].pc # "idle" => txn[v].job \in JobIds \ {i}
  BY <1>1 DEF Serving, WorkersApart
<1>3. WorkersApart'
  BY <1>0, <1>2 DEF Serving, WorkersApart
<1>4. ViewsPart'
  <2> SUFFICES ASSUME NEW v \in Workers, txn'[v].pc # "idle"
               PROVE  ViewKnows(txn'[v], doc'[txn'[v].doc], lock'[txn'[v].doc] = v)
    BY DEF ViewsPart
  <2>1. CASE v = w
    BY <1>0, <2>1
  <2>2. CASE v # w
    BY <1>0, <2>2, ViewSame DEF Serving
  <2> QED
    BY <2>1, <2>2
<1>5. ASSUME NEW c \in Docs, Will(c)'
      PROVE  Will(c) /\ doc'[c].status = doc[c].status
  <2>1. lock'[c] # w
    BY <1>0, <1>5 DEF Will
  <2> QED
    BY <1>0, <1>5, <2>1, WillSame
<1>6. WillPart'
  BY <1>5 DEF Serving, WillPart
<1>7. ASSUME NEW j \in JobIds, j # i
      PROVE  /\ Untaken(j) => Untaken(j)'
             /\ \A c \in Docs : PendingOn(j, c) => PendingOn(j, c)'
  <2>1. job'[j] = job[j] /\ \A v \in Workers : txn'[v] = txn[v] \/ txn'[v].pc = "idle" \/ txn'[v].job # j
    BY <1>0, <1>7
  <2> QED
    BY <2>1 DEF Untaken, PendingOn, Pending, Live
<1>8. ASSUME NEW c \in Docs, NEW j \in JobIds, j # i, Serves(j, c) PROVE Serves(j, c)'
  BY <1>5, <1>7, <1>8 DEF Serves
<1>9. ASSUME NEW c \in Docs, c # d, Needs(c)' \/ Will(c)' PROVE \E j \in JobIds : Serves(j, c)'
  <2>1. Needs(c) \/ Will(c)
    BY <1>5, <1>9 DEF Needs
  <2>2. PICK j \in JobIds : Serves(j, c)
    BY <2>1 DEF Serving, ServedPart
  <2>3. j # i
    BY <1>9, <2>2 DEF Serves, PendingOn
  <2> QED
    BY <1>8, <2>2, <2>3
<1>10. ASSUME Needs(d)' \/ Will(d)' PROVE \E j \in JobIds : Serves(j, d)'
  <2>1. CASE ~Will(d)' /\ PendingOn(i, d)'
    BY <2>1 DEF Serves
  <2>2. CASE /\ txn[w].pc # "idle" /\ ~(txn[w].pc = "start" /\ txn[w].view = "failed")
             /\ Needs(d)' \/ (Will(d)' /\ doc'[d].status # "failed") => PendingOn(i, d)'
    <3>1. CASE Will(d)' /\ doc'[d].status = "failed"
      <4>1. Will(d) /\ doc[d].status = "failed"
        BY <1>5, <3>1
      <4>2. PICK j \in JobIds : Serves(j, d)
        BY <4>1 DEF Serving, ServedPart
      <4>3. j # i
        BY <2>2, <4>1, <4>2 DEF Serves, Untaken
      <4> QED
        BY <1>8, <4>2, <4>3
    <3>2. CASE ~(Will(d)' /\ doc'[d].status = "failed")
      BY <1>10, <2>2, <3>2 DEF Serves
    <3> QED
      BY <3>1, <3>2
  <2>3. CASE /\ x.pc = "start" /\ x.view = doc'[d].status /\ txn[w].pc = "idle"
             /\ PendingOn(i, d)'
    <3>1. doc'[d].status = "failed" => Untaken(i)'
      BY <1>0, <1>2, <2>3 DEF Untaken, PendingOn, Pending
    <3> QED
      BY <2>3, <3>1 DEF Serves
  <2>4. CASE ~PendingOn(i, d) /\ doc' = doc
    <3>1. Needs(d) \/ Will(d)
      BY <1>5, <1>10, <2>4 DEF Needs
    <3>2. PICK j \in JobIds : Serves(j, d)
      BY <3>1 DEF Serving, ServedPart
    <3>3. j # i
      BY <2>4, <3>2 DEF Serves
    <3> QED
      BY <1>8, <3>2, <3>3
  <2> QED
    BY <1>10, <2>1, <2>2, <2>3, <2>4
<1>11. ServedPart'
  BY <1>9, <1>10 DEF ServedPart
<1> QED
  BY <1>3, <1>4, <1>6, <1>11 DEF Serving

(* What is known of a worker in the middle of a job.                       *)
LEMMA AtWork ==
  ASSUME Inv1, Inv4, Serving, NEW w \in Workers, txn[w].pc # "idle"
  PROVE  /\ txn[w] \in Txn /\ txn[w].job \in JobIds /\ txn[w].doc \in Docs
         /\ job[txn[w].job].doc = txn[w].doc /\ job[txn[w].job].state = "running"
         /\ ViewKnows(txn[w], doc[txn[w].doc], lock[txn[w].doc] = w)
         /\ RecordKnows(w, txn[w]) /\ WorkerKnows(w, txn[w], lock, doc)
  BY DEF Inv1, TxnPart, TxnWellFormed, Existing, WorkerHasJob, Inv4, Serving, WorkersApart, ViewsPart

(* In that middle only its own record and lock change.                     *)
LEMMA MiddleServes ==
  ASSUME Inv1, Inv4, [Next]_vars, Serving, NEW w \in Workers, NEW x, x \in Txn, Becomes(w, x),
         OnlyLocksOf(w), txn[w].pc # "idle", UNCHANGED <<doc, job>>,
         x.pc \notin {"idle", "ack"}, x.doc = txn[w].doc, x.job = txn[w].job,
         ViewKnows(x, doc[txn[w].doc], lock'[txn[w].doc] = w),
         \A d \in Docs :
           txn[w].pc = "start" /\ txn[w].view = "failed" /\ txn[w].doc = d => ~Will(d)'
  PROVE  Serving'
<1>1. /\ txn[w].job \in JobIds /\ txn[w].doc \in Docs
      /\ job[txn[w].job].doc = txn[w].doc /\ job[txn[w].job].state = "running"
  BY AtWork
<1>2. PICK i \in JobIds : i = txn[w].job
  BY <1>1
<1>3. PICK d \in Docs : d = txn[w].doc
  BY <1>1
<1>4. txn'[w] = x /\ \A v \in Workers \ {w} : txn'[v] = txn[v] /\ (txn[v].pc # "idle" => txn[v].job # i)
  BY <1>2 DEF Becomes, Inv1, TxnPart, Serving, WorkersApart
<1>5. PendingOn(i, d)'
  BY <1>1, <1>2, <1>3, <1>4 DEF PendingOn, Pending, Live
<1> QED
  BY <1>1, <1>2, <1>3, <1>5, WorkerServes

(* set_status and the flush, as a worker calls them.                       *)
LEMMA WorkerSets ==
  ASSUME Inv1, Inv4, NEW w \in Workers, txn[w].pc # "idle", NEW s \in Statuses, NEW next \in PCs,
         SetStatus(w, s, next)
  PROVE  /\ OnlyLocksOf(w)
         /\ \E x \in Txn :
              /\ Becomes(w, x) /\ x.pc = next /\ x.doc = txn[w].doc /\ x.job = txn[w].job
              /\ \/ doc[txn[w].doc].deleted
                 \/ txn[w].view = s /\ x.view = s
                 \/ lock'[txn[w].doc] = w /\ x.view = s /\ x.row.status = s
<1>1. w \in Txns /\ txn[w] \in Txn /\ txn[w].doc \in Docs /\ RecordKnows(w, txn[w])
  BY DEF Inv4, Inv1, TxnPart, TxnWellFormed, Existing
<1>2. OnlyLocksOf(w)
  BY <1>1, OwnLock DEF SetStatus
<1>3. CASE (Seen(w).deleted \/ txn[w].view = s) /\ Goto(w, next)
  <2> DEFINE x == [txn[w] EXCEPT !.pc = next]
  <2>1. x \in Txn /\ x.pc = next /\ x.doc = txn[w].doc /\ x.job = txn[w].job /\ x.view = txn[w].view
    BY <1>1 DEF Txn, PCs
  <2>2. Becomes(w, x)
    BY <1>3 DEF Goto
  <2>3. doc[txn[w].doc].deleted \/ txn[w].view = s
    BY <1>1, <1>3 DEF Seen, RecordKnows
  <2> HIDE DEF x
  <2> QED
    BY <1>2, <2>1, <2>2, <2>3
<1>4. CASE /\ lock' = [lock EXCEPT ![txn[w].doc] = w]
           /\ Becomes(w, [txn[w] EXCEPT !.pc = next, !.view = s,
                            !.row = [Seen(w) EXCEPT !.status = s, !.stale = FALSE]])
  <2> DEFINE row == [Seen(w) EXCEPT !.status = s, !.stale = FALSE]
             x == [txn[w] EXCEPT !.pc = next, !.view = s, !.row = row]
  <2>1. row \in Row /\ row.status = s
    BY SeenRow, StatusRow
  <2>2. Becomes(w, x)
    BY <1>4
  <2> HIDE DEF row
  <2>3. /\ x \in Txn /\ x.pc = next /\ x.doc = txn[w].doc /\ x.job = txn[w].job
        /\ x.row.status = s /\ x.view = s
    BY <1>1, <2>1 DEF Txn, PCs
  <2> HIDE DEF x
  <2>4. lock'[txn[w].doc] = w
    BY <1>1, <1>4 DEF Inv1, TxnPart
  <2> QED
    BY <1>2, <2>2, <2>3, <2>4
<1> QED
  BY <1>3, <1>4 DEF SetStatus, Goto

LEMMA SetStatusServes ==
  ASSUME Inv1, Inv4, [Next]_vars, Serving, NEW w \in Workers, NEW s \in Statuses, NEW next \in PCs,
         SetStatus(w, s, next), UNCHANGED <<doc, job>>,
         \/ txn[w].pc = "start" /\ s = "extracting" /\ next = "extracting"
         \/ txn[w].pc = "extracting" /\ s = "chunking" /\ next = "chunking"
         \/ txn[w].pc = "chunking" /\ s = "embedding" /\ next = "embedding"
         \/ /\ txn[w].pc \in {"extracting", "chunking"} /\ s = "failed" /\ next = "job_commit"
         \/ txn[w].pc = "publish" /\ s = "ready" /\ next = "job_commit"
  PROVE  Serving'
<1>1. /\ txn[w].pc # "idle" /\ txn[w].doc \in Docs
      /\ ViewKnows(txn[w], doc[txn[w].doc], lock[txn[w].doc] = w)
      /\ WorkerKnows(w, txn[w], lock, doc)
  BY AtWork
<1>2. PICK x \in Txn :
        /\ Becomes(w, x) /\ x.pc = next /\ x.doc = txn[w].doc /\ x.job = txn[w].job
        /\ \/ doc[txn[w].doc].deleted
           \/ txn[w].view = s /\ x.view = s
           \/ lock'[txn[w].doc] = w /\ x.view = s /\ x.row.status = s
  BY <1>1, WorkerSets
<1>3. OnlyLocksOf(w) /\ w \notin Requests
  BY <1>1, WorkerSets
<1>4. ViewKnows(x, doc[txn[w].doc], lock'[txn[w].doc] = w)
  BY <1>1, <1>2 DEF ViewKnows, WorkerKnows
<1>5. ASSUME NEW d \in Docs, txn[w].pc = "start", txn[w].view = "failed", txn[w].doc = d
      PROVE  ~Will(d)'
  <2>1. CASE doc[d].deleted
    <3>1. lock[d] = None
      BY <2>1 DEF Inv4, LocksKnow
    <3>2. lock'[d] \in {None, w}
      BY <1>3, <3>1 DEF OnlyLocksOf
    <3> QED
      BY <1>3, <3>2 DEF Will
  <2>2. CASE lock'[d] = w
    BY <1>3, <2>2 DEF Will
  <2> QED
    BY <1>2, <1>5, <2>1, <2>2
<1> QED
  BY <1>1, <1>2, <1>3, <1>4, <1>5, MiddleServes

LEMMA WorkerStepServes ==
  ASSUME Inv1, Inv4, [Next]_vars, Serving, NEW w \in Workers, WorkerStep(w)
  PROVE  Serving'
<1>0. w \in Txns /\ w \notin Requests
  OBVIOUS
<1>a. \A d \in Docs : lock[d] # None => ~doc[d].deleted
  BY DEF Inv4, LocksKnow
<1>b. \A c \in Docs : lock[c] = w => txn[w].doc = c /\ txn[w].pc \notin Unlocked
  BY DEF Inv1, TxnPart, LockWellFormed
<1>c. ASSUME NEW x \in Txn, Becomes(w, x)
      PROVE  txn'[w] = x /\ \A v \in Txns \ {w} : txn'[v] = txn[v]
  BY <1>c DEF Becomes, Inv1, TxnPart
<1>1. CASE StartExtracting(w) \/ (Extract(w) /\ ~Goto(w, "raise")) \/ Chunk(w) \/ Publish(w)
  BY <1>1, SetStatusServes, Names DEF StartExtracting, Extract, Chunk, Publish, At
<1>2. ASSUME NEW pc \in {"raise", "clear", "abort"}, Goto(w, pc), UNCHANGED <<doc, job>>,
             txn[w].pc \in {"extracting", "embedding", "insert"},
             pc = "clear" => txn[w].pc = "embedding"
      PROVE  Serving'
  <2> DEFINE x == [txn[w] EXCEPT !.pc = pc]
  <2>0. txn[w] \in Txn /\ txn[w].pc # "idle" /\ ViewKnows(txn[w], doc[txn[w].doc], lock[txn[w].doc] = w)
    BY <1>2, AtWork
  <2>1. /\ x \in Txn /\ x.pc = pc /\ x.doc = txn[w].doc /\ x.job = txn[w].job
        /\ x.row = txn[w].row /\ x.view = txn[w].view
    BY <2>0, Names DEF Txn, PCs
  <2>2. Becomes(w, x) /\ lock' = lock /\ OnlyLocksOf(w)
    BY <1>2 DEF Goto, OnlyLocksOf
  <2> HIDE DEF x
  <2>3. ViewKnows(x, doc[txn[w].doc], lock'[txn[w].doc] = w)
    BY <1>2, <2>0, <2>1, <2>2 DEF ViewKnows
  <2> QED
    BY <1>2, <2>0, <2>1, <2>2, <2>3, MiddleServes
<1>3. CASE (Extract(w) /\ Goto(w, "raise")) \/ Embed(w)
  BY <1>2, <1>3 DEF Extract, Embed, At
<1>4. CASE ClearChunks(w) \/ (InsertChunks(w) /\ ~Goto(w, "abort"))
  <2>0. txn[w].pc \in {"clear", "insert"} /\ UNCHANGED <<doc, job, lock>>
    BY <1>4 DEF ClearChunks, DeleteChunks, InsertChunks, At
  <2>1. txn[w] \in Txn /\ txn[w].pc # "idle" /\ ViewKnows(txn[w], doc[txn[w].doc], lock[txn[w].doc] = w)
        /\ txn[w].job \in JobIds /\ txn[w].doc \in Docs
    BY <2>0, AtWork
  <2>2. PICK x \in Txn :
          /\ Becomes(w, x) /\ x.pc \in {"insert", "publish"} /\ x.doc = txn[w].doc
          /\ x.job = txn[w].job /\ x.view = txn[w].view
    <3>1. CASE ClearChunks(w)
      <4> DEFINE x == [txn[w] EXCEPT !.pc = "insert", !.cleared = chunks[txn[w].doc]]
      <4>1. chunks[txn[w].doc] \in SUBSET JobIds
        BY <2>1 DEF Inv1, RestPart
      <4>2. x \in Txn /\ x.pc = "insert" /\ x.doc = txn[w].doc /\ x.job = txn[w].job /\ x.view = txn[w].view
        BY <2>1, <4>1, Names DEF Txn, PCs
      <4>3. Becomes(w, x)
        BY <3>1 DEF ClearChunks, DeleteChunks
      <4> HIDE DEF x
      <4> QED
        BY <4>2, <4>3
    <3>2. CASE InsertChunks(w) /\ ~Goto(w, "abort")
      <4> DEFINE x == [txn[w] EXCEPT !.pc = "publish", !.stored = {txn[w].job}]
      <4>2. x \in Txn /\ x.pc = "publish" /\ x.doc = txn[w].doc /\ x.job = txn[w].job /\ x.view = txn[w].view
        BY <2>1, Names DEF Txn, PCs
      <4>3. Becomes(w, x)
        BY <3>2 DEF InsertChunks
      <4> HIDE DEF x
      <4> QED
        BY <4>2, <4>3
    <3> QED
      BY <1>4, <3>1, <3>2
  <2>3. ViewKnows(x, doc[txn[w].doc], lock'[txn[w].doc] = w) /\ OnlyLocksOf(w)
    BY <2>0, <2>1, <2>2 DEF ViewKnows, OnlyLocksOf
  <2> QED
    BY <2>0, <2>1, <2>2, <2>3, MiddleServes
<1>5. CASE InsertChunks(w) /\ Goto(w, "abort")
  BY <1>2, <1>5 DEF InsertChunks, At
<1>6. ASSUME NEW j \in JobIds, TakeJob(w, j) PROVE Serving'
  <2> DEFINE pc == IF doc[job[j].doc].deleted \/ doc[job[j].doc].status = "ready" THEN "ack" ELSE "start"
  <2>1. /\ Becomes(w, Begin(pc, job[j].doc, j, doc[job[j].doc].status)) /\ UNCHANGED <<doc, lock>>
        /\ txn[w].pc = "idle" /\ job[j].state = "queued"
        /\ job' = [job EXCEPT ![j].state = "running", ![j].attempts = @ + 1]
    BY <1>6 DEF TakeJob
  <2>2. PICK d \in Docs : d = job[j].doc
    BY <2>1 DEF Inv1, JobPart, JobWellFormed, Existing
  <2>3. doc[d].status \in Statuses /\ pc \in {"ack", "start"} /\ pc \in PCs
    BY <2>1, <2>2, Names DEF Inv1, JobPart, JobWellFormed, Existing, DocPart, Row
  <2>4. pc = "ack" => doc[d].deleted \/ doc[d].status = "ready"
    BY <2>2
  <2> HIDE DEF pc
  <2>5. /\ job'[j].state = "running" /\ job'[j].doc = d
        /\ \A i \in JobIds \ {j} : job'[i] = job[i]
    BY <2>1, <2>2 DEF Inv1, JobPart, Job
  <2>6. PICK x \in Txn : /\ Becomes(w, x) /\ x.pc = pc /\ x.doc = d /\ x.job = j
                         /\ x.view = doc[d].status
    <3> DEFINE b == Begin(pc, d, j, doc[d].status)
    <3>1. b \in Txn /\ b.pc = pc /\ b.doc = d /\ b.job = j
      BY <2>3, BeginRecord
    <3>2. b.view = doc[d].status
      BY DEF Begin, Idle
    <3>3. Becomes(w, b)
      BY <2>1, <2>2
    <3> HIDE DEF b
    <3> QED
      BY <3>1, <3>2, <3>3
  <2>7. \A v \in Workers : txn[v].pc # "idle" => txn[v].job # j
    BY <2>1 DEF Serving, WorkersApart
  <2>8. pc = "start" => PendingOn(j, d)'
    BY <1>c, <2>5, <2>6, <2>7 DEF PendingOn, Pending, Live
  <2>9. pc = "ack" => ~Needs(d)' /\ ~Will(d)'
    <3>1. doc[d].status = "ready" => ~Needs(d)'
      BY <2>1 DEF Needs, NonTerminal
    <3>2. doc[d].deleted => ~Needs(d)'
      BY <2>1 DEF Needs
    <3>3. Will(d)' => Will(d)
      BY <1>0, <1>c, <2>1, <2>6 DEF Will
    <3>4. Will(d) => ~doc[d].deleted /\ doc[d].status # "ready"
      BY <1>a DEF Will, Serving, WillPart
    <3> QED
      BY <2>4, <3>1, <3>2, <3>3, <3>4
  <2>10. ViewKnows(x, doc'[d], lock'[d] = w) /\ OnlyLocksOf(w)
    BY <2>1, <2>3, <2>6 DEF ViewKnows, OnlyLocksOf
  <2>11. doc'[d] = doc[d] /\ \A c \in Docs \ {d} : doc'[c] = doc[c]
    BY <2>1
  <2> QED
    BY <2>1, <2>2, <2>3, <2>5, <2>6, <2>8, <2>9, <2>10, <2>11, WorkerServes
<1>7. ASSUME txn[w].pc # "idle", NEW pc \in {"callback", "ack"}, Becomes(w, Ended(w, pc)),
             UNCHANGED job, lock' = Released(w),
             \A c \in Docs : c # txn[w].doc => doc'[c] = doc[c],
             \/ pc = "callback" /\ txn[w].pc # "start"
             \/ \A d \in Docs : d = txn[w].doc => ~Needs(d)' /\ ~Will(d)'
      PROVE  Serving'
  <2>1. PICK x \in Txn : /\ Becomes(w, x) /\ x.pc = pc /\ x.doc = txn[w].doc /\ x.job = txn[w].job
    BY <1>7, EndedRecord, Names
  <2>2. PICK i \in JobIds : i = txn[w].job
    BY <1>7, AtWork
  <2>3. PICK d \in Docs : d = txn[w].doc
    BY <1>7, AtWork
  <2>4. job[i].doc = d /\ job[i].state = "running"
    BY <1>7, <2>2, <2>3, AtWork
  <2>5. OnlyLocksOf(w)
    BY <1>0, <1>7, LocksSame
  <2>6. ViewKnows(x, doc'[d], lock'[d] = w)
    BY <1>7, <2>1 DEF ViewKnows
  <2>7. pc = "callback" => PendingOn(i, d)'
    <3>1. \A v \in Workers \ {w} : txn[v].pc # "idle" => txn[v].job # i
      BY <1>7, <2>2 DEF Serving, WorkersApart
    <3> QED
      BY <1>7, <1>c, <2>1, <2>4, <3>1 DEF PendingOn, Pending, Live
  <2> QED
    BY <1>7, <2>1, <2>2, <2>3, <2>4, <2>5, <2>6, <2>7, WorkerServes
<1>8. CASE CommitJob(w)
  <2>1. /\ txn[w].pc \in {"job_commit", "raise"} /\ Install(w) /\ UNCHANGED job
        /\ Becomes(w, Ended(w, IF txn[w].pc = "raise" THEN "callback" ELSE "ack"))
    BY <1>8 DEF CommitJob
  <2>2. \A c \in Docs : c # txn[w].doc => doc'[c] = doc[c]
    BY <1>0, <2>1, InstallDoes
  <2>3. CASE txn[w].pc = "raise"
    BY <1>7, <2>1, <2>2, <2>3 DEF Install
  <2>4. CASE txn[w].pc = "job_commit"
    <3> SUFFICES ASSUME NEW d \in Docs, d = txn[w].doc PROVE ~Needs(d)' /\ ~Will(d)'
      BY <1>7, <2>1, <2>2, <2>4 DEF Install
    <3>1. doc[d].deleted \/ (lock[d] = w /\ txn[w].row.status \in {"ready", "failed"})
      BY <2>1, <2>4, AtWork DEF ViewKnows
    <3>2. /\ lock[d] = w => doc'[d] = txn[w].row
          /\ lock[d] # w => doc'[d] = doc[d]
          /\ lock'[d] = IF lock[d] = w THEN None ELSE lock[d]
      BY <1>0, <2>1, InstallDoes
    <3>3. CASE lock[d] = w
      BY <1>a, <3>1, <3>2, <3>3 DEF Needs, Will, NonTerminal
    <3>4. CASE lock[d] # w
      BY <1>a, <3>1, <3>2, <3>4 DEF Needs, Will
    <3> QED
      BY <3>3, <3>4
  <2> QED
    BY <2>1, <2>3, <2>4
<1>9. CASE RollBackJob(w)
  BY <1>7, <1>9 DEF RollBackJob, Discard
<1>10. ASSUME NEW s \in {"retry", "finished", "failed"}, txn[w].pc \in {"callback", "ack"}, Becomes(w, Idle), UNCHANGED lock,
              job' = [job EXCEPT ![txn[w].job].state = s],
              \A c \in Docs : c # txn[w].doc => doc'[c] = doc[c],
              \/ txn[w].pc = "callback" /\ s = "retry"
              \/ txn[w].pc = "ack" /\ doc' = doc
              \/ \A d \in Docs : d = txn[w].doc => ~Needs(d)' /\ (Will(d)' => doc'[d].status = "failed")
       PROVE  Serving'
  <2>1. txn[w].pc # "idle"
    BY <1>10
  <2>2. PICK i \in JobIds : i = txn[w].job
    BY <2>1, AtWork
  <2>3. PICK d \in Docs : d = txn[w].doc
    BY <2>1, AtWork
  <2>4. job[i].doc = d /\ job'[i].doc = d /\ (s = "retry" => job'[i].state = "retry")
        /\ \A j \in JobIds \ {i} : job'[j] = job[j]
    BY <1>10, <2>1, <2>2, <2>3, AtWork DEF Inv1, JobPart, Job
  <2>5. OnlyLocksOf(w)
    BY <1>10 DEF OnlyLocksOf
  <2>6. s = "retry" => PendingOn(i, d)'
    <3>1. \A v \in Workers \ {w} : txn[v].pc # "idle" => txn[v].job # i
      BY <2>1, <2>2 DEF Serving, WorkersApart
    <3> QED
      BY <1>10, <1>c, <2>4, <3>1, IdleRecord DEF PendingOn, Pending, Live
  <2>7. txn[w].pc = "ack" => ~PendingOn(i, d)
    BY <2>2 DEF PendingOn, Pending
  <2>8. \/ txn[w].pc = "callback" /\ s = "retry"
        \/ txn[w].pc = "ack" /\ doc' = doc
        \/ ~Needs(d)' /\ (Will(d)' => doc'[d].status = "failed")
    BY <1>10, <2>3
  <2> QED
    BY <1>10, <2>1, <2>2, <2>3, <2>4, <2>5, <2>6, <2>7, <2>8, IdleRecord, WorkerServes
<1>11. CASE RetryLater(w)
  BY <1>10, <1>11 DEF RetryLater
<1>12. CASE FinishJob(w)
  BY <1>10, <1>12 DEF FinishJob
<1>13. CASE GiveUp(w)
  <2>0. /\ txn[w].pc = "callback" /\ Becomes(w, Idle) /\ UNCHANGED lock
        /\ job' = [job EXCEPT ![txn[w].job].state = "failed"]
    BY <1>13 DEF GiveUp
  <2>1. PICK d \in Docs : d = txn[w].doc
    BY <2>0, AtWork
  <2>2. \/ /\ doc[d].deleted \/ doc[d].status = "failed"
           /\ doc' = doc
        \/ /\ ~doc[d].deleted /\ lock[d] = None
           /\ doc' = [doc EXCEPT ![d].status = "failed", ![d].stale = FALSE]
    BY <1>13, <2>1 DEF GiveUp
  <2>3. /\ \A c \in Docs \ {d} : doc'[c] = doc[c]
        /\ \/ doc'[d] = doc[d] /\ (doc[d].deleted \/ doc[d].status = "failed")
           \/ doc'[d].status = "failed" /\ lock[d] = None
    BY <2>2 DEF Inv1, DocPart, Row
  <2>4. ~Needs(d)' /\ (Will(d)' => doc'[d].status = "failed")
    BY <1>a, <2>0, <2>3 DEF Needs, Will, NonTerminal
  <2>5. \A c \in Docs : c # txn[w].doc => doc'[c] = doc[c]
    BY <2>1, <2>3
  <2>6. \A c \in Docs : c = txn[w].doc => ~Needs(c)' /\ (Will(c)' => doc'[c].status = "failed")
    BY <2>1, <2>4
  <2> QED
    BY <1>10, <2>0, <2>5, <2>6
<1> QED
  BY <1>1, <1>3, <1>4, <1>5, <1>6, <1>8, <1>9, <1>11, <1>12, <1>13 DEF WorkerStep

LEMMA RequestStepServes ==
  ASSUME Basics, [Next]_vars, NotOvertaken, FaultsPart, Undisturbed', Serving,
         NEW r \in Requests, RequestStep(r)
  PROVE  Serving'
<1>0. /\ r \in Txns /\ Inv1 /\ Inv4 /\ txn[r] \in Txn
      /\ lock \in [Docs -> Txns \cup {None}] /\ r # None
  BY DEF Basics, Inv1, TxnPart
<1>a. ASSUME txn[r].pc # "request_commit" PROVE \A d \in Docs : lock[d] # r
  BY <1>0, <1>a DEF Inv4, LocksKnow
<1>b. txn[r].pc # "idle" => txn[r].doc \in Docs
  BY <1>0 DEF Inv1, TxnPart, TxnWellFormed, Existing
<1>1. ASSUME NEW x \in Txn, Becomes(r, x), UNCHANGED <<doc, job>>, OnlyLocksOf(r),
             \A d \in Docs : lock'[d] = r => x.row.deleted
      PROVE  Serving'
  BY <1>0, <1>1, RequestServes
<1>c. lock' = lock => OnlyLocksOf(r)
  BY DEF OnlyLocksOf
<1>d. Discard(r) => doc' = doc /\ OnlyLocksOf(r) /\ \A d \in Docs : lock'[d] # r
  BY <1>0, LocksSame DEF Discard
<1>2. ASSUME NEW d \in Docs, ConfirmRead(r, d) \/ ReprocessRead(r, d) PROVE Serving'
  <2>1. PICK pc \in {"confirm", "reprocess"} : Becomes(r, Begin(pc, d, None, doc[d].status))
    BY <1>2 DEF ConfirmRead, ReprocessRead
  <2>2. txn[r].pc = "idle" /\ lock' = lock /\ UNCHANGED <<doc, job>> /\ doc[d].status \in Statuses
    BY <1>0, <1>2 DEF ConfirmRead, ReprocessRead, Present, Inv1, DocPart, Row
  <2>3. Begin(pc, d, None, doc[d].status) \in Txn
    BY <2>2, BeginRecord, Names
  <2> QED
    BY <1>1, <1>a, <1>c, <2>1, <2>2, <2>3
<1>3. CASE ConfirmLost(r)
  BY <1>1, <1>a, <1>c, <1>3, IdleRecord DEF ConfirmLost
<1>4. CASE ReprocessGone(r) \/ AbortRequest(r)
  BY <1>1, <1>d, <1>4, IdleRecord DEF ReprocessGone, AbortRequest
<1>5. CASE ReprocessClear(r)
  <2> DEFINE x == [txn[r] EXCEPT !.pc = "requeue", !.cleared = chunks[txn[r].doc]]
  <2>1. Becomes(r, x) /\ txn[r].pc = "reprocess" /\ lock' = lock /\ UNCHANGED <<doc, job>>
    BY <1>5 DEF ReprocessClear, DeleteChunks
  <2>2. chunks[txn[r].doc] \in SUBSET JobIds
    BY <1>0, <1>b, <2>1 DEF Inv1, RestPart
  <2>3. x \in Txn
    BY <1>0, <2>2, Names DEF Txn, PCs
  <2> HIDE DEF x
  <2> QED
    BY <1>1, <1>a, <1>c, <2>1, <2>3
<1>6. ASSUME NEW d \in Docs, DeleteDocument(r, d) PROVE Serving'
  <2> DEFINE row == [doc[d] EXCEPT !.deleted = TRUE, !.stale = FALSE]
             b == Begin("request_commit", d, None, doc[d].status)
             x == [b EXCEPT !.row = row]
  <2>1. /\ lock[d] = None /\ lock' = [lock EXCEPT ![d] = r] /\ txn[r].pc = "idle"
        /\ UNCHANGED <<doc, job>> /\ doc[d] \in Row /\ doc[d].status \in Statuses
    BY <1>0, <1>6 DEF DeleteDocument, Present, Inv1, DocPart, Row
  <2>2. row \in Row /\ row.deleted
    BY <2>1 DEF Row
  <2>3. b \in Txn
    BY <2>1, BeginRecord, Names
  <2>4. Becomes(r, x)
    BY <1>6 DEF DeleteDocument
  <2> HIDE DEF row, b
  <2>5. x \in Txn /\ x.row.deleted
    BY <2>2, <2>3 DEF Txn
  <2> HIDE DEF x
  <2>6. OnlyLocksOf(r)
    BY <1>0, <2>1, OwnLock
  <2> QED
    BY <1>1, <2>1, <2>4, <2>5, <2>6
<1>7. ASSUME NEW d \in Docs, Enqueue(d)
      PROVE  NewJob(d) /\ \A j \in JobIds : job[j].state # "free" => job'[j] = job[j]
  <2>1. ~Suffer("outage")
    BY <1>0, FaultSpends DEF FaultKinds
  <2> QED
    BY <1>0, <1>7, <2>1, EnqueueDoes DEF NewJob
<1>8. ASSUME NEW d \in Docs, Enqueue(d), d = txn[r].doc, NEW x \in Txn, Becomes(r, x),
             UNCHANGED doc, OnlyLocksOf(r), \A c \in Docs : lock'[c] = r => c = d,
             lock'[d] = r => doc[d].status # "ready" \/ x.row.status \notin NonTerminal
      PROVE  Serving'
  BY <1>0, <1>7, <1>8, RequestServes
<1>9. CASE ConfirmWrite(r)
  <2>0. PICK d \in Docs : d = txn[r].doc
    BY <1>9, <1>b DEF ConfirmWrite
  <2> DEFINE row == [doc[d] EXCEPT !.confirmed = TRUE, !.stale = FALSE]
             x == [txn[r] EXCEPT !.pc = "request_commit", !.adds = 1, !.row = row]
  <2>1. /\ Becomes(r, x) /\ txn[r].pc = "confirm" /\ UNCHANGED doc /\ Enqueue(d)
        /\ lock[d] = None /\ lock' = [lock EXCEPT ![d] = r]
    BY <1>9, <2>0 DEF ConfirmWrite
  <2>a. doc[d] \in Row
    BY <1>0 DEF Inv1, DocPart
  <2>2. row \in Row /\ row.status = doc[d].status
    BY <2>a DEF Row
  <2> HIDE DEF row
  <2>3. x \in Txn /\ x.row = row
    BY <1>0, <2>2, Names DEF Txn, PCs
  <2>4. Becomes(r, x)
    BY <2>1
  <2> HIDE DEF x
  <2>5. OnlyLocksOf(r) /\ \A c \in Docs : lock'[c] = r => c = d
    BY <1>0, <1>a, <2>1, OwnLock
  <2>6. doc[d].status # "ready" \/ x.row.status \notin NonTerminal
    BY <2>2, <2>3 DEF NonTerminal
  <2> QED
    BY <1>8, <2>0, <2>1, <2>3, <2>4, <2>5, <2>6
<1>10. CASE ReprocessEnqueue(r)
  <2>1. /\ SetStatus(r, "queued", "request_commit") /\ txn[r].pc = "requeue"
        /\ Enqueue(txn[r].doc) /\ UNCHANGED doc
    BY <1>10 DEF ReprocessEnqueue
  <2>2. PICK d \in Docs : d = txn[r].doc
    BY <1>b, <2>1
  <2>3. CASE Becomes(r, [txn[r] EXCEPT !.pc = "request_commit"]) /\ UNCHANGED lock
    <3>1. [txn[r] EXCEPT !.pc = "request_commit"] \in Txn
      BY <1>0, Names DEF Txn, PCs
    <3> QED
      BY <1>8, <1>a, <1>c, <2>1, <2>2, <2>3, <3>1
  <2>4. CASE /\ txn[r].view # "queued" /\ lock[d] \in {None, r} /\ lock' = [lock EXCEPT ![d] = r]
             /\ Becomes(r, [txn[r] EXCEPT !.pc = "request_commit", !.view = "queued",
                              !.row = [Seen(r) EXCEPT !.status = "queued", !.stale = FALSE]])
    <3> DEFINE row == [Seen(r) EXCEPT !.status = "queued", !.stale = FALSE]
               x == [txn[r] EXCEPT !.pc = "request_commit", !.view = "queued", !.row = row]
    <3>1. row \in Row
      BY <1>0, <2>1, SeenRow, StatusRow, Names
    <3>2. Becomes(r, x)
      BY <2>4
    <3> HIDE DEF row
    <3>3. x \in Txn
      BY <1>0, <3>1, Names DEF Txn, PCs
    <3> HIDE DEF x
    <3>4. OnlyLocksOf(r) /\ \A c \in Docs : lock'[c] = r => c = d
      BY <1>0, <1>a, <2>1, <2>4, OwnLock
    <3>5. doc[d].status # "ready"
      BY <1>10, <2>2, <2>4 DEF NotOvertaken
    <3> QED
      BY <1>8, <2>1, <2>2, <3>2, <3>3, <3>4, <3>5
  <2> QED
    BY <2>1, <2>2, <2>3, <2>4 DEF SetStatus
<1>11. CASE CommitRequest(r)
  <2>1. txn[r].pc = "request_commit" /\ Install(r) /\ Becomes(r, Idle) /\ UNCHANGED job
    BY <1>11 DEF CommitRequest
  <2>2. \A d \in Docs : doc'[d] = doc[d] \/ (lock[d] = r /\ doc'[d] = txn[r].row)
    BY <1>0, <2>1, InstallDoes
  <2>3. OnlyLocksOf(r) /\ \A d \in Docs : lock'[d] # r
    BY <1>0, <2>1, LocksSame DEF Install
  <2> QED
    BY <1>0, <2>1, <2>2, <2>3, IdleRecord, RequestServes
<1> QED
  BY <1>2, <1>3, <1>4, <1>5, <1>6, <1>9, <1>10, <1>11 DEF RequestStep

LEMMA BreakDeadlockServes ==
  ASSUME Inv1, Inv4, [Next]_vars, Serving, NEW r \in Requests, NEW w \in Workers, BreakDeadlock(r, w)
  PROVE  Serving'
<1>1. /\ r \in Txns /\ w \in Txns /\ UNCHANGED <<doc, job>> /\ txn[w].pc \in {"clear", "insert"}
  BY DEF BreakDeadlock, Discard
<1>2. CASE Discard(r) /\ Becomes(r, Idle)
  <2>1. OnlyLocksOf(r) /\ \A d \in Docs : lock'[d] # r
    BY <1>1, <1>2, LocksSame DEF Discard
  <2> QED
    BY <1>1, <1>2, <2>1, IdleRecord, RequestServes
<1>3. CASE Discard(w) /\ Becomes(w, Ended(w, "callback"))
  <2>1. OnlyLocksOf(w)
    BY <1>1, <1>3, LocksSame DEF Discard
  <2>2. Ended(w, "callback") \in Txn /\ Ended(w, "callback").pc = "callback"
        /\ Ended(w, "callback").doc = txn[w].doc /\ Ended(w, "callback").job = txn[w].job
    BY <1>1, EndedRecord, Names
  <2>3. ViewKnows(Ended(w, "callback"), doc[txn[w].doc], lock'[txn[w].doc] = w)
    BY <2>2 DEF ViewKnows
  <2> QED
    BY <1>1, <1>3, <2>1, <2>2, <2>3, MiddleServes
<1> QED
  BY <1>2, <1>3 DEF BreakDeadlock

LEMMA QuietStepServes ==
  ASSUME Basics, Serving,
         \/ UNCHANGED vars
         \/ \E d \in Docs : ClientStep(d)
         \/ \E j \in JobIds : RetryDue(j)
  PROVE  Serving'
<1>0. Inv1 /\ doc \in [Docs -> Row] /\ job \in [JobIds -> Job]
  BY DEF Basics, Inv1, DocPart, JobPart
<1>1. CASE UNCHANGED <<doc, txn, lock, job>>
  BY <1>0, <1>1, QuietServes DEF Needs, Live
<1>2. ASSUME NEW d \in Docs, PresignUpload(d) PROVE Serving'
  <2>1. /\ UNCHANGED <<txn, lock, job>> /\ doc[d] = NoRow /\ lock[d] = None
        /\ doc' = [doc EXCEPT ![d].status = "queued"]
    BY <1>0, <1>2 DEF PresignUpload, Basics, AbsentBlank, Inv1, TxnPart, LockWellFormed,
       TxnWellFormed, Existing, Unlocked
  <2>2. ~doc'[d].confirmed /\ \A c \in Docs \ {d} : doc'[c] = doc[c]
    BY <1>0, <2>1 DEF NoRow, Row
  <2>3. ~doc[d].deleted
    BY <2>1 DEF NoRow
  <2> QED
    BY <1>0, <2>1, <2>2, <2>3, QuietServes DEF Needs, Live
<1>3. ASSUME NEW d \in Docs, GrowStale(d) PROVE Serving'
  <2>1. UNCHANGED <<txn, lock, job>> /\ doc' = [doc EXCEPT ![d].stale = TRUE]
    BY <1>3 DEF GrowStale
  <2>2. \A c \in Docs : /\ doc'[c].status = doc[c].status /\ doc'[c].deleted = doc[c].deleted
                        /\ doc'[c].confirmed = doc[c].confirmed
    BY <1>0, <2>1 DEF Row
  <2> QED
    BY <1>0, <2>1, <2>2, QuietServes DEF Needs, Live
<1>4. ASSUME NEW j \in JobIds, RetryDue(j) PROVE Serving'
  <2>1. /\ UNCHANGED <<doc, txn, lock>> /\ job[j].state = "retry"
        /\ job'[j].state = "queued" /\ job'[j].doc = job[j].doc
        /\ \A i \in JobIds \ {j} : job'[i] = job[i]
    BY <1>0, <1>4 DEF RetryDue, Job
  <2> QED
    BY <1>0, <2>1, QuietServes DEF Needs, Live
<1> QED
  BY <1>1, <1>2, <1>3, <1>4 DEF vars, ClientStep, PutObject

LEMMA FaultsOnlySpent ==
  ASSUME Inv1, FaultsPart, [Next]_vars
  PROVE  Spent
<1>1. CASE faultsLeft' = faultsLeft
  BY <1>1 DEF FaultsPart, Spent, Undisturbed
<1>2. ASSUME NEW k \in FaultKinds, Suffer(k) PROVE Spent
  BY <1>2, FaultSpends
<1>3. faultsLeft' = faultsLeft \/ \E k \in FaultKinds : Suffer(k)
  BY DEF Next, vars, ClientStep, PresignUpload, PutObject, GrowStale, RequestStep, ConfirmRead,
     ReprocessRead, DeleteDocument, ConfirmLost, ConfirmWrite, ReprocessClear, DeleteChunks,
     ReprocessEnqueue, ReprocessGone, CommitRequest, AbortRequest, Enqueue, WorkerStep, TakeJob,
     StartExtracting, Extract, Chunk, Embed, ClearChunks, InsertChunks, Publish, At, CommitJob,
     RollBackJob, RetryLater, GiveUp, FinishJob, CrashWorker, TimeOutJob, RetryDue, BreakDeadlock,
     FaultKinds
<1> QED
  BY <1>1, <1>2, <1>3

LEMMA Inv6Step == Basics /\ Inv6 /\ [Next]_vars /\ [NotOvertaken]_vars => Inv6'
<1> SUFFICES ASSUME Basics, Inv6, [Next]_vars, [NotOvertaken]_vars PROVE Inv6'
  OBVIOUS
<1>1. Inv1 /\ Inv4 /\ FaultsPart /\ Spent
  BY FaultsOnlySpent DEF Basics, Inv6
<1>2. ASSUME Undisturbed' PROVE Serving'
  <2>0. Serving
    BY <1>1, <1>2 DEF Inv6, Spent
  <2>1. CASE \/ UNCHANGED vars
             \/ \E d \in Docs : ClientStep(d)
             \/ \E j \in JobIds : RetryDue(j)
    BY <2>0, <2>1, QuietStepServes
  <2>2. ASSUME NEW r \in Requests, RequestStep(r), NotOvertaken PROVE Serving'
    BY <1>1, <1>2, <2>0, <2>2, RequestStepServes
  <2>3. ASSUME NEW w \in Workers, WorkerStep(w) PROVE Serving'
    BY <1>1, <2>0, <2>3, WorkerStepServes
  <2>4. \A w \in Workers : ~CrashWorker(w) /\ ~TimeOutJob(w)
    BY <1>1, <1>2, FaultSpends DEF CrashWorker, TimeOutJob, FaultKinds
  <2>5. ASSUME NEW r \in Requests, NEW w \in Workers, BreakDeadlock(r, w) PROVE Serving'
    BY <1>1, <2>0, <2>5, BreakDeadlockServes
  <2> QED
    BY <2>1, <2>2, <2>3, <2>4, <2>5 DEF Next
<1> QED
  BY <1>1, <1>2 DEF Inv6, Spent

(* As long as no crash, timeout or Redis outage has struck, and no         *)
(* reprocess requeues a document that has become ready since, a confirmed  *)
(* document that is still being processed has a job that will move it,     *)
(* however many requests overlap, die before their commit or find rows     *)
(* stale, and however many jobs of one document run side by side (the      *)
(* enqueue that precedes the commit of confirm_upload and                  *)
(* reprocess_document is never consumed to no effect).                     *)
THEOREM NoStrandedDocumentCorrect ==
  Spec /\ [][NotOvertaken]_vars => [](Undisturbed => NoStrandedDocument)
<1>1. Inv6 => (Undisturbed => NoStrandedDocument)
  BY DEF Inv6, Serving, ServedPart, Serves, Needs, PendingOn, Pending, NoStrandedDocument, Present
<1>2. Init => Basics /\ Inv6
  BY BasicsInit, Inv6Init
<1>3. (Basics /\ Inv6) /\ [Next]_vars /\ [NotOvertaken]_vars => (Basics /\ Inv6)'
  BY BasicsStep, Inv6Step
<1> QED
  BY <1>1, <1>2, <1>3, PTL DEF Spec
===============================================================================

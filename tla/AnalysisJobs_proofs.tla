------------------------- MODULE AnalysisJobs_proofs -------------------------
(***************************************************************************)
(* Proofs about AnalysisJobs, for any analyses and corrections, any retry  *)
(* limit and any number of faults.                                         *)
(***************************************************************************)
EXTENDS AnalysisJobs, TLAPS

USE AnalysisAssumption DEF AnalysisAssumption

-------------------------------------------------------------------------------
(* The inductive invariant.                                                *)

(* The places of an attempt that has found its row processing and has not  *)
(* committed yet: the row still is, in the database and in the session.    *)
Attempting == {"graph", "check", "store", "commit", "raise", "abort"}

AttemptKnows(a) ==
  /\ run[a].pc \in Attempting => /\ row[a].status = "processing"
                                 /\ run[a].view.status = "processing"
  /\ run[a].pc = "store" => run[a].target \in {Outcome("completed"), Outcome("failed")}

(* A row lock is held by the row's own run, past set_result, or by a       *)
(* correction that has flushed.                                            *)
LockKnows(a) ==
  lock[a] # None =>
    \/ /\ lock[a] = a
       /\ run[a].pc \in {"commit", "raise", "abort"}
       /\ run[a].written.status \in Terminal
    \/ /\ lock[a] \in Corrections
       /\ patch[lock[a]].pc = "written"
       /\ patch[lock[a]].of = a

(* A worker is at work exactly while RQ calls the job running; nothing     *)
(* exists of an analysis before its request, and no row before the         *)
(* request's commit; and what the failure callback has loaded has not been *)
(* undone.                                                                 *)
AnalysisKnows(a) ==
  /\ job[a].state = "running" <=> run[a].pc # "idle"
  /\ create[a] = "none" => job[a].state = "none"
  /\ create[a] # "done" => row[a].status = "absent"
  /\ AttemptKnows(a)
  /\ LockKnows(a)
  /\ run[a].pc = "mark" =>
       /\ run[a].view.status = "failed" => row[a].status = "failed"
       /\ run[a].view.status # "absent" => row[a].status # "absent"

(* A correction is of an extraction that exists, and what it has flushed   *)
(* under the row lock leaves the status as it is.                          *)
PatchKnows(c) ==
  LET a == patch[c].of IN
  /\ patch[c].pc \in {"read", "written"} =>
       a \in Analyses /\ Kind[a] = "extraction" /\ row[a].status # "absent"
  /\ patch[c].pc = "written" =>
       lock[a] = c /\ patch[c].written.status = row[a].status

(* Of the kinds that are not corrected, a row shows the model's output or, *)
(* unless it is completed, nothing ...                                     *)
Produced(r) == r.result = IF r.status = "completed" THEN {"model"} ELSE {}

(* ... and so do the versions that a run holds of it.                      *)
OutputKnows(a) ==
  Kind[a] # "extraction" =>
    /\ Produced(row[a])
    /\ run[a].pc \in Attempting => Produced(run[a].view)
    /\ lock[a] = a => Produced(run[a].written)
    /\ run[a].pc = "mark" /\ run[a].view.status # "absent" => run[a].view = row[a]

Inv1 == /\ TypeOK
        /\ \A a \in Analyses : AnalysisKnows(a) /\ OutputKnows(a)
        /\ \A c \in Corrections : PatchKnows(c)

-------------------------------------------------------------------------------
(* Records.                                                                *)

LEMMA Rows ==
  /\ NoRow \in Row /\ NoRow.status = "absent" /\ NoRow.result = {}
  /\ Outcome("completed") \in Row /\ Outcome("completed").status = "completed"
  /\ Outcome("completed").result = {"model"}
  /\ Outcome("failed") \in Row /\ Outcome("failed").status = "failed"
  /\ Outcome("failed").result = {}
  BY DEF NoRow, Row, Outcome, Terminal

LEMMA FlushedRow ==
  ASSUME NEW r \in Row, NEW view \in Row, NEW new \in Row
  PROVE  /\ Flushed(r, view, new) \in Row
         /\ Flushed(r, view, new).status = IF new.status = view.status THEN r.status ELSE new.status
         /\ Flushed(r, view, new).result = IF new.result = view.result THEN r.result ELSE new.result
  BY DEF Flushed, Row

LEMMA IdleRunRecord == IdleRun \in Run /\ IdleRun.pc = "idle"
  BY Rows DEF IdleRun, Run, RunPCs

(* One run moves to the record x; the others stay where they are.          *)
RunBecomes(a, x) ==
  /\ run' \in [Analyses -> Run]
  /\ run'[a] = x
  /\ \A b \in Analyses \ {a} : run'[b] = run[b]

LEMMA RunStep ==
  ASSUME TypeOK, NEW a \in Analyses, NEW x \in Run, run' = [run EXCEPT ![a] = x]
  PROVE  RunBecomes(a, x)
  BY DEF TypeOK, RunBecomes

(* A step that only moves the program counter.                             *)
Moved(a, pc) ==
  /\ run' \in [Analyses -> Run]
  /\ run'[a].pc = pc
  /\ run'[a].view = run[a].view
  /\ run'[a].written = run[a].written
  /\ run'[a].target = run[a].target
  /\ \A b \in Analyses \ {a} : run'[b] = run[b]

LEMMA ToStep ==
  ASSUME TypeOK, NEW a \in Analyses, NEW pc \in RunPCs, To(a, pc)
  PROVE  Moved(a, pc)
<1> DEFINE x == [run[a] EXCEPT !.pc = pc]
<1>1. /\ x \in Run /\ x.pc = pc
      /\ x.view = run[a].view /\ x.written = run[a].written /\ x.target = run[a].target
  BY DEF TypeOK, Run
<1>2. RunBecomes(a, x)
  BY <1>1, RunStep DEF To
<1> QED
  BY <1>1, <1>2 DEF RunBecomes, Moved

(* A run that has just loaded its row.                                     *)
LEMMA LoadStep ==
  ASSUME TypeOK, NEW a \in Analyses, NEW pc \in RunPCs,
         run' = [run EXCEPT ![a] = [IdleRun EXCEPT !.pc = pc, !.view = row[a]]]
  PROVE  RunBecomes(a, run'[a]) /\ run'[a].pc = pc /\ run'[a].view = row[a]
<1> DEFINE x == [IdleRun EXCEPT !.pc = pc, !.view = row[a]]
<1>1. x \in Run /\ x.pc = pc /\ x.view = row[a]
  BY Rows DEF TypeOK, IdleRun, Run
<1>2. RunBecomes(a, x)
  BY <1>1, RunStep
<1> QED
  BY <1>1, <1>2 DEF RunBecomes

JobBecomes(a, state) ==
  /\ job' \in [Analyses -> Job]
  /\ job'[a].state = state
  /\ \A b \in Analyses \ {a} : job'[b] = job[b]

JobStates == {"none", "queued", "running", "retry", "finished", "failed", "lost"}

LEMMA JobStep ==
  ASSUME TypeOK, NEW a \in Analyses, NEW state \in JobStates,
         job' = [job EXCEPT ![a].state = state]
  PROVE  JobBecomes(a, state)
  BY DEF TypeOK, JobBecomes, Job, JobStates

LEMMA LeaveStep ==
  ASSUME TypeOK, NEW a \in Analyses, NEW state \in JobStates, Leave(a, state)
  PROVE  JobBecomes(a, state) /\ RunBecomes(a, IdleRun)
  BY JobStep, RunStep, IdleRunRecord DEF Leave

LEMMA SufferStep ==
  ASSUME TypeOK, NEW kind \in FaultKinds, Suffer(kind)
  PROVE  faultsLeft' \in [FaultKinds -> Nat]
  BY DEF TypeOK, Suffer

(* The end of a session leaves the row as it was or as the run wrote it.   *)
LEMMA EndStep ==
  ASSUME TypeOK, NEW a \in Analyses, LockKnows(a), Install(a) \/ Discard(a)
  PROVE  /\ row' \in [Analyses -> Row]
         /\ lock' \in [Analyses -> Analyses \cup Corrections \cup {None}]
         /\ \A b \in Analyses \ {a} : row'[b] = row[b] /\ lock'[b] = lock[b]
         /\ lock'[a] = IF lock[a] = a THEN None ELSE lock[a]
         /\ Discard(a) => row' = row
         /\ Install(a) => row'[a] = IF lock[a] = a THEN run[a].written ELSE row[a]
  BY DEF TypeOK, Install, Discard, Run

-------------------------------------------------------------------------------
(* A step of one analysis keeps what is known of the others, and of the    *)
(* corrections of this one if it respects their row lock.                  *)

Elsewhere(a) ==
  \A b \in Analyses \ {a} :
    /\ row'[b] = row[b] /\ create'[b] = create[b] /\ job'[b] = job[b]
    /\ run'[b] = run[b] /\ lock'[b] = lock[b]

Respectful(a) ==
  /\ row[a].status # "absent" => row'[a].status # "absent"
  /\ lock[a] \in Corrections => lock'[a] = lock[a] /\ row'[a].status = row[a].status

(* What OutcomeIsFinal says of a step, for one analysis and for all.       *)
OutcomeStays(a) ==
  /\ row[a].status \in Terminal => row'[a].status \in Terminal
  /\ row[a].status = "failed" => row'[a].status = "failed"

OutcomesStay == \A a \in Analyses : OutcomeStays(a)

LEMMA AnalysisStep ==
  ASSUME Inv1, NEW a \in Analyses, TypeOK', patch' = patch, Elsewhere(a), Respectful(a),
         AnalysisKnows(a)', OutputKnows(a)', OutcomeStays(a)
  PROVE  Inv1' /\ OutcomesStay
<1>1. ASSUME NEW b \in Analyses PROVE AnalysisKnows(b)' /\ OutputKnows(b)'
  BY <1>1 DEF Inv1, AnalysisKnows, AttemptKnows, LockKnows, OutputKnows, Produced, Elsewhere
<1>2. OutcomesStay
  BY DEF OutcomesStay, OutcomeStays, Elsewhere
<1>3. ASSUME NEW c \in Corrections PROVE PatchKnows(c)'
  BY <1>3 DEF Inv1, PatchKnows, Elsewhere, Respectful
<1> QED
  BY <1>1, <1>3, <1>2 DEF Inv1

-------------------------------------------------------------------------------
(* The API.                                                                *)

LEMMA CreateInv1 ==
  ASSUME Inv1, NEW a \in Analyses, CreateStep(a) PROVE Inv1' /\ OutcomesStay
<1> USE DEF Inv1
<1>1. CASE CreateAnalysis(a)
  <2> USE <1>1 DEF CreateAnalysis
  <2>1. /\ create' \in [Analyses -> {"none", "open", "done"}] /\ create'[a] = "open"
        /\ \A b \in Analyses \ {a} : create'[b] = create[b]
    BY DEF TypeOK
  <2>2. job' = job \/ JobBecomes(a, "queued")
    BY JobStep DEF JobStates
  <2>3. faultsLeft' \in [FaultKinds -> Nat]
    BY SufferStep DEF TypeOK, FaultKinds
  <2>4. TypeOK' /\ Elsewhere(a) /\ Respectful(a)
    BY <2>1, <2>2, <2>3 DEF TypeOK, Elsewhere, Respectful, JobBecomes
  <2>5. AnalysisKnows(a)'
    BY <2>1, <2>2 DEF AnalysisKnows, AttemptKnows, LockKnows, JobBecomes
  <2>6. OutputKnows(a)' /\ OutcomeStays(a)
    BY <2>1, <2>2
       DEF OutputKnows, Produced, OutcomeStays, JobBecomes
  <2> QED
    BY <2>4, <2>5, <2>6, AnalysisStep
<1>2. CASE CommitCreate(a)
  <2> USE <1>2 DEF CommitCreate
  <2>1. /\ create' \in [Analyses -> {"none", "open", "done"}] /\ create'[a] = "done"
        /\ \A b \in Analyses \ {a} : create'[b] = create[b]
    BY DEF TypeOK
  <2>2. /\ row' \in [Analyses -> Row] /\ row'[a].status = "processing"
        /\ \A b \in Analyses \ {a} : row'[b] = row[b]
    BY SMTT(30) DEF TypeOK, Row
  <2>3. row[a].status = "absent"
    BY DEF AnalysisKnows
  <2>4. lock[a] \notin Corrections
    BY <2>3 DEF AnalysisKnows, LockKnows, PatchKnows
  <2>5. TypeOK' /\ Elsewhere(a) /\ Respectful(a)
    BY <2>1, <2>2, <2>3, <2>4 DEF TypeOK, Elsewhere, Respectful
  <2>6. AnalysisKnows(a)'
    BY <2>1, <2>2, <2>3 DEF AnalysisKnows, AttemptKnows, LockKnows
  <2>7. OutputKnows(a)' /\ OutcomeStays(a)
    BY <2>1, <2>2, <2>3
       DEF AnalysisKnows, AttemptKnows, LockKnows, OutputKnows, Produced, OutcomeStays, Terminal
  <2> QED
    BY <2>5, <2>6, <2>7, AnalysisStep
<1>3. CASE AbortCreate(a)
  <2> USE <1>3 DEF AbortCreate
  <2>1. /\ create' \in [Analyses -> {"none", "open", "done"}] /\ create'[a] = "done"
        /\ \A b \in Analyses \ {a} : create'[b] = create[b]
    BY DEF TypeOK
  <2>2. faultsLeft' \in [FaultKinds -> Nat]
    BY SufferStep DEF FaultKinds
  <2>3. TypeOK' /\ Elsewhere(a) /\ Respectful(a)
    BY <2>1, <2>2 DEF TypeOK, Elsewhere, Respectful
  <2>4. AnalysisKnows(a)'
    BY <2>1 DEF AnalysisKnows, AttemptKnows, LockKnows
  <2>5. OutputKnows(a)' /\ OutcomeStays(a)
    BY <2>1
       DEF AnalysisKnows, AttemptKnows, LockKnows, OutputKnows, Produced, OutcomeStays, Terminal
  <2> QED
    BY <2>3, <2>4, <2>5, AnalysisStep
<1> QED
  BY <1>1, <1>2, <1>3 DEF CreateStep

(* One correction moves to the record x.                                   *)
PatchBecomes(c, x) ==
  /\ patch' \in [Corrections -> Patch]
  /\ patch'[c] = x
  /\ \A d \in Corrections \ {c} : patch'[d] = patch[d]

LEMMA PatchInv1 ==
  ASSUME Inv1, NEW c \in Corrections, PatchStep(c) PROVE Inv1' /\ OutcomesStay
<1> USE DEF Inv1
<1> DEFINE a == patch[c].of
<1>1. ASSUME NEW b \in Analyses, ReadForPatch(c, b) PROVE Inv1' /\ OutcomesStay
  <2> USE <1>1 DEF ReadForPatch
  <2> DEFINE x == [NewPatch EXCEPT !.pc = "read", !.of = b, !.view = row[b]]
  <2>1. x \in Patch /\ x.pc = "read" /\ x.of = b
    BY Rows DEF TypeOK, NewPatch, Patch
  <2>2. PatchBecomes(c, x)
    BY <2>1 DEF TypeOK, PatchBecomes
  <2>3. TypeOK'
    BY <2>2 DEF TypeOK, PatchBecomes
  <2>4. ASSUME NEW d \in Analyses PROVE AnalysisKnows(d)' /\ OutputKnows(d)' /\ OutcomeStays(d)
    BY <2>2, <2>4
       DEF AnalysisKnows, AttemptKnows, LockKnows, OutputKnows, Produced, OutcomeStays, PatchBecomes
  <2>5. ASSUME NEW d \in Corrections PROVE PatchKnows(d)'
    BY <2>1, <2>2, <2>5 DEF PatchKnows, PatchBecomes
  <2> QED
    BY <2>3, <2>4, <2>5 DEF OutcomesStay
<1>2. CASE WritePatch(c)
  <2> USE <1>2 DEF WritePatch
  <2> DEFINE new == [patch[c].view EXCEPT !.result = @ \cup {c}]
             flushed == Flushed(row[a], patch[c].view, new)
             x == [patch[c] EXCEPT !.pc = "written", !.written = flushed]
  <2>1. /\ a \in Analyses /\ Kind[a] = "extraction" /\ row[a].status # "absent"
        /\ patch[c].view \in Row /\ row[a] \in Row
    BY DEF PatchKnows, TypeOK, Patch
  <2>2. new \in Row /\ new.status = patch[c].view.status
    BY <2>1 DEF Row
  <2>3. /\ x \in Patch /\ x.pc = "written" /\ x.of = a
        /\ x.written.status = row[a].status
    <3>1. flushed \in Row /\ flushed.status = row[a].status
      <4> HIDE DEF new
      <4> QED
        BY <2>1, <2>2, FlushedRow
    <3>2. patch[c] \in Patch
      BY DEF TypeOK
    <3> HIDE DEF flushed
    <3> QED
      BY <3>1, <3>2 DEF Patch
  <2>4. PatchBecomes(c, x)
    BY <2>3 DEF TypeOK, PatchBecomes
  <2>5. /\ lock' \in [Analyses -> Analyses \cup Corrections \cup {None}]
        /\ lock[a] = None /\ lock'[a] = c
        /\ \A b \in Analyses \ {a} : lock'[b] = lock[b]
    BY <2>1 DEF TypeOK
  <2>6. TypeOK'
    BY <2>4, <2>5 DEF TypeOK, PatchBecomes
  <2>7. ASSUME NEW d \in Analyses PROVE AnalysisKnows(d)' /\ OutputKnows(d)' /\ OutcomeStays(d)
    BY <2>3, <2>4, <2>5, <2>7, SMTT(30)
       DEF AnalysisKnows, AttemptKnows, LockKnows, OutputKnows, Produced, OutcomeStays, PatchBecomes
  <2>8. ASSUME NEW d \in Corrections PROVE PatchKnows(d)'
    BY <2>1, <2>3, <2>4, <2>5, <2>8, SMTT(30) DEF PatchKnows, PatchBecomes
  <2> QED
    BY <2>6, <2>7, <2>8 DEF OutcomesStay
<1>3. CASE CommitPatch(c)
  <2> USE <1>3 DEF CommitPatch
  <2> DEFINE x == [patch[c] EXCEPT !.pc = "done"]
  <2>1. /\ a \in Analyses /\ Kind[a] = "extraction" /\ row[a].status # "absent" /\ lock[a] = c
        /\ patch[c].written \in Row /\ patch[c].written.status = row[a].status
    BY DEF PatchKnows, TypeOK, Patch
  <2>2. PatchBecomes(c, x) /\ x.pc = "done"
    BY DEF TypeOK, Patch, PatchBecomes
  <2>3. /\ lock' \in [Analyses -> Analyses \cup Corrections \cup {None}] /\ lock'[a] = None
        /\ row' \in [Analyses -> Row] /\ row'[a].status = row[a].status
        /\ \A b \in Analyses \ {a} : lock'[b] = lock[b] /\ row'[b] = row[b]
    BY <2>1 DEF TypeOK
  <2>4. TypeOK'
    BY <2>2, <2>3 DEF TypeOK, PatchBecomes
  <2>5. ASSUME NEW d \in Analyses PROVE AnalysisKnows(d)' /\ OutputKnows(d)' /\ OutcomeStays(d)
    BY <2>1, <2>2, <2>3, <2>5, SMTT(30)
       DEF AnalysisKnows, AttemptKnows, LockKnows, OutputKnows, Produced, OutcomeStays, PatchBecomes
  <2>6. ASSUME NEW d \in Corrections PROVE PatchKnows(d)'
    BY <2>1, <2>2, <2>3, <2>6 DEF PatchKnows, PatchBecomes
  <2> QED
    BY <2>4, <2>5, <2>6 DEF OutcomesStay
<1> QED
  BY <1>1, <1>2, <1>3 DEF PatchStep

-------------------------------------------------------------------------------
(* The worker.                                                             *)

LEMMA WorkerInv1 ==
  ASSUME Inv1, NEW a \in Analyses, WorkerStep(a) PROVE Inv1' /\ OutcomesStay
<1> USE DEF Inv1
<1>1. CASE TakeJob(a)
  <2> USE <1>1 DEF TakeJob
  <2>1. PICK pc \in {"graph", "ack"} :
          /\ run' = [run EXCEPT ![a] = [IdleRun EXCEPT !.pc = pc, !.view = row[a]]]
          /\ pc = "graph" => row[a].status = "processing"
    OBVIOUS
  <2>2. RunBecomes(a, run'[a]) /\ run'[a].pc = pc /\ run'[a].view = row[a]
    BY ZenonT(60), <2>1, LoadStep DEF RunPCs
  <2>3. JobBecomes(a, "running")
    BY DEF TypeOK, Job, JobBecomes
  <2>4. TypeOK' /\ Elsewhere(a) /\ Respectful(a)
    BY <2>2, <2>3 DEF TypeOK, Elsewhere, Respectful, RunBecomes, JobBecomes
  <2>5. run[a].pc = "idle" /\ create[a] # "none"
    BY DEF AnalysisKnows
  <2>6. AnalysisKnows(a)'
    BY <2>1, <2>2, <2>3, <2>5
       DEF AnalysisKnows, AttemptKnows, LockKnows, Attempting, RunBecomes, JobBecomes
  <2>7. OutputKnows(a)' /\ OutcomeStays(a)
    BY <2>1, <2>2, <2>3, <2>5
       DEF AnalysisKnows, AttemptKnows, LockKnows, Attempting, RunBecomes, JobBecomes,
           OutputKnows, Produced, OutcomeStays, Terminal
  <2> QED
    BY <2>4, <2>6, <2>7, AnalysisStep
<1>2. CASE DraftOutput(a)
  <2> USE <1>2 DEF DraftOutput
  <2>1. PICK pc \in {"check", "raise"} : To(a, pc)
    OBVIOUS
  <2>2. Moved(a, pc)
    BY <2>1, ToStep DEF RunPCs
  <2>3. TypeOK' /\ Elsewhere(a) /\ Respectful(a)
    BY <2>2 DEF TypeOK, Elsewhere, Respectful, Moved
  <2>4. AnalysisKnows(a)'
    BY <2>2 DEF AnalysisKnows, AttemptKnows, LockKnows, Attempting, Moved
  <2>5. OutputKnows(a)' /\ OutcomeStays(a)
    BY <2>2
       DEF OutputKnows, Produced, OutcomeStays, Attempting, Moved
  <2> QED
    BY <2>3, <2>4, <2>5, AnalysisStep
<1>3. CASE RouteDraft(a)
  <2> USE <1>3 DEF RouteDraft
  <2>1. PICK x \in Run : /\ run' = [run EXCEPT ![a] = x]
                         /\ x.pc \in {"store", "graph", "raise"}
                         /\ x.view = run[a].view
                         /\ x.pc = "store" =>
                              x.target \in {Outcome("completed"), Outcome("failed")}
    <3>1. run[a] \in Run
      BY DEF TypeOK
    <3>2. CASE \E status \in {"completed", "failed"} : Decide(a, status)
      <4>1. PICK status \in {"completed", "failed"} : Decide(a, status)
        BY <3>2
      <4> DEFINE x == [run[a] EXCEPT !.pc = "store", !.target = Outcome(status)]
      <4>2. Outcome(status) \in Row
        BY Rows
      <4>3. x \in Run /\ x.pc = "store" /\ x.view = run[a].view /\ x.target = Outcome(status)
        BY <3>1, <4>2 DEF Run, RunPCs
      <4>4. run' = [run EXCEPT ![a] = x]
        BY <4>1 DEF Decide
      <4> QED
        BY <4>3, <4>4
    <3>3. CASE run' = [run EXCEPT ![a].pc = "graph", ![a].rejected = run[a].rejected + 1]
      <4> DEFINE x == [run[a] EXCEPT !.pc = "graph", !.rejected = run[a].rejected + 1]
      <4>1. x \in Run /\ x.pc = "graph" /\ x.view = run[a].view
        <5>1. run[a].rejected + 1 \in Nat
          BY <3>1 DEF Run
        <5> QED
          BY <3>1, <5>1 DEF Run, RunPCs
      <4>2. run' = [run EXCEPT ![a] = x]
        BY <3>3
      <4> QED
        BY <4>1, <4>2
    <3>4. CASE To(a, "raise")
      <4> DEFINE x == [run[a] EXCEPT !.pc = "raise"]
      <4>1. x \in Run /\ x.pc = "raise" /\ x.view = run[a].view
        BY <3>1 DEF Run, RunPCs
      <4>2. run' = [run EXCEPT ![a] = x]
        BY <3>4 DEF To
      <4> QED
        BY <4>1, <4>2
    <3> QED
      BY <3>2, <3>3, <3>4
  <2>2. RunBecomes(a, x)
    BY <2>1, RunStep
  <2>3. TypeOK' /\ Elsewhere(a) /\ Respectful(a)
    BY <2>2 DEF TypeOK, Elsewhere, Respectful, RunBecomes
  <2>4. AnalysisKnows(a)'
    BY <2>1, <2>2 DEF AnalysisKnows, AttemptKnows, LockKnows, Attempting, RunBecomes
  <2>5. OutputKnows(a)' /\ OutcomeStays(a)
    BY <2>1, <2>2
       DEF AnalysisKnows, AttemptKnows, LockKnows, Attempting, RunBecomes,
           OutputKnows, Produced, OutcomeStays, Terminal
  <2> QED
    BY <2>3, <2>4, <2>5, AnalysisStep
<1>4. CASE StoreOutcome(a)
  <2> USE <1>4 DEF StoreOutcome
  <2> DEFINE flushed == Flushed(row[a], run[a].view, run[a].target)
             x == [run[a] EXCEPT !.pc = "commit", !.written = flushed]
  <2>1. /\ run[a].view.status = "processing"
        /\ run[a].target \in {Outcome("completed"), Outcome("failed")}
        /\ run[a] \in Run /\ run[a].view \in Row /\ run[a].target \in Row /\ row[a] \in Row
    BY DEF AnalysisKnows, AttemptKnows, Attempting, TypeOK, Run
  <2>2. flushed \in Row /\ flushed.status \in Terminal
    BY <2>1, FlushedRow, Rows DEF Terminal
  <2>3. Kind[a] # "extraction" => Produced(flushed)
    <3>1. SUFFICES ASSUME Kind[a] # "extraction" PROVE Produced(flushed)
      OBVIOUS
    <3>2. row[a].status = "processing"
      BY DEF AnalysisKnows, AttemptKnows, Attempting
    <3>3. row[a].result = {} /\ run[a].view.result = {}
      BY <2>1, <3>1, <3>2 DEF OutputKnows, Produced, Attempting
    <3>4. /\ flushed.status = run[a].target.status
          /\ flushed.result = run[a].target.result
      <4>1. /\ flushed.status = IF run[a].target.status = run[a].view.status
                                THEN row[a].status ELSE run[a].target.status
            /\ flushed.result = IF run[a].target.result = run[a].view.result
                                THEN row[a].result ELSE run[a].target.result
        BY <2>1, FlushedRow
      <4> HIDE DEF flushed
      <4> QED
        BY <2>1, <3>3, <4>1, Rows
    <3> HIDE DEF flushed
    <3> QED
      BY <2>1, <3>4, Rows DEF Produced
  <2>4. /\ x \in Run /\ x.pc = "commit" /\ x.view = run[a].view
        /\ x.written = flushed
    <3> HIDE DEF flushed
    <3> QED
      BY <2>1, <2>2 DEF Run, RunPCs
  <2>5. RunBecomes(a, x)
    <3>1. run' = [run EXCEPT ![a] = x]
      OBVIOUS
    <3> HIDE DEF x
    <3> QED
      BY <2>4, <3>1, RunStep
  <2>6. /\ lock' \in [Analyses -> Analyses \cup Corrections \cup {None}]
        /\ lock[a] = None /\ lock'[a] = a
        /\ \A b \in Analyses \ {a} : lock'[b] = lock[b]
    BY DEF TypeOK
  <2>7. TypeOK' /\ Elsewhere(a) /\ Respectful(a)
    BY <2>5, <2>6 DEF TypeOK, Elsewhere, Respectful, RunBecomes
  <2> HIDE DEF flushed, x
  <2>8. AnalysisKnows(a)'
    BY <2>1, <2>2, <2>4, <2>5, <2>6
       DEF AnalysisKnows, AttemptKnows, LockKnows, Attempting, RunBecomes
  <2>9. /\ row' = row /\ run'[a].pc = "commit"
         /\ run'[a].view = run[a].view /\ run'[a].written = flushed
    BY <2>4, <2>5 DEF RunBecomes
  <2>10. OutputKnows(a)' /\ OutcomeStays(a)
    BY <2>3, <2>9 DEF OutputKnows, OutcomeStays, Produced, Attempting
  <2> QED
    BY <2>7, <2>8, <2>10, AnalysisStep
<1>5. CASE CommitRun(a)
  <2> USE <1>5 DEF CommitRun
  <2>1. PICK pc \in {"callback", "ack"} : To(a, pc)
    OBVIOUS
  <2>2. Moved(a, pc)
    BY <2>1, ToStep DEF RunPCs
  <2>3. LockKnows(a) /\ AttemptKnows(a) /\ create[a] = "done" /\ run[a].pc \in Attempting
    BY DEF AnalysisKnows, AttemptKnows, Attempting, TypeOK
  <2>4. TypeOK' /\ Elsewhere(a)
    BY <2>2, <2>3, EndStep DEF TypeOK, Elsewhere, Moved
  <2>5. row'[a].status = row[a].status \/ (lock[a] = a /\ row'[a].status \in Terminal)
    BY <2>3, EndStep DEF LockKnows
  <2>6. Respectful(a)
    BY <2>3, <2>5, EndStep DEF Respectful, Terminal
  <2>7. AnalysisKnows(a)'
    BY <2>2, <2>3, <2>5, EndStep
       DEF AnalysisKnows, AttemptKnows, LockKnows, Attempting, Moved
  <2>8. OutputKnows(a)' /\ OutcomeStays(a)
    BY <2>2, <2>3, <2>5, EndStep
       DEF AnalysisKnows, AttemptKnows, LockKnows, Attempting, Moved,
           OutputKnows, Produced, OutcomeStays, Terminal
  <2> QED
    BY <2>4, <2>6, <2>7, <2>8, AnalysisStep
<1>6. CASE RollBackRun(a)
  <2> USE <1>6 DEF RollBackRun
  <2>1. Moved(a, "callback")
    BY ToStep DEF RunPCs
  <2>2. LockKnows(a)
    BY DEF AnalysisKnows
  <2>3. TypeOK' /\ Elsewhere(a) /\ Respectful(a)
    BY <2>1, <2>2, EndStep DEF TypeOK, Elsewhere, Respectful, Moved
  <2>4. AnalysisKnows(a)'
    BY <2>1, <2>2, EndStep
       DEF AnalysisKnows, AttemptKnows, LockKnows, Attempting, Moved
  <2>5. OutputKnows(a)' /\ OutcomeStays(a)
    BY <2>1, <2>2, EndStep
       DEF OutputKnows, Produced, OutcomeStays, Attempting, Moved
  <2> QED
    BY <2>3, <2>4, <2>5, AnalysisStep
<1>7. CASE RetryLater(a) \/ FinishJob(a)
  <2> USE <1>7 DEF RetryLater, FinishJob
  <2>1. PICK state \in {"retry", "finished"} : Leave(a, state)
    OBVIOUS
  <2>2. JobBecomes(a, state) /\ RunBecomes(a, IdleRun)
    BY <2>1, LeaveStep DEF JobStates
  <2>3. TypeOK' /\ Elsewhere(a) /\ Respectful(a)
    BY <2>2 DEF TypeOK, Elsewhere, Respectful, RunBecomes, JobBecomes
  <2>4. AnalysisKnows(a)'
    BY <2>2, IdleRunRecord
       DEF AnalysisKnows, AttemptKnows, LockKnows, Attempting, RunBecomes, JobBecomes
  <2>5. OutputKnows(a)' /\ OutcomeStays(a)
    BY <2>2, IdleRunRecord
       DEF AnalysisKnows, AttemptKnows, LockKnows, Attempting, RunBecomes, JobBecomes,
           OutputKnows, Produced, OutcomeStays, Terminal
  <2> QED
    BY <2>3, <2>4, <2>5, AnalysisStep
<1>8. CASE LoadForFailure(a)
  <2> USE <1>8 DEF LoadForFailure
  <2>1. RunBecomes(a, run'[a]) /\ run'[a].pc = "mark" /\ run'[a].view = row[a]
    BY LoadStep DEF RunPCs
  <2>2. TypeOK' /\ Elsewhere(a) /\ Respectful(a)
    BY <2>1 DEF TypeOK, Elsewhere, Respectful, RunBecomes
  <2>3. AnalysisKnows(a)'
    BY <2>1 DEF AnalysisKnows, AttemptKnows, LockKnows, Attempting, RunBecomes
  <2>4. OutputKnows(a)' /\ OutcomeStays(a)
    BY <2>1
       DEF AnalysisKnows, AttemptKnows, LockKnows, Attempting, RunBecomes,
           OutputKnows, Produced, OutcomeStays, Terminal
  <2> QED
    BY <2>2, <2>3, <2>4, AnalysisStep
<1>9. CASE MarkFailed(a)
  <2> USE <1>9 DEF MarkFailed
  <2>1. JobBecomes(a, "failed") /\ RunBecomes(a, IdleRun)
    BY LeaveStep DEF JobStates
  <2>2. /\ row' \in [Analyses -> Row]
        /\ \A b \in Analyses \ {a} : row'[b] = row[b]
        /\ row'[a].status \in {row[a].status, "failed"}
        /\ row'[a] # row[a] => lock[a] = None /\ row[a].status # "absent"
        /\ Kind[a] # "extraction" => Produced(row'[a])
    <3> DEFINE flushed == Flushed(row[a], run[a].view, Outcome("failed"))
    <3>1. flushed \in Row /\ flushed.status \in {row[a].status, "failed"}
      BY Rows, FlushedRow DEF TypeOK, Run
    <3>2. CASE row' = row
      BY <3>2 DEF TypeOK, OutputKnows
    <3>3. CASE row' = [row EXCEPT ![a] = flushed] /\ run[a].view.status # "absent" /\ lock[a] = None
      <4> HIDE DEF flushed
      <4>1. row[a].status # "absent"
        BY <3>3 DEF AnalysisKnows
      <4>2. Kind[a] # "extraction" => Produced(flushed)
        <5>1. SUFFICES ASSUME Kind[a] # "extraction" PROVE Produced(flushed)
          OBVIOUS
        <5>2. run[a].view = row[a] /\ Produced(row[a]) /\ row[a] \in Row
          BY <3>3, <5>1 DEF OutputKnows, TypeOK
        <5>3. flushed.status = "failed" /\ flushed.result = {}
          BY <5>2, Rows, FlushedRow DEF flushed
        <5> QED
          BY <5>3 DEF Produced
      <4> QED
        BY <3>1, <3>3, <4>1, <4>2 DEF TypeOK
    <3> QED
      BY <3>2, <3>3
  <2>3. TypeOK' /\ Elsewhere(a)
    BY <2>1, <2>2 DEF TypeOK, Elsewhere, RunBecomes, JobBecomes
  <2>4. Respectful(a)
    BY <2>2 DEF Respectful
  <2>5. AnalysisKnows(a)'
    BY <2>1, <2>2, IdleRunRecord
       DEF AnalysisKnows, AttemptKnows, LockKnows, Attempting, RunBecomes, JobBecomes
  <2>6. OutputKnows(a)' /\ OutcomeStays(a)
    BY <2>1, <2>2, IdleRunRecord
       DEF AnalysisKnows, AttemptKnows, LockKnows, Attempting, RunBecomes, JobBecomes,
           OutputKnows, Produced, OutcomeStays, Terminal
  <2> QED
    BY <2>3, <2>4, <2>5, <2>6, AnalysisStep
<1> QED
  BY <1>1, <1>2, <1>3, <1>4, <1>5, <1>6, <1>7, <1>8, <1>9 DEF WorkerStep

-------------------------------------------------------------------------------
(* RQ and the faults.                                                      *)

LEMMA QueueInv1 ==
  ASSUME Inv1, NEW a \in Analyses, RetryDue(a) \/ CrashWorker(a) \/ TimeOutJob(a)
  PROVE  Inv1' /\ OutcomesStay
<1> USE DEF Inv1
<1>1. CASE RetryDue(a)
  <2> USE <1>1 DEF RetryDue
  <2>1. JobBecomes(a, "queued")
    BY JobStep DEF JobStates
  <2>2. TypeOK' /\ Elsewhere(a) /\ Respectful(a)
    BY <2>1 DEF TypeOK, Elsewhere, Respectful, JobBecomes
  <2>3. AnalysisKnows(a)'
    BY <2>1 DEF AnalysisKnows, AttemptKnows, LockKnows, JobBecomes
  <2>4. OutputKnows(a)' /\ OutcomeStays(a)
    BY DEF OutputKnows, Produced, OutcomeStays
  <2> QED
    BY <2>2, <2>3, <2>4, AnalysisStep
<1>2. CASE CrashWorker(a)
  <2> USE <1>2 DEF CrashWorker
  <2>1. LockKnows(a) /\ faultsLeft' \in [FaultKinds -> Nat]
    BY SufferStep DEF AnalysisKnows, FaultKinds
  <2>2. /\ row' = row
        /\ lock' \in [Analyses -> Analyses \cup Corrections \cup {None}]
        /\ \A b \in Analyses \ {a} : lock'[b] = lock[b]
        /\ lock'[a] = IF lock[a] = a THEN None ELSE lock[a]
    BY <2>1, EndStep DEF Discard
  <2>3. \/ JobBecomes(a, "lost") /\ RunBecomes(a, IdleRun)
        \/ Moved(a, "callback") /\ job' = job
    BY LeaveStep, ToStep DEF JobStates, RunPCs
  <2>4. TypeOK' /\ Elsewhere(a)
    BY <2>1, <2>2, <2>3 DEF TypeOK, Elsewhere, RunBecomes, Moved, JobBecomes
  <2>5. Respectful(a) /\ OutcomeStays(a)
    BY <2>2 DEF Respectful, OutcomeStays
  <2>6. AnalysisKnows(a)'
    BY <2>1, <2>2, <2>3, IdleRunRecord
       DEF AnalysisKnows, AttemptKnows, LockKnows, Attempting, RunBecomes, Moved, JobBecomes
  <2>7. OutputKnows(a)'
    BY <2>2, <2>3, IdleRunRecord
       DEF OutputKnows, Produced, Attempting, RunBecomes, Moved, JobBecomes
  <2> QED
    BY <2>4, <2>5, <2>6, <2>7, AnalysisStep
<1>3. CASE TimeOutJob(a)
  <2> USE <1>3 DEF TimeOutJob
  <2>1. PICK pc \in {"callback", "raise", "abort"} :
          /\ To(a, pc)
          /\ run[a].pc = "ack" <=> pc = "callback"
    OBVIOUS
  <2>2. Moved(a, pc)
    BY <2>1, ToStep DEF RunPCs
  <2>3. faultsLeft' \in [FaultKinds -> Nat]
    BY SufferStep DEF FaultKinds
  <2>4. TypeOK' /\ Elsewhere(a) /\ Respectful(a)
    BY <2>2, <2>3 DEF TypeOK, Elsewhere, Respectful, Moved
  <2>5. AnalysisKnows(a)'
    BY <2>1, <2>2 DEF AnalysisKnows, AttemptKnows, LockKnows, Attempting, Moved
  <2>6. OutputKnows(a)' /\ OutcomeStays(a)
    BY <2>1, <2>2 DEF OutputKnows, Produced, OutcomeStays, Attempting, Moved
  <2> QED
    BY <2>4, <2>5, <2>6, AnalysisStep
<1> QED
  BY <1>1, <1>2, <1>3

-------------------------------------------------------------------------------

LEMMA Inv1Init == Init => Inv1
<1> SUFFICES ASSUME Init PROVE Inv1
  OBVIOUS
<1> USE DEF Init
<1>1. TypeOK
  BY Rows, IdleRunRecord DEF TypeOK, NewPatch, Patch, Job, FaultKinds
<1>2. \A a \in Analyses : AnalysisKnows(a) /\ OutputKnows(a)
  BY Rows, IdleRunRecord
     DEF AnalysisKnows, AttemptKnows, LockKnows, OutputKnows, Produced, Attempting
<1>3. \A c \in Corrections : PatchKnows(c)
  BY DEF PatchKnows, NewPatch
<1> QED
  BY <1>1, <1>2, <1>3 DEF Inv1

LEMMA Inv1Step == Inv1 /\ [Next]_vars => Inv1' /\ (OutcomesStay \/ row' = row)
<1> SUFFICES ASSUME Inv1, [Next]_vars PROVE Inv1' /\ (OutcomesStay \/ row' = row)
  OBVIOUS
<1>1. CASE UNCHANGED vars
  BY <1>1 DEF vars, Inv1, TypeOK, AnalysisKnows, AttemptKnows, LockKnows, PatchKnows,
     OutputKnows, Produced
<1>2. CASE Next
  BY <1>2, CreateInv1, PatchInv1, WorkerInv1, QueueInv1 DEF Next
<1> QED
  BY <1>1, <1>2

LEMMA Inv1Invariant == Spec => []Inv1
  BY Inv1Init, Inv1Step, PTL DEF Spec

(* Every reachable state is well typed, for any analyses, corrections,     *)
(* retries and faults.                                                     *)
THEOREM AnalysesTypeCorrect == Spec => []TypeOK
<1>1. Inv1 => TypeOK
  BY DEF Inv1
<1> QED
  BY <1>1, Inv1Invariant, PTL

(* A summary or comparison shows the model's output exactly when it is     *)
(* completed: whatever attempt, timeout, crash or failure callback wrote   *)
(* last (set_result, _mark_failed_after_retries_async).                    *)
THEOREM OutputIffCompletedCorrect == Spec => []OutputIffCompleted
<1>1. Inv1 => OutputIffCompleted
  BY DEF Inv1, OutputIffCompleted, OutputKnows, Produced
<1> QED
  BY <1>1, Inv1Invariant, PTL

(* No step takes an outcome back, and none turns a failure into a success: *)
(* not a correction that read the row earlier, not a late worker, not the  *)
(* failure callback.                                                       *)
THEOREM OutcomeIsFinalCorrect == Spec => OutcomeIsFinal
<1>1. Inv1 /\ [Next]_vars =>
        [\A a \in Analyses :
           /\ row[a].status \in Terminal => row'[a].status \in Terminal
           /\ row[a].status = "failed" => row'[a].status = "failed"]_row
  BY Inv1Step DEF OutcomesStay, OutcomeStays
<1> QED
  BY <1>1, Inv1Invariant, PTL DEF Spec, OutcomeIsFinal
===============================================================================

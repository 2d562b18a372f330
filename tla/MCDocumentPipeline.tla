-------------------------- MODULE MCDocumentPipeline --------------------------
(* Instances of DocumentPipeline for TLC. *)
EXTENDS DocumentPipeline, FiniteSets, TLC

Budget(crash, abort, outage, age, timeout) ==
  [k \in FaultKinds |->
     CASE k = "crash" -> crash [] k = "abort" -> abort [] k = "outage" -> outage
       [] k = "age" -> age [] k = "timeout" -> timeout]

OneDeadRequest == Budget(0, 1, 0, 0, 0)
OneOfEach == Budget(1, 1, 1, 1, 1)
OnlyStaleness == Budget(0, 0, 0, 1, 0)

(* Bound: a behaviour has two faults, and of a row that grows stale only   *)
(* the death of a request as well.                                         *)
TwoFaults ==
  LET suffered == {k \in FaultKinds : faultsLeft'[k] = 0}
  IN  Cardinality(suffered) <= 2 /\ ("age" \in suffered => suffered \subseteq {"age", "abort"})

(* The behaviours that the hypothesis WorkedOnce is about. *)
WorkedOnceSpec == Init /\ [][Next /\ WorkedOnce]_vars

(* The fairness of DocumentPipeline; a request that could go on only       *)
(* against the hypothesis stays where it is.                               *)
WorkedOnceFairSpec ==
  /\ WorkedOnceSpec
  /\ \A w \in Workers : WF_vars(WorkerStep(w))
  /\ \A j \in JobIds : WF_vars(RetryDue(j))
  /\ \A r \in Requests : WF_vars(GoOn(r) /\ WorkedOnce)

Symmetry == Permutations(Requests) \cup Permutations(Workers) \cup Permutations(JobIds)
===============================================================================

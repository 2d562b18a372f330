---------------------------- MODULE MCAnalysisJobs ----------------------------
(* Instances of AnalysisJobs for TLC. *)
EXTENDS AnalysisJobs, TLC

CONSTANTS x, s   (* an extraction and a summary *)

ExtractionAndSummary == (x :> "extraction") @@ (s :> "summary")

Budget(crash, abort, outage, timeout) ==
  [k \in FaultKinds |->
     CASE k = "crash" -> crash [] k = "abort" -> abort
       [] k = "outage" -> outage [] k = "timeout" -> timeout]

OneOfEach == Budget(1, 1, 1, 1)
===============================================================================

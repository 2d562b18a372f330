------------------------------ MODULE MCChatTurn ------------------------------
(* Instances of ChatTurn for TLC. *)
EXTENDS ChatTurn

CONSTANTS t1, t2, t3, s1

OneOfEach == [k \in FaultKinds |-> 1]

(* The conversation has an answered message, of t1: later turns send       *)
(* another one, or regenerate its answer.                                  *)
LaterInit ==
  /\ clock = 1
  /\ turn = [t \in Turns |-> IF t = t1 THEN [NewTurn EXCEPT !.pc = "done", !.question = t1]
                             ELSE NewTurn]
  /\ asked = {t1}
  /\ answers = [t \in Turns |-> IF t = t1 THEN {"complete"} ELSE {}]
  /\ lock = None
  /\ key = [q \in Turns |-> "none"]
  /\ stop = [s \in Stops |-> NewStop]
  /\ faultsLeft = FaultBudget

(* Turns are named in the order in which they begin. *)
LaterNext == Next /\ (turn'[t3].pc # "new" => turn[t2].pc # "new")

LaterSpec == LaterInit /\ [][LaterNext]_vars /\ Fairness
===============================================================================

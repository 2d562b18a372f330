---------------------------- MODULE ChatTurn_proofs ----------------------------
(***************************************************************************)
(* Proofs about ChatTurn, for any turns and stop requests and any number   *)
(* of faults.                                                              *)
(***************************************************************************)
EXTENDS ChatTurn, FiniteSetTheorems, TLAPS

USE ChatAssumption DEF ChatAssumption

-------------------------------------------------------------------------------
(* The inductive invariant.                                                *)

(* The places before anything of the answer has been written, and those at *)
(* which all of it has.                                                    *)
Unanswered == {"touch", "open", "classify", "retrieve", "check", "answer", "recheck", "relay",
               "store", "failed"}
Answered == {"finish", "commit"}

Hit(t) == \E s \in Stops : t \in stop[s].hit

(* A turn answers its own message, or one that is committed.               *)
QuestionKnows(t) ==
  turn[t].pc \notin {"new", "refused"} =>
    /\ turn[t].question \in Turns
    /\ turn[t].question = t \/ turn[t].question \in asked

(* It writes one answer, at the last of its checks, and commits that.      *)
AnswerKnows(t) ==
  /\ turn[t].pc \in Unanswered => turn[t].written = {}
  /\ turn[t].pc \in Answered => \E status \in AnswerStatus : turn[t].written = {status}
  /\ turn[t].pc = "done" => /\ \E status \in AnswerStatus : answers[t] = {status}
                            /\ turn[t].question \in asked

(* A stop that a marked turn finds, or has found, was set while it was     *)
(* streaming.                                                              *)
StopIsFresh(t) ==
  turn[t].marked =>
    /\ turn[t].pc \in StreamPCs /\ StopIsSeen(t) => Hit(t)
    /\ "stopped" \in turn[t].written => Hit(t)

TurnKnows(t) == QuestionKnows(t) /\ AnswerKnows(t) /\ StopIsFresh(t)

(* A stop request that goes on has found its message; until it is accepted *)
(* it has hit nothing.                                                     *)
StopKnows(s) ==
  /\ stop[s].pc \in {"get", "set"} => stop[s].question \in Turns
  /\ stop[s].pc # "accepted" => stop[s].hit = {}

Inv1 == /\ TypeOK
        /\ \A t \in Turns : TurnKnows(t)
        /\ \A s \in Stops : StopKnows(s)

-------------------------------------------------------------------------------
(* Records.                                                                *)

(* One turn moves to the record x; the others stay where they are.         *)
TurnBecomes(t, x) ==
  /\ turn' \in [Turns -> Turn]
  /\ turn'[t] = x
  /\ \A u \in Turns \ {t} : turn'[u] = turn[u]

LEMMA TurnMoves ==
  ASSUME TypeOK, NEW t \in Turns, NEW x \in Turn, turn' = [turn EXCEPT ![t] = x]
  PROVE  TurnBecomes(t, x)
  BY DEF TypeOK, TurnBecomes

(* A turn that moves on, having written "written".                         *)
Moved(t, pc, written, marked) ==
  /\ turn' \in [Turns -> Turn]
  /\ turn'[t].pc = pc
  /\ turn'[t].question = turn[t].question
  /\ turn'[t].written = written
  /\ turn'[t].marked = marked
  /\ \A u \in Turns \ {t} : turn'[u] = turn[u]

LEMMA GotoStep ==
  ASSUME TypeOK, NEW t \in Turns, NEW pc \in TurnPCs, Goto(t, pc)
  PROVE  Moved(t, pc, turn[t].written, turn[t].marked)
<1> DEFINE x == [turn[t] EXCEPT !.pc = pc]
<1>1. /\ x \in Turn /\ x.pc = pc /\ x.question = turn[t].question
      /\ x.written = turn[t].written /\ x.marked = turn[t].marked
  BY DEF TypeOK, Turn
<1>2. turn' = [turn EXCEPT ![t] = x]
  BY DEF Goto
<1> HIDE DEF x
<1> QED
  BY <1>1, <1>2, TurnMoves DEF TurnBecomes, Moved

LEMMA EndStep ==
  ASSUME TypeOK, NEW t \in Turns, NEW pc \in TurnPCs, End(t, pc)
  PROVE  Moved(t, pc, {}, FALSE)
<1> DEFINE x == [turn[t] EXCEPT !.pc = pc, !.written = {}, !.marked = FALSE]
<1>1. /\ x \in Turn /\ x.pc = pc /\ x.question = turn[t].question
      /\ x.written = {} /\ x.marked = FALSE
  <2>1. turn[t] \in Turn /\ {} \in SUBSET AnswerStatus
    BY DEF TypeOK
  <2> QED
    BY <2>1 DEF Turn
<1>2. turn' = [turn EXCEPT ![t] = x]
  BY DEF End
<1> HIDE DEF x
<1> QED
  BY <1>1, <1>2, TurnMoves DEF TurnBecomes, Moved

LEMMA WriteStep ==
  ASSUME TypeOK, NEW t \in Turns, NEW pc \in TurnPCs, NEW status \in AnswerStatus,
         turn' = [turn EXCEPT ![t].pc = pc, ![t].written = @ \cup {status}]
  PROVE  Moved(t, pc, turn[t].written \cup {status}, turn[t].marked)
<1> DEFINE x == [turn[t] EXCEPT !.pc = pc, !.written = @ \cup {status}]
<1>1. /\ x \in Turn /\ x.pc = pc /\ x.question = turn[t].question
      /\ x.written = turn[t].written \cup {status} /\ x.marked = turn[t].marked
  <2>1. turn[t] \in Turn /\ turn[t].written \cup {status} \in SUBSET AnswerStatus
    BY DEF TypeOK, Turn
  <2> QED
    BY <2>1 DEF Turn
<1>2. turn' = [turn EXCEPT ![t] = x]
  OBVIOUS
<1> HIDE DEF x
<1> QED
  BY <1>1, <1>2, TurnMoves DEF TurnBecomes, Moved

LEMMA MarkStep ==
  ASSUME TypeOK, NEW t \in Turns, NEW reached \in BOOLEAN,
         turn' = [turn EXCEPT ![t].pc = "classify", ![t].marked = reached]
  PROVE  Moved(t, "classify", turn[t].written, reached)
<1> DEFINE x == [turn[t] EXCEPT !.pc = "classify", !.marked = reached]
<1>1. /\ x \in Turn /\ x.pc = "classify" /\ x.question = turn[t].question
      /\ x.written = turn[t].written /\ x.marked = reached
  BY ZenonT(60) DEF TypeOK, Turn, TurnPCs, StreamPCs
<1>2. turn' = [turn EXCEPT ![t] = x]
  OBVIOUS
<1> HIDE DEF x
<1> QED
  BY <1>1, <1>2, TurnMoves DEF TurnBecomes, Moved

LEMMA SufferStep ==
  ASSUME TypeOK, NEW kind \in FaultKinds, Suffer(kind)
  PROVE  faultsLeft' \in [FaultKinds -> Nat]
  BY DEF TypeOK, Suffer

KeyValues == {"none", "running", "stop_requested"}

LEMMA SetKeyStep ==
  ASSUME TypeOK, NEW q \in Turns, NEW value \in KeyValues, NEW reached \in BOOLEAN,
         SetKey(q, value, reached)
  PROVE  /\ key' \in [Turns -> KeyValues]
         /\ faultsLeft' \in [FaultKinds -> Nat]
         /\ \A p \in Turns \ {q} : key'[p] = key[p]
         /\ key'[q] = IF reached THEN value ELSE key[q]
  BY SufferStep DEF TypeOK, SetKey, KeyValues, FaultKinds

-------------------------------------------------------------------------------
(* A step of one turn keeps what is known of the others, and of the stops. *)

(* No key becomes a stop.                                                  *)
NoNewStop == \A q \in Turns : key'[q] = "stop_requested" => key[q] = "stop_requested"

Elsewhere(t) ==
  \A u \in Turns \ {t} : turn'[u] = turn[u] /\ answers'[u] = answers[u]

LEMMA OneTurnStep ==
  ASSUME Inv1, NEW t \in Turns, TypeOK', stop' = stop, asked \subseteq asked',
         NoNewStop, Elsewhere(t), TurnKnows(t)'
  PROVE  Inv1'
<1>1. ASSUME NEW u \in Turns PROVE TurnKnows(u)'
  <2>1. CASE u = t
    BY <2>1
  <2>2. CASE u # t
    <3>1. turn'[u] = turn[u] /\ answers'[u] = answers[u] /\ TurnKnows(u)
      BY <2>2 DEF Elsewhere, Inv1
    <3>2. QuestionKnows(u)' /\ AnswerKnows(u)'
      BY <3>1 DEF TurnKnows, QuestionKnows, AnswerKnows
    <3>3. StopIsFresh(u)'
      <4>1. turn[u].pc \in StreamPCs => turn[u].question \in Turns
        BY <3>1 DEF TurnKnows, QuestionKnows, StreamPCs
      <4> QED
        BY <3>1, <4>1 DEF TurnKnows, StopIsFresh, StopIsSeen, Hit, NoNewStop
    <3> QED
      BY <3>2, <3>3 DEF TurnKnows
  <2> QED
    BY <2>1, <2>2
<1>2. ASSUME NEW s \in Stops PROVE StopKnows(s)'
  BY DEF Inv1, StopKnows
<1> QED
  BY <1>1, <1>2 DEF Inv1

-------------------------------------------------------------------------------
(* Before the stream.                                                      *)

LEMMA BeginInv1 ==
  ASSUME Inv1, NEW t \in Turns, NEW q \in Turns, NEW pc \in {"touch", "open"},
         q = t \/ q \in asked, Begin(t, q, pc)
  PROVE  Inv1'
<1> USE DEF Inv1, Begin
<1> DEFINE x == [NewTurn EXCEPT !.pc = pc, !.question = q, !.at = clock]
<1>1. x \in Turn /\ x.pc = pc /\ x.question = q /\ x.written = {} /\ x.marked = FALSE
  BY DEF TypeOK, NewTurn, Turn, TurnPCs
<1>2. TurnBecomes(t, x)
  <2> HIDE DEF x
  <2> QED
    BY <1>1, TurnMoves DEF x
<1> HIDE DEF x
<1>3. TypeOK'
  BY <1>2 DEF TypeOK, TurnBecomes
<1>4. TurnKnows(t)'
  <2>1. QuestionKnows(t)' /\ AnswerKnows(t)'
    <3>1. /\ turn'[t].pc \in {"touch", "open"} /\ turn'[t].written = {}
          /\ turn'[t].question = q /\ asked' = asked
      BY <1>1, <1>2 DEF TurnBecomes
    <3> QED
      BY <3>1 DEF QuestionKnows, AnswerKnows, Answered
  <2>2. StopIsFresh(t)'
    BY <1>1, <1>2 DEF StopIsFresh, TurnBecomes
  <2> QED
    BY <2>1, <2>2 DEF TurnKnows
<1>5. Elsewhere(t) /\ NoNewStop
  BY <1>2 DEF Elsewhere, NoNewStop, TurnBecomes
<1> QED
  BY <1>3, <1>4, <1>5, OneTurnStep

LEMMA PrepareInv1 ==
  ASSUME Inv1, NEW t \in Turns,
         SendMessage(t) \/ RegenerateMessage(t) \/ VerifyDocumentsReady_Fails(t)
  PROVE  Inv1'
<1>1. CASE SendMessage(t)
  BY <1>1, BeginInv1 DEF SendMessage
<1>2. CASE RegenerateMessage(t)
  <2>1. PICK u \in Turns : \E q \in Preceding(u) : Begin(t, q, "open")
    BY <1>2 DEF RegenerateMessage
  <2>2. PICK q \in Preceding(u) : Begin(t, q, "open")
    BY <2>1
  <2>3. q \in asked /\ q \in Turns
    BY DEF Preceding, Inv1, TypeOK
  <2> QED
    BY <2>2, <2>3, BeginInv1
<1>3. CASE VerifyDocumentsReady_Fails(t)
  <2> USE <1>3 DEF Inv1, VerifyDocumentsReady_Fails
  <2>1. Moved(t, "refused", turn[t].written, turn[t].marked)
    BY GotoStep DEF TurnPCs, Ended
  <2>2. TypeOK' /\ Elsewhere(t) /\ NoNewStop
    BY <2>1 DEF TypeOK, Moved, Elsewhere, NoNewStop
  <2>3. TurnKnows(t)'
    BY <2>1 DEF TurnKnows, QuestionKnows, AnswerKnows, StopIsFresh, Hit, Moved, Unanswered,
       Answered, StreamPCs
  <2> QED
    BY <2>2, <2>3, OneTurnStep
<1> QED
  BY <1>1, <1>2, <1>3

-------------------------------------------------------------------------------
(* The stream.                                                             *)

(* A turn that goes on from one place to a later one, writing nothing.     *)
LEMMA OnwardInv1 ==
  ASSUME Inv1, NEW t \in Turns, NEW pc \in TurnPCs, Goto(t, pc),
         UNCHANGED <<clock, asked, answers, stop>>,
         NoNewStop, key' \in [Turns -> KeyValues],
         lock' \in Turns \cup {None}, faultsLeft' \in [FaultKinds -> Nat],
         turn[t].pc \notin {"new", "refused", "done", "lost"},
         pc \in Unanswered => turn[t].pc \in Unanswered,
         pc \in Answered => turn[t].pc \in Answered,
         pc \in StreamPCs => turn[t].pc \in StreamPCs,
         pc # "done"
  PROVE  Inv1'
<1> USE DEF Inv1
<1>1. Moved(t, pc, turn[t].written, turn[t].marked)
  BY GotoStep
<1>2. TypeOK' /\ Elsewhere(t)
  BY <1>1 DEF TypeOK, Moved, Elsewhere, KeyValues
<1>3. QuestionKnows(t)' /\ AnswerKnows(t)'
  BY <1>1 DEF TurnKnows, QuestionKnows, AnswerKnows, Moved
<1>4. StopIsFresh(t)'
  BY <1>1 DEF TurnKnows, QuestionKnows, StopIsFresh, StopIsSeen, Hit, NoNewStop, Moved
<1> QED
  BY <1>2, <1>3, <1>4, OneTurnStep DEF TurnKnows

(* The end of an answer: the turn writes its only message.                 *)
LEMMA WriteInv1 ==
  ASSUME Inv1, NEW t \in Turns, NEW status \in AnswerStatus,
         turn[t].pc \in Unanswered \cap StreamPCs,
         turn' = [turn EXCEPT ![t].pc = "finish", ![t].written = @ \cup {status}],
         status = "stopped" => StopIsSeen(t),
         lock' \in Turns \cup {None},
         UNCHANGED <<clock, asked, answers, key, stop, faultsLeft>>
  PROVE  Inv1'
<1> USE DEF Inv1
<1>1. Moved(t, "finish", turn[t].written \cup {status}, turn[t].marked)
  BY WriteStep DEF TurnPCs, StreamPCs
<1>2. TypeOK' /\ Elsewhere(t) /\ NoNewStop
  BY <1>1 DEF TypeOK, Moved, Elsewhere, NoNewStop
<1>3. turn'[t].written = {status}
  BY <1>1 DEF Moved, TurnKnows, AnswerKnows
<1>4. QuestionKnows(t)' /\ AnswerKnows(t)'
  BY <1>1, <1>3
     DEF TurnKnows, QuestionKnows, AnswerKnows, Moved, Unanswered, Answered, StreamPCs
<1>5. StopIsFresh(t)'
  BY <1>1, <1>3 DEF TurnKnows, StopIsFresh, StopIsSeen, Hit, Moved
<1> QED
  BY <1>2, <1>4, <1>5, OneTurnStep DEF TurnKnows

(* The end of a turn, which takes what it has written with it.             *)
LEMMA OverInv1 ==
  ASSUME Inv1, NEW t \in Turns, NEW pc \in {"done", "lost"}, End(t, pc),
         turn[t].pc \notin {"new", "refused", "done", "lost"},
         pc = "done" => turn[t].pc \in Answered /\ Save(t),
         Save(t) \/ UNCHANGED <<asked, answers>>,
         NoNewStop, key' \in [Turns -> KeyValues],
         lock' \in Turns \cup {None}, faultsLeft' \in [FaultKinds -> Nat],
         UNCHANGED <<clock, stop>>
  PROVE  Inv1'
<1> USE DEF Inv1
<1>1. Moved(t, pc, {}, FALSE)
  BY EndStep DEF TurnPCs, Ended
<1>2. turn[t].question \in Turns /\ turn[t].written \in SUBSET AnswerStatus
  BY DEF TypeOK, Turn, TurnKnows, QuestionKnows
<1>3. /\ asked \subseteq asked' /\ asked' \subseteq Turns
      /\ answers' \in [Turns -> SUBSET AnswerStatus]
      /\ \A u \in Turns \ {t} : answers'[u] = answers[u]
  BY <1>2 DEF TypeOK, Save
<1>4. TypeOK' /\ Elsewhere(t)
  BY <1>1, <1>3 DEF TypeOK, Moved, Elsewhere, KeyValues
<1>5. pc = "done" => answers'[t] = turn[t].written /\ turn[t].question \in asked'
  BY DEF TypeOK, Save, TurnKnows, QuestionKnows
<1>6. TurnKnows(t)'
  BY <1>1, <1>3, <1>5
     DEF TurnKnows, QuestionKnows, AnswerKnows, StopIsFresh, Moved, Unanswered, Answered
<1> QED
  BY <1>3, <1>4, <1>6, OneTurnStep

LEMMA MarkTurnStartedInv1 ==
  ASSUME Inv1, NEW t \in Turns, MarkTurnStarted(t) PROVE Inv1'
<1> USE DEF Inv1, MarkTurnStarted
<1> DEFINE q == turn[t].question
<1>1. q \in Turns /\ QuestionKnows(t) /\ turn[t].written = {}
  BY DEF TurnKnows, QuestionKnows, AnswerKnows, Unanswered
<1>2. PICK reached \in BOOLEAN :
        /\ SetKey(q, "running", reached)
        /\ turn' = [turn EXCEPT ![t].pc = "classify", ![t].marked = reached]
  OBVIOUS
<1>3. /\ key' \in [Turns -> KeyValues] /\ faultsLeft' \in [FaultKinds -> Nat]
      /\ \A p \in Turns \ {q} : key'[p] = key[p]
      /\ key'[q] = IF reached THEN "running" ELSE key[q]
  BY <1>1, <1>2, SetKeyStep DEF KeyValues
<1>4. Moved(t, "classify", {}, reached)
  BY <1>1, <1>2, MarkStep
<1>5. TypeOK' /\ Elsewhere(t) /\ NoNewStop
  BY <1>3, <1>4 DEF TypeOK, Elsewhere, NoNewStop, Moved, KeyValues
<1>6. QuestionKnows(t)' /\ AnswerKnows(t)'
  BY <1>1, <1>4 DEF QuestionKnows, AnswerKnows, Moved, Answered
<1>7. StopIsFresh(t)'
  BY <1>1, <1>3, <1>4 DEF StopIsFresh, StopIsSeen, Moved
<1> QED
  BY <1>5, <1>6, <1>7, OneTurnStep DEF TurnKnows

LEMMA MarkTurnFinishedInv1 ==
  ASSUME Inv1, NEW t \in Turns, MarkTurnFinished(t) PROVE Inv1'
<1> USE DEF Inv1, MarkTurnFinished
<1> DEFINE q == turn[t].question
<1>1. q \in Turns
  BY DEF TurnKnows, QuestionKnows
<1>2. PICK reached \in BOOLEAN : SetKey(q, "none", reached)
  OBVIOUS
<1>3. key' \in [Turns -> KeyValues] /\ faultsLeft' \in [FaultKinds -> Nat] /\ NoNewStop
  BY <1>1, <1>2, SetKeyStep DEF KeyValues, NoNewStop
<1>4. lock' \in Turns \cup {None}
  BY DEF TypeOK, Release
<1>5. CASE turn[t].pc = "finish"
  BY <1>3, <1>4, <1>5, OnwardInv1 DEF TurnPCs, StreamPCs, Unanswered, Answered
<1>6. CASE turn[t].pc = "broken"
  BY <1>3, <1>4, <1>6, OverInv1
<1> QED
  BY <1>5, <1>6

(* Steps at which the key stays as it is.                                  *)
LEMMA KeyStays ==
  ASSUME Inv1, key' = key PROVE NoNewStop /\ key' \in [Turns -> KeyValues]
  BY DEF Inv1, TypeOK, NoNewStop, KeyValues

LEMMA TurnInv1 ==
  ASSUME Inv1, NEW t \in Turns, TurnStep(t) PROVE Inv1'
<1> USE DEF Unanswered, Answered, TurnPCs, StreamPCs, Ended
<1>1. lock \in Turns \cup {None} /\ faultsLeft \in [FaultKinds -> Nat] /\ TypeOK
  BY DEF Inv1, TypeOK
<1>2. CASE TouchConversation(t)
  BY <1>1, <1>2, KeyStays, OnwardInv1 DEF TouchConversation
<1>3. CASE MarkTurnStarted(t)
  BY <1>3, MarkTurnStartedInv1
<1>4. CASE ClassifyQuery(t)
  BY <1>1, <1>4, KeyStays, OnwardInv1 DEF ClassifyQuery
<1>5. CASE RetrieveContext(t)
  BY <1>1, <1>5, KeyStays, OnwardInv1 DEF RetrieveContext
<1>6. CASE GenerateAnswer(t)
  BY <1>1, <1>6, KeyStays, OnwardInv1 DEF GenerateAnswer
<1>7. CASE CheckForStop(t)
  <2> USE <1>7 DEF CheckForStop
  <2>1. \/ turn[t].pc = "check" /\ Goto(t, "answer")
        \/ turn[t].pc = "recheck" /\ Goto(t, "relay")
        \/ turn[t].pc = "relay" /\ Goto(t, "store")
    BY DEF AfterCheck
  <2>2. faultsLeft' \in [FaultKinds -> Nat]
    BY <1>1, SufferStep DEF FaultKinds
  <2> QED
    BY <1>1, <2>1, <2>2, KeyStays, OnwardInv1
<1>8. CASE Halt(t)
  <2>1. /\ turn[t].pc \in {"check", "recheck", "relay"} /\ StopIsSeen(t)
        /\ Write(t, "stopped", "finish")
    BY <1>8 DEF Halt, AfterCheck
  <2> QED
    BY <2>1, WriteInv1 DEF Write, AnswerStatus
<1>9. CASE StoreAnswer(t)
  BY <1>9, WriteInv1 DEF StoreAnswer, Write, AnswerStatus
<1>10. CASE GenerationFails(t)
  BY <1>1, <1>10, KeyStays, OnwardInv1 DEF GenerationFails
<1>11. CASE StoreIncomplete(t)
  BY <1>1, <1>11, WriteInv1 DEF StoreIncomplete, AnswerStatus
<1>12. CASE DatabaseFails(t)
  <2>1. faultsLeft' \in [FaultKinds -> Nat]
    BY <1>1, <1>12, SufferStep DEF DatabaseFails, FaultKinds
  <2> QED
    BY <1>1, <1>12, <2>1, KeyStays, OnwardInv1 DEF DatabaseFails
<1>13. CASE MarkTurnFinished(t)
  BY <1>13, MarkTurnFinishedInv1
<1>14. CASE Commit(t)
  <2>1. lock' \in Turns \cup {None}
    BY <1>1, <1>14 DEF Commit, Release
  <2> QED
    BY <1>1, <1>14, <2>1, KeyStays, OverInv1 DEF Commit
<1> QED
  BY <1>2, <1>3, <1>4, <1>5, <1>6, <1>7, <1>8, <1>9, <1>10, <1>11, <1>12, <1>13, <1>14
     DEF TurnStep

LEMMA CutInv1 ==
  ASSUME Inv1, NEW t \in Turns, Cut(t) PROVE Inv1'
<1> USE DEF Cut
<1>1. turn[t].pc \notin {"new", "refused", "done", "lost"}
  BY DEF StreamPCs
<1>2. lock' \in Turns \cup {None} /\ faultsLeft' \in [FaultKinds -> Nat]
  BY SufferStep DEF Inv1, TypeOK, Release, FaultKinds
<1>3. NoNewStop /\ key' \in [Turns -> KeyValues]
  <2>1. turn[t].question \in Turns
    BY <1>1 DEF Inv1, TurnKnows, QuestionKnows
  <2> QED
    BY <2>1 DEF Inv1, TypeOK, NoNewStop, KeyValues
<1> QED
  BY <1>1, <1>2, <1>3, OverInv1

-------------------------------------------------------------------------------
(* /stop and the time to live.                                             *)

(* A step of one stop request that has not been accepted.                  *)
LEMMA StopMoves ==
  ASSUME TypeOK, NEW s \in Stops, NEW x \in Stop, stop' = [stop EXCEPT ![s] = x],
         stop[s].hit = {}
  PROVE  /\ stop' \in [Stops -> Stop] /\ stop'[s] = x
         /\ \A r \in Stops \ {s} : stop'[r] = stop[r]
         /\ \A t \in Turns : Hit(t) => Hit(t)'
  BY DEF TypeOK, Hit

LEMMA StopInv1 ==
  ASSUME Inv1, NEW s \in Stops,
         (\E q \in Turns : FindMessage(s, q)) \/ GetKey(s) \/ RequestStop(s)
  PROVE  Inv1'
<1> USE DEF Inv1
<1>1. Refused \in Stop /\ Refused.pc = "refused" /\ Refused.hit = {}
  BY DEF Refused, NewStop, Stop
<1>2. ASSUME NEW x \in Stop, stop' = [stop EXCEPT ![s] = x], stop[s].pc # "accepted",
             x.pc \in {"get", "set"} => x.question \in Turns, x.hit = {},
             UNCHANGED <<clock, turn, asked, answers, lock, key>>,
             faultsLeft' \in [FaultKinds -> Nat]
      PROVE  Inv1'
  <2>1. /\ stop' \in [Stops -> Stop] /\ stop'[s] = x
        /\ \A r \in Stops \ {s} : stop'[r] = stop[r]
        /\ \A t \in Turns : Hit(t) => Hit(t)'
    BY <1>2, StopMoves DEF StopKnows
  <2>2. TypeOK'
    BY <1>2, <2>1 DEF TypeOK
  <2>3. ASSUME NEW t \in Turns PROVE TurnKnows(t)'
    BY <1>2, <2>1, <2>3 DEF TurnKnows, QuestionKnows, AnswerKnows, StopIsFresh, StopIsSeen
  <2>4. ASSUME NEW r \in Stops PROVE StopKnows(r)'
    BY <1>2, <2>1, <2>4 DEF StopKnows
  <2> QED
    BY <2>2, <2>3, <2>4
<1>3. ASSUME NEW q \in Turns, FindMessage(s, q) PROVE Inv1'
  <2> DEFINE x == [NewStop EXCEPT !.pc = "get", !.question = q]
  <2>1. x \in Stop /\ x.pc = "get" /\ x.question = q /\ x.hit = {}
    BY DEF NewStop, Stop
  <2>2. stop' = [stop EXCEPT ![s] = x] \/ stop' = [stop EXCEPT ![s] = Refused]
    BY <1>3 DEF FindMessage
  <2>3. /\ stop[s].pc # "accepted" /\ faultsLeft' \in [FaultKinds -> Nat]
        /\ UNCHANGED <<clock, turn, asked, answers, lock, key>>
    BY <1>3 DEF FindMessage, TypeOK
  <2> HIDE DEF x
  <2> QED
    BY <1>1, <1>2, <2>1, <2>2, <2>3
<1>4. CASE GetKey(s)
  <2> DEFINE x == [stop[s] EXCEPT !.pc = "set"]
  <2>1. stop[s].pc = "get"
    BY <1>4 DEF GetKey
  <2>2. x \in Stop /\ x.question \in Turns /\ x.hit = {}
    BY <2>1 DEF TypeOK, Stop, StopKnows
  <2>3. stop' = [stop EXCEPT ![s] = x] \/ stop' = [stop EXCEPT ![s] = Refused]
    BY <1>4 DEF GetKey
  <2>4. faultsLeft' \in [FaultKinds -> Nat] /\ UNCHANGED <<clock, turn, asked, answers, lock, key>>
    BY <1>4, SufferStep DEF GetKey, TypeOK, FaultKinds
  <2> HIDE DEF x
  <2> QED
    BY <1>1, <1>2, <2>1, <2>2, <2>3, <2>4
<1>5. CASE RequestStop(s)
  <2> USE <1>5 DEF RequestStop
  <2> DEFINE q == stop[s].question
             x == [NewStop EXCEPT !.pc = "accepted", !.hit = StreamingOn(q)]
  <2>1. q \in Turns /\ stop[s].hit = {}
    BY DEF StopKnows
  <2>2. PICK reached \in BOOLEAN :
          /\ SetKey(q, "stop_requested", reached)
          /\ stop' = [stop EXCEPT ![s] = IF ~reached THEN Refused ELSE x]
    OBVIOUS
  <2>3. /\ key' \in [Turns -> KeyValues] /\ faultsLeft' \in [FaultKinds -> Nat]
        /\ \A p \in Turns \ {q} : key'[p] = key[p]
        /\ key'[q] = IF reached THEN "stop_requested" ELSE key[q]
    BY <2>1, <2>2, SetKeyStep DEF KeyValues
  <2>4. x \in Stop /\ x.pc = "accepted" /\ x.hit = StreamingOn(q)
    BY DEF NewStop, Stop, StreamingOn
  <2>5. CASE ~reached
    <3>1. stop' = [stop EXCEPT ![s] = Refused] /\ key' = key
      BY <2>2, <2>5 DEF SetKey
    <3> QED
      BY <1>1, <1>2, <2>3, <3>1
  <2>6. CASE reached
    <3>1. stop' = [stop EXCEPT ![s] = x]
      BY <2>2, <2>6
    <3> HIDE DEF x
    <3>2. /\ stop' \in [Stops -> Stop] /\ stop'[s] = x
          /\ \A r \in Stops \ {s} : stop'[r] = stop[r]
          /\ \A t \in Turns : Hit(t) => Hit(t)'
      BY <2>1, <2>4, <3>1, StopMoves
    <3>3. TypeOK'
      BY <2>3, <3>2 DEF TypeOK, KeyValues
    <3>4. ASSUME NEW t \in Turns PROVE TurnKnows(t)'
      <4>1. QuestionKnows(t)' /\ AnswerKnows(t)'
        BY DEF TurnKnows, QuestionKnows, AnswerKnows
      <4>2. turn[t].pc \in StreamPCs => turn[t].question \in Turns
        BY DEF TurnKnows, QuestionKnows, StreamPCs
      <4>3. t \in StreamingOn(q) => Hit(t)'
        BY <2>4, <3>2 DEF Hit
      <4>4. turn[t].pc \in StreamPCs /\ turn[t].question = q => t \in StreamingOn(q)
        BY DEF StreamingOn
      <4>5. StopIsFresh(t)'
        BY <2>3, <3>2, <4>2, <4>3, <4>4 DEF TurnKnows, StopIsFresh, StopIsSeen
      <4> QED
        BY <4>1, <4>5 DEF TurnKnows
    <3>5. ASSUME NEW r \in Stops PROVE StopKnows(r)'
      BY <2>4, <3>2 DEF StopKnows
    <3> QED
      BY <3>3, <3>4, <3>5
  <2> QED
    BY <2>5, <2>6
<1> QED
  BY <1>3, <1>4, <1>5

LEMMA ExpireInv1 ==
  ASSUME Inv1, NEW q \in Turns, Expire(q) \/ ExpireEarly(q) PROVE Inv1'
<1> USE DEF Inv1, Expire, ExpireEarly
<1>1. TypeOK' /\ NoNewStop
  BY SufferStep DEF TypeOK, NoNewStop, FaultKinds
<1>2. ASSUME NEW t \in Turns PROVE TurnKnows(t)'
  <2>1. turn[t].pc \in StreamPCs => turn[t].question \in Turns
    BY DEF TurnKnows, QuestionKnows, StreamPCs
  <2> QED
    BY <1>1, <2>1
       DEF TurnKnows, QuestionKnows, AnswerKnows, StopIsFresh, StopIsSeen, Hit, NoNewStop
<1>3. ASSUME NEW s \in Stops PROVE StopKnows(s)'
  BY DEF StopKnows
<1> QED
  BY <1>1, <1>2, <1>3

-------------------------------------------------------------------------------

LEMMA Inv1Init == Init => Inv1
<1> SUFFICES ASSUME Init PROVE Inv1
  OBVIOUS
<1> USE DEF Init
<1>1. TypeOK
  BY DEF TypeOK, NewTurn, Turn, TurnPCs, NewStop, Stop
<1>2. ASSUME NEW t \in Turns PROVE TurnKnows(t)
  BY DEF TurnKnows, QuestionKnows, AnswerKnows, StopIsFresh, NewTurn, Unanswered, Answered
<1>3. ASSUME NEW s \in Stops PROVE StopKnows(s)
  BY DEF StopKnows, NewStop
<1> QED
  BY <1>1, <1>2, <1>3 DEF Inv1

LEMMA Inv1Step == Inv1 /\ [Next]_vars => Inv1'
<1> SUFFICES ASSUME Inv1, [Next]_vars PROVE Inv1'
  OBVIOUS
<1>1. CASE UNCHANGED vars
  BY <1>1 DEF vars, Inv1, TypeOK, TurnKnows, QuestionKnows, AnswerKnows, StopIsFresh,
     StopIsSeen, Hit, StopKnows
<1>2. CASE Next
  BY <1>2, PrepareInv1, TurnInv1, CutInv1, StopInv1, ExpireInv1 DEF Next
<1> QED
  BY <1>1, <1>2

LEMMA Inv1Invariant == Spec => []Inv1
  BY Inv1Init, Inv1Step, PTL DEF Spec

(* Every reachable state is well typed, for any turns, stops and faults.   *)
THEOREM TurnsTypeCorrect == Spec => []TypeOK
<1>1. Inv1 => TypeOK
  BY DEF Inv1
<1> QED
  BY <1>1, Inv1Invariant, PTL

(* A turn whose transaction ended in its commit has left one assistant     *)
(* message, next to the message that it answers: whichever check, failure  *)
(* or outage ended its stream (generate_turn_events' except and finally).  *)
THEOREM ExactlyOneAnswerCorrect == Spec => []ExactlyOneAnswer
<1>1. Inv1 => ExactlyOneAnswer
  <2> SUFFICES ASSUME Inv1, NEW t \in Turns, turn[t].pc = "done"
               PROVE  Cardinality(answers[t]) = 1 /\ turn[t].question \in asked
    BY DEF ExactlyOneAnswer
  <2>1. PICK status \in AnswerStatus : answers[t] = {status}
    BY DEF Inv1, TurnKnows, AnswerKnows
  <2>2. Cardinality({status}) = 1
    BY FS_Singleton
  <2> QED
    BY <2>1, <2>2 DEF Inv1, TurnKnows, AnswerKnows
<1> QED
  BY <1>1, Inv1Invariant, PTL

(* A turn that reset the key before it began is ended only by a stop that  *)
(* was requested while it was streaming, however many turns share the      *)
(* message and its key (mark_turn_started, request_stop).                  *)
THEOREM NoStaleStopCorrect == Spec => []NoStaleStop
<1>1. Inv1 => NoStaleStop
  BY DEF Inv1, TurnKnows, StopIsFresh, Hit, NoStaleStop
<1> QED
  BY <1>1, Inv1Invariant, PTL
===============================================================================

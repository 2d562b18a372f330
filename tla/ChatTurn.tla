------------------------------- MODULE ChatTurn -------------------------------
(***************************************************************************)
(* Chat turns of one conversation: a message is sent or the answer of an   *)
(* earlier turn is regenerated, the answer is generated and relayed over a *)
(* server-sent event stream, and /stop asks for it to end early.           *)
(*                                                                         *)
(* A turn is one request with one database transaction, which spans the    *)
(* stream (get_preceding_user_message's docstring): the messages it writes *)
(* carry the time the transaction began, others see them when it has been  *)
(* committed, and from the first touch() of the conversation on it holds   *)
(* that row's lock.  /stop reaches the turn, possibly in another process,  *)
(* through a Redis key that belongs to the user message; turns that answer *)
(* the same message share it.                                              *)
(***************************************************************************)
EXTENDS Naturals, FiniteSets

CONSTANTS
  Turns,        (* POST .../messages and POST .../regenerate requests      *)
  Stops,        (* POST .../stop requests                                  *)
  FaultBudget,  (* bound: how often each fault of FaultKinds may occur     *)
  None          (* "no message", "no turn"                                 *)

FaultKinds == {"outage",    \* a Redis call fails
               "database",  \* a statement of a turn's transaction fails
               "cut",       \* the client disconnects, or the server dies
               "slow"}      \* a turn outlasts the key's time to live

ASSUME ChatAssumption ==
  /\ IsFiniteSet(Turns)
  /\ FaultBudget \in [FaultKinds -> Nat]
  /\ None \notin Turns

VARIABLES
  clock,       (* time, in transactions begun                              *)
  turn,        (* each turn's generator and session                        *)
  asked,       (* turns whose user message is committed                    *)
  answers,     (* committed assistant messages of each turn, by status     *)
  lock,        (* the turn that holds the conversation's row lock          *)
  key,         (* the Redis key of each user message                       *)
  stop,        (* each stop request                                        *)
  faultsLeft   (* what is left of FaultBudget                              *)

vars == <<clock, turn, asked, answers, lock, key, stop, faultsLeft>>

-------------------------------------------------------------------------------
(* A user message is named by the turn that sent it.  "question" is the    *)
(* message that a turn answers, "written" the assistant messages of its    *)
(* open transaction, and "marked" tells if mark_turn_started has reached   *)
(* Redis.                                                                  *)

AnswerStatus == {"complete", "stopped", "incomplete"}

Ended == {"refused", "done", "lost"}

(* Where a turn's generator is between mark_turn_started and the end of    *)
(* its finally block.                                                      *)
StreamPCs == {"classify", "retrieve", "check", "answer", "recheck", "relay",
              "store", "failed", "broken", "finish"}

TurnPCs == {"new", "touch", "open", "commit"} \cup StreamPCs \cup Ended

Turn == [pc : TurnPCs, question : Turns \cup {None}, at : Nat,
         written : SUBSET AnswerStatus, marked : BOOLEAN]

NewTurn == [pc |-> "new", question |-> None, at |-> 0, written |-> {}, marked |-> FALSE]

(* "hit" is the set of turns that were streaming when the stop was set.    *)
Stop == [pc : {"new", "get", "set", "accepted", "refused"},
         question : Turns \cup {None}, hit : SUBSET Turns]

NewStop == [pc |-> "new", question |-> None, hit |-> {}]

(* No such message, or its turn is not in progress.                        *)
Refused == [NewStop EXCEPT !.pc = "refused"]

Init ==
  /\ clock = 0
  /\ turn = [t \in Turns |-> NewTurn]
  /\ asked = {}
  /\ answers = [t \in Turns |-> {}]
  /\ lock = None
  /\ key = [q \in Turns |-> "none"]
  /\ stop = [s \in Stops |-> NewStop]
  /\ faultsLeft = FaultBudget

StreamingOn(q) == {t \in Turns : turn[t].pc \in StreamPCs /\ turn[t].question = q}

Suffer(kind) ==
  /\ faultsLeft[kind] > 0
  /\ faultsLeft' = [faultsLeft EXCEPT ![kind] = @ - 1]

LockIsFree(t) == lock \in {None, t}

Release(t) == lock' = IF lock = t THEN None ELSE lock

Goto(t, pc) == turn' = [turn EXCEPT ![t].pc = pc]

(* The turn and its transaction are over.                                  *)
End(t, pc) == turn' = [turn EXCEPT ![t].pc = pc, ![t].written = {}, ![t].marked = FALSE]

-------------------------------------------------------------------------------
(* Before the stream: prepare_message_turn and prepare_regenerate_turn.    *)

Begin(t, question, pc) ==
  /\ turn[t].pc = "new"
  /\ turn' = [turn EXCEPT ![t] = [NewTurn EXCEPT !.pc = pc, !.question = question,
                                                 !.at = clock]]
  /\ clock' = clock + 1
  /\ UNCHANGED <<asked, answers, lock, key, stop, faultsLeft>>

(* The user message is written; the conversation is yet to be touched.     *)
SendMessage(t) == Begin(t, t, "touch")

TouchConversation(t) ==
  /\ turn[t].pc = "touch"
  /\ LockIsFree(t)
  /\ lock' = t
  /\ Goto(t, "open")
  /\ UNCHANGED <<clock, asked, answers, key, stop, faultsLeft>>

(* get_preceding_user_message: the latest user message that is not newer   *)
(* than the assistant message.                                             *)
Preceding(u) ==
  {q \in asked : /\ turn[q].at <= turn[u].at
                 /\ \A p \in asked : turn[p].at <= turn[u].at => turn[p].at <= turn[q].at}

RegenerateMessage(t) ==
  \E u \in Turns : /\ answers[u] # {}
                   /\ \E q \in Preceding(u) : Begin(t, q, "open")

(* A document of the conversation is gone or no longer ready.              *)
VerifyDocumentsReady_Fails(t) ==
  /\ turn[t].pc = "new"
  /\ Goto(t, "refused")
  /\ UNCHANGED <<clock, asked, answers, lock, key, stop, faultsLeft>>

-------------------------------------------------------------------------------
(* The stream: generate_turn_events.                                       *)

(* SET with the value, or nothing in an outage: writes to Redis fail open. *)
SetKey(q, value, reached) ==
  IF reached
  THEN key' = [key EXCEPT ![q] = value] /\ UNCHANGED faultsLeft
  ELSE Suffer("outage") /\ UNCHANGED key

(* Mutant: SET NX, an existing key is kept. *)
MarkTurnStarted_IfAbsent(t) ==
  LET q == turn[t].question IN
  /\ turn[t].pc = "open"
  /\ \E reached \in BOOLEAN :
       /\ SetKey(q, IF key[q] = "none" THEN "running" ELSE key[q], reached)
       /\ turn' = [turn EXCEPT ![t].pc = "classify", ![t].marked = reached]
  /\ UNCHANGED <<clock, asked, answers, lock, stop>>

(* The message_id event, and mark_turn_started.                            *)
MarkTurnStarted(t) ==
  LET q == turn[t].question IN
  /\ turn[t].pc = "open"
  /\ \E reached \in BOOLEAN :
       /\ SetKey(q, "running", reached)
       /\ turn' = [turn EXCEPT ![t].pc = "classify", ![t].marked = reached]
  /\ UNCHANGED <<clock, asked, answers, lock, stop>>

(* History and classifier: out-of-scope queries get a canned answer.       *)
ClassifyQuery(t) ==
  /\ turn[t].pc = "classify"
  /\ \E next \in {"retrieve", "relay"} : Goto(t, next)
  /\ UNCHANGED <<clock, asked, answers, lock, key, stop, faultsLeft>>

(* An empty context gets the no-answer response.                           *)
RetrieveContext(t) ==
  /\ turn[t].pc = "retrieve"
  /\ \E next \in {"check", "relay"} : Goto(t, next)
  /\ UNCHANGED <<clock, asked, answers, lock, key, stop, faultsLeft>>

(* The answer is generated, and replaced when it is not grounded.          *)
GenerateAnswer(t) ==
  /\ turn[t].pc = "answer"
  /\ Goto(t, "recheck")
  /\ UNCHANGED <<clock, asked, answers, lock, key, stop, faultsLeft>>

(* The checks for a stop, by what follows when there is none: two around   *)
(* the generation, and one before each word that is relayed, of which the  *)
(* last one counts.                                                        *)
AfterCheck == [check |-> "answer", recheck |-> "relay", relay |-> "store"]

StopIsSeen(t) == key[turn[t].question] = "stop_requested"

(* is_stop_requested finds none, or cannot tell.                           *)
CheckForStop(t) ==
  /\ turn[t].pc \in DOMAIN AfterCheck
  /\ IF StopIsSeen(t) THEN Suffer("outage") ELSE UNCHANGED faultsLeft
  /\ Goto(t, AfterCheck[turn[t].pc])
  /\ UNCHANGED <<clock, asked, answers, lock, key, stop>>

(* A message is written to the open transaction, and the conversation is   *)
(* touched.                                                                *)
Write(t, status, next) ==
  /\ LockIsFree(t)
  /\ lock' = t
  /\ turn' = [turn EXCEPT ![t].pc = next, ![t].written = @ \cup {status}]
  /\ UNCHANGED <<clock, asked, answers, key, stop, faultsLeft>>

(* Mutant: no return after _persist_stopped. *)
Halt_NoReturn(t) ==
  /\ turn[t].pc \in DOMAIN AfterCheck
  /\ StopIsSeen(t)
  /\ Write(t, "stopped", AfterCheck[turn[t].pc])

(* _persist_stopped, with what has been relayed or generated so far.       *)
Halt(t) ==
  /\ turn[t].pc \in DOMAIN AfterCheck
  /\ StopIsSeen(t)
  /\ Write(t, "stopped", "finish")

(* The rest of _finalize_turn: the answer and its citations.               *)
StoreAnswer(t) ==
  /\ turn[t].pc = "store"
  /\ Write(t, "complete", "finish")

(* The model, the embedder or the retrieval raises.                        *)
GenerationFails(t) ==
  /\ turn[t].pc \in {"classify", "retrieve", "answer"}
  /\ Goto(t, "failed")
  /\ UNCHANGED <<clock, asked, answers, lock, key, stop, faultsLeft>>

(* Mutant: a status that the messages table does not have. *)
StoreIncomplete_Failed(t) ==
  /\ turn[t].pc = "failed"
  /\ turn' = [turn EXCEPT ![t].pc = "finish", ![t].written = @ \cup {"failed"}]
  /\ UNCHANGED <<clock, asked, answers, lock, key, stop, faultsLeft>>

(* The except block: the failed turn leaves an incomplete message.  The    *)
(* conversation is not touched.                                            *)
StoreIncomplete(t) ==
  /\ turn[t].pc = "failed"
  /\ turn' = [turn EXCEPT ![t].pc = "finish", ![t].written = @ \cup {"incomplete"}]
  /\ UNCHANGED <<clock, asked, answers, lock, key, stop, faultsLeft>>

(* A statement fails, here the ai_requests row's at the latest.  So does   *)
(* every later one of the transaction, the except block's insert first.    *)
DatabaseFails(t) ==
  /\ turn[t].pc \in {"classify", "retrieve", "check", "recheck", "relay", "store", "failed",
                    "finish"}
  /\ turn[t].pc \in DOMAIN AfterCheck => StopIsSeen(t)
  /\ Suffer("database")
  /\ Goto(t, "broken")
  /\ UNCHANGED <<clock, asked, answers, lock, key, stop>>

(* Mutant: a turn that raises does not end its transaction. *)
MarkTurnFinished_NoRollback(t) ==
  /\ turn[t].pc \in {"finish", "broken"}
  /\ \E reached \in BOOLEAN : SetKey(turn[t].question, "none", reached)
  /\ IF turn[t].pc = "finish" THEN Goto(t, "commit") ELSE End(t, "lost")
  /\ UNCHANGED <<clock, asked, answers, lock, stop>>

(* mark_turn_finished, and the ai_requests row.                            *)
MarkTurnFinished(t) ==
  /\ turn[t].pc \in {"finish", "broken"}
  /\ \E reached \in BOOLEAN : SetKey(turn[t].question, "none", reached)
  /\ IF turn[t].pc = "finish" THEN Goto(t, "commit") /\ UNCHANGED lock
                              ELSE End(t, "lost") /\ Release(t)
  /\ UNCHANGED <<clock, asked, answers, stop>>

(* The end of get_db_session.                                              *)
Save(t) ==
  /\ asked' = IF turn[t].question = t THEN asked \cup {t} ELSE asked
  /\ answers' = [answers EXCEPT ![t] = turn[t].written]

Commit(t) ==
  /\ turn[t].pc = "commit"
  /\ Save(t)
  /\ End(t, "done")
  /\ Release(t)
  /\ UNCHANGED <<clock, key, stop, faultsLeft>>

(* The request ends early: its finally block may or may not get through,   *)
(* and its transaction is committed as far as it got, or rolled back.      *)
Cut(t) ==
  /\ turn[t].pc \in {"touch", "open", "commit"} \cup StreamPCs
  /\ Suffer("cut")
  /\ \/ UNCHANGED key
     \/ turn[t].pc \in StreamPCs /\ key' = [key EXCEPT ![turn[t].question] = "none"]
  /\ \/ turn[t].pc \notin {"touch", "broken"} /\ Save(t)
     \/ UNCHANGED <<asked, answers>>
  /\ End(t, "lost")
  /\ Release(t)
  /\ UNCHANGED <<clock, stop>>

-------------------------------------------------------------------------------
(* /stop: stop_message and request_stop.                                   *)

(* The message is looked up among the committed ones.                      *)
FindMessage(s, q) ==
  /\ stop[s].pc = "new"
  /\ stop' = [stop EXCEPT ![s] = IF q \in asked
                                 THEN [NewStop EXCEPT !.pc = "get", !.question = q]
                                 ELSE Refused]
  /\ UNCHANGED <<clock, turn, asked, answers, lock, key, faultsLeft>>

GetKey(s) ==
  /\ stop[s].pc = "get"
  /\ \/ /\ stop' = [stop EXCEPT ![s] = IF key[@.question] = "running"
                                       THEN [@ EXCEPT !.pc = "set"] ELSE Refused]
        /\ UNCHANGED faultsLeft
     \/ /\ stop' = [stop EXCEPT ![s] = Refused]
        /\ Suffer("outage")
  /\ UNCHANGED <<clock, turn, asked, answers, lock, key>>

RequestStop(s) ==
  LET q == stop[s].question IN
  /\ stop[s].pc = "set"
  /\ \E reached \in BOOLEAN :
       /\ SetKey(q, "stop_requested", reached)
       /\ stop' = [stop EXCEPT ![s] = IF ~reached THEN Refused
                                      ELSE [NewStop EXCEPT !.pc = "accepted",
                                                           !.hit = StreamingOn(q)]]
  /\ UNCHANGED <<clock, turn, asked, answers, lock>>

-------------------------------------------------------------------------------
(* Redis.                                                                  *)

(* Mutant: the key that request_stop writes has no time to live. *)
Expire_OnlyRunning(q) ==
  /\ key[q] = "running"
  /\ StreamingOn(q) = {}
  /\ key' = [key EXCEPT ![q] = "none"]
  /\ UNCHANGED <<clock, turn, asked, answers, lock, stop, faultsLeft>>

(* _TURN_TTL_SECONDS have passed since the key was set: a "generous upper  *)
(* bound on how long one turn can run".                                    *)
Expire(q) ==
  /\ key[q] # "none"
  /\ StreamingOn(q) = {}
  /\ key' = [key EXCEPT ![q] = "none"]
  /\ UNCHANGED <<clock, turn, asked, answers, lock, stop, faultsLeft>>

(* ... and a turn runs longer.                                             *)
ExpireEarly(q) ==
  /\ key[q] # "none"
  /\ Suffer("slow")
  /\ key' = [key EXCEPT ![q] = "none"]
  /\ UNCHANGED <<clock, turn, asked, answers, lock, stop>>

-------------------------------------------------------------------------------
TurnStep(t) ==
  \/ TouchConversation(t) \/ MarkTurnStarted(t)
  \/ ClassifyQuery(t) \/ RetrieveContext(t) \/ GenerateAnswer(t)
  \/ CheckForStop(t) \/ Halt(t) \/ StoreAnswer(t)
  \/ GenerationFails(t) \/ StoreIncomplete(t) \/ DatabaseFails(t)
  \/ MarkTurnFinished(t) \/ Commit(t)

Next ==
  \/ \E t \in Turns : \/ SendMessage(t) \/ RegenerateMessage(t)
                      \/ VerifyDocumentsReady_Fails(t)
                      \/ TurnStep(t) \/ Cut(t)
  \/ \E s \in Stops : \/ \E q \in Turns : FindMessage(s, q)
                      \/ GetKey(s) \/ RequestStop(s)
  \/ \E q \in Turns : Expire(q) \/ ExpireEarly(q)

(* A generator that has begun is driven to its end by the response, and    *)
(* Redis expires keys.  Users need not send, regenerate or stop.           *)
Fairness ==
  /\ \A t \in Turns : WF_vars(TurnStep(t))
  /\ \A q \in Turns : WF_vars(Expire(q))

Spec == Init /\ [][Next]_vars /\ Fairness

-------------------------------------------------------------------------------
TypeOK ==
  /\ clock \in Nat
  /\ turn \in [Turns -> Turn]
  /\ asked \subseteq Turns
  /\ answers \in [Turns -> SUBSET AnswerStatus]
  /\ lock \in Turns \cup {None}
  /\ key \in [Turns -> {"none", "running", "stop_requested"}]
  /\ stop \in [Stops -> Stop]
  /\ faultsLeft \in [FaultKinds -> Nat]

(* A turn that ran to its end has stored exactly one assistant message,    *)
(* complete, stopped or incomplete, whichever check, failure or outage     *)
(* ended it, and the message that it answers is stored too.                *)
ExactlyOneAnswer ==
  \A t \in Turns : turn[t].pc = "done" => /\ Cardinality(answers[t]) = 1
                                          /\ turn[t].question \in asked

(* A turn is never ended by the /stop of an earlier turn on the same user  *)
(* message, although they share the key and although a /stop may set it    *)
(* after that turn has deleted it: mark_turn_started starts each turn      *)
(* afresh, unless it did not reach Redis.                                  *)
NoStaleStop ==
  \A t \in Turns : "stopped" \in turn[t].written /\ turn[t].marked =>
    \E s \in Stops : t \in stop[s].hit

(* However a turn ends, and whatever a late /stop writes, no key outlives  *)
(* its turns for good (mark_turn_finished, and the time to live).          *)
KeysAreFreed == \A q \in Turns : key[q] # "none" ~> key[q] = "none"

(* Turns of a conversation wait for each other's row lock, but every turn  *)
(* that has begun ends, and the lock is free again.                        *)
TurnsEnd ==
  \A t \in Turns : turn[t].pc \notin {"new"} \cup Ended ~> turn[t].pc \in Ended /\ lock # t
===============================================================================

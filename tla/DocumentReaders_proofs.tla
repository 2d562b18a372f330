------------------------ MODULE DocumentReaders_proofs ------------------------
(***************************************************************************)
(* Proofs about DocumentReaders, for any sets of documents and readers and *)
(* any bound on the polls of a status stream.                              *)
(***************************************************************************)
EXTENDS DocumentReaders, TLAPS

USE ReadersAssumption DEF ReadersAssumption

-------------------------------------------------------------------------------
(* The inductive invariant.  Of the documents that nothing has disturbed:  *)
(* one is indexed only once it is ready, and one that was ready keeps its  *)
(* chunks; so what a reader saw of a ready document stays true whatever    *)
(* happens before its next statement.                                      *)

IndexedIsSettled == \A d \in Docs \ disturbed : indexed[d] => phase[d] \in {"ready", "deleted"}

ReadyIsPublished ==
  \A d \in Docs : /\ phase[d] = "ready" => d \in ready
                  /\ d \in ready => d \in published

PublishedIsIndexed ==
  \A d \in published \ disturbed : indexed[d] /\ phase[d] \in {"ready", "deleted"}

(* What a reader knows at each of its statements.                          *)
ReaderKnows(x) ==
  /\ x.pc = "chunks" => x.kind = "content"
  /\ x.pc = "query" => x.kind = "search"
  /\ x.pc = "poll" => x.kind = "stream"
  /\ x.pc \in {"verify", "retrieve", "cite"} => x.kind = "chat"
  /\ x.kind = "content" => x.docs \subseteq published
  /\ x.kind = "content" /\ x.pc = "done" => x.docs \ disturbed \subseteq x.shown
  /\ x.pc = "poll" => x.polls < MaxPolls
  /\ x.kind = "chat" => x.docs \subseteq published
  /\ x.kind = "chat" /\ x.pc \in {"verify", "retrieve"} => x.shown = {}
  /\ x.kind = "chat" /\ x.docs # {} => x.shown \subseteq x.docs
  /\ x.kind = "chat" => \A d \in x.shown \ disturbed : indexed[d]

Inv ==
  /\ TypeOK
  /\ IndexedIsSettled
  /\ ReadyIsPublished
  /\ PublishedIsIndexed
  /\ \A r \in Readers : ReaderKnows(reader[r])

LEMMA InvInit == Init => Inv
  BY DEF Init, Documents!Init, Inv, TypeOK, IndexedIsSettled, ReadyIsPublished,
         PublishedIsIndexed, ReaderKnows, NewReader, Reader, Kinds

-------------------------------------------------------------------------------
(* The pipeline's steps.                                                   *)

(* What a step may do to the documents that it does not disturb.           *)
Keeps(d) ==
  /\ indexed'[d] => indexed[d] \/ phase'[d] \in {"ready", "deleted"}
  /\ indexed[d] /\ phase[d] \in {"ready", "deleted"} =>
       indexed'[d] /\ phase'[d] \in {"ready", "deleted"}
  /\ phase'[d] = "ready" => indexed'[d] \/ phase[d] = "ready"
  /\ indexed[d] => indexed'[d] \/ phase[d] = "failed"

PhasesAreTyped ==
  /\ phase \in [Docs -> {"absent", "pending", "ready", "failed", "deleted"}]
  /\ indexed \in [Docs -> BOOLEAN]

LEMMA UndisturbedStep ==
  ASSUME PhasesAreTyped, Documents!Next
  PROVE  PhasesAreTyped' /\ \A d \in Docs : Keeps(d)
<1>1. PICK d \in Docs :
        \/ Documents!Create(d) \/ Documents!Publish(d) \/ Documents!Reject(d)
        \/ Documents!Requeue(d) \/ Documents!Remove(d) \/ Documents!StoreLate(d)
  BY DEF Documents!Next
<1> USE DEF PhasesAreTyped, Keeps
<1>3. CASE Documents!Create(d)
  BY <1>3 DEF Documents!Create, Documents!Move
<1>4. CASE Documents!Publish(d)
  BY <1>4 DEF Documents!Publish, Documents!Move
<1>5. CASE Documents!Reject(d)
  BY <1>5 DEF Documents!Reject, Documents!Move
<1>6. CASE Documents!Requeue(d)
  BY <1>6 DEF Documents!Requeue, Documents!Move
<1>7. CASE Documents!Remove(d)
  BY <1>7 DEF Documents!Remove, Documents!Move
<1>8. CASE Documents!StoreLate(d)
  BY <1>8 DEF Documents!StoreLate
<1>9. QED
  BY <1>1, <1>3, <1>4, <1>5, <1>6, <1>7, <1>8

(* A disturbance strikes one document only.                                *)
LEMMA DisturbingStep ==
  ASSUME PhasesAreTyped, NEW d \in Docs, Documents!Disturb(d)
  PROVE  PhasesAreTyped' /\ \A e \in Docs \ {d} : phase'[e] = phase[e] /\ indexed'[e] = indexed[e]
<1> USE DEF PhasesAreTyped
<1>1. CASE Documents!Discard(d)
  BY <1>1 DEF Documents!Discard
<1>2. CASE Documents!Rework(d)
  BY <1>2 DEF Documents!Rework, Documents!Move
<1>3. CASE Documents!Overwrite(d)
  BY <1>3 DEF Documents!Overwrite
<1>4. QED
  BY <1>1, <1>2, <1>3 DEF Documents!Disturb

LEMMA LifecycleKeepsPublished ==
  ASSUME Inv, LifecycleStep
  PROVE  /\ PhasesAreTyped'
         /\ ready' \subseteq Docs
         /\ published \subseteq published' /\ published' \subseteq Docs
         /\ disturbed \subseteq disturbed' /\ disturbed' \subseteq Docs
         /\ \A d \in Docs \ disturbed' : Keeps(d)
<1>1. PhasesAreTyped
  BY DEF Inv, TypeOK, PhasesAreTyped
<1>2. /\ ready' \subseteq Docs /\ published' = published \cup ready'
      /\ published \subseteq Docs /\ disturbed \subseteq Docs
  BY DEF LifecycleStep, Inv, TypeOK
<1>3. CASE Documents!Next /\ UNCHANGED disturbed
  BY <1>1, <1>2, <1>3, UndisturbedStep
<1>4. ASSUME NEW d \in Docs, Documents!Disturb(d), disturbed' = disturbed \cup {d}
      PROVE  PhasesAreTyped' /\ \A e \in Docs \ disturbed' : Keeps(e)
  BY <1>1, <1>4, DisturbingStep DEF Keeps, PhasesAreTyped
<1>5. QED
  BY <1>2, <1>3, <1>4 DEF LifecycleStep

LEMMA LifecycleKeepsInv ==
  ASSUME Inv, LifecycleStep
  PROVE  Inv'
<1>1. /\ reader' = reader
      /\ published' = published \cup ready'
      /\ ready' = {d \in Docs : phase'[d] = "ready" \/ (phase'[d] = "deleted" /\ d \in ready)}
  BY DEF LifecycleStep
<1>2. TypeOK'
  BY <1>1, LifecycleKeepsPublished DEF Inv, TypeOK, PhasesAreTyped
<1>3. IndexedIsSettled'
  BY LifecycleKeepsPublished DEF Inv, IndexedIsSettled, Keeps
<1>4. ReadyIsPublished'
  BY <1>1 DEF ReadyIsPublished
<1>5. PublishedIsIndexed'
  <2> SUFFICES ASSUME NEW d \in published', d \notin disturbed'
               PROVE  indexed'[d] /\ phase'[d] \in {"ready", "deleted"}
    BY DEF PublishedIsIndexed
  <2>1. d \in Docs /\ d \notin disturbed /\ Keeps(d)
    BY LifecycleKeepsPublished
  <2>2. CASE d \in published
    BY <2>1, <2>2 DEF Inv, PublishedIsIndexed, Keeps
  <2>3. CASE d \in ready' /\ d \notin published
    <3>1. d \notin ready /\ phase[d] # "ready"
      BY <2>1, <2>3 DEF Inv, ReadyIsPublished
    <3>2. phase'[d] = "ready"
      BY <1>1, <2>3, <3>1
    <3>3. QED
      BY <2>1, <3>1, <3>2 DEF Keeps
  <2>4. QED
    BY <1>1, <2>2, <2>3
<1>6. ASSUME NEW r \in Readers
      PROVE  ReaderKnows(reader[r])'
  <2>1. reader[r] \in Reader /\ ReaderKnows(reader[r])
    BY <1>6 DEF Inv, TypeOK
  <2>2. /\ published \subseteq published' /\ disturbed \subseteq disturbed'
        /\ \A d \in Docs \ disturbed' : indexed[d] => indexed'[d]
    BY LifecycleKeepsPublished DEF Inv, IndexedIsSettled, Keeps
  <2>3. QED
    BY <1>1, <2>1, <2>2 DEF ReaderKnows, Reader
<1>7. QED
  BY <1>2, <1>3, <1>4, <1>5, <1>6 DEF Inv

-------------------------------------------------------------------------------
(* A reader's steps: only its own record changes.                          *)

LEMMA Move ==
  ASSUME Inv, NEW r \in Readers, NEW x, Becomes(r, x), x \in Reader, ReaderKnows(x)
  PROVE  Inv'
  BY DEF Becomes, history, Inv, TypeOK, IndexedIsSettled, ReadyIsPublished, PublishedIsIndexed,
         ReaderKnows

(* The record of a reader that has just made its call, or a poll.          *)
AfterCall == {"chunks", "query", "poll", "verify"}
AfterPoll == {"poll", "done"}
Objects == {None, "pending", "ready", "failed"}

Begun(x, pc, kind, S) == [x EXCEPT !.pc = pc, !.kind = kind, !.docs = S]

AnotherPoll(x, pc, status, d) ==
  [x EXCEPT !.pc = pc, !.object = status, !.shown = {d}, !.polls = @ + 1]

LEMMA NewRecord == NewReader \in Reader /\ NewReader.shown = {} /\ NewReader.polls = 0
  BY DEF NewReader, Reader, Kinds

LEMMA BegunRecord ==
  ASSUME NEW x \in Reader, NEW kind \in Kinds, NEW S \in SUBSET Docs, NEW pc \in AfterCall
  PROVE  /\ Begun(x, pc, kind, S) \in Reader
         /\ Begun(x, pc, kind, S).pc = pc
         /\ Begun(x, pc, kind, S).kind = kind
         /\ Begun(x, pc, kind, S).docs = S
         /\ Begun(x, pc, kind, S).shown = x.shown
         /\ Begun(x, pc, kind, S).polls = x.polls
  BY DEF Begun, Reader, Kinds, AfterCall

LEMMA PollRecord ==
  ASSUME NEW x \in Reader, NEW pc \in AfterPoll, NEW d \in Docs, NEW status \in Objects,
         x.polls < MaxPolls
  PROVE  /\ AnotherPoll(x, pc, status, d) \in Reader
         /\ AnotherPoll(x, pc, status, d).pc = pc
         /\ AnotherPoll(x, pc, status, d).kind = x.kind
         /\ AnotherPoll(x, pc, status, d).docs = x.docs
         /\ AnotherPoll(x, pc, status, d).polls = x.polls + 1
<1>1. x.polls + 1 \in 0..MaxPolls
  BY DEF Reader
<1>2. ASSUME NEW polls \in 0..MaxPolls, NEW y,
             y = [x EXCEPT !.pc = pc, !.object = status, !.shown = {d}, !.polls = polls]
      PROVE  /\ y \in Reader
             /\ y.pc = pc /\ y.kind = x.kind /\ y.docs = x.docs /\ y.polls = polls
  BY <1>2 DEF Reader, Kinds, AfterPoll, Objects
<1>3. QED
  BY <1>1, <1>2 DEF AnotherPoll

LEMMA BeginKeepsInv ==
  ASSUME Inv, NEW r \in Readers, NEW kind \in Kinds, NEW S \in SUBSET Docs,
         NEW pc \in AfterCall, Begin(r, kind, pc, S),
         \/ kind = "content" /\ pc = "chunks" /\ S \subseteq published
         \/ kind = "search" /\ pc = "query"
         \/ kind = "stream" /\ pc = "poll"
         \/ kind = "chat" /\ pc = "verify" /\ S \subseteq published
  PROVE  Inv'
<1> DEFINE x == Begun(NewReader, pc, kind, S)
<1>1. /\ x \in Reader
      /\ x.pc = pc /\ x.kind = kind /\ x.docs = S /\ x.shown = {} /\ x.polls = 0
  BY NewRecord, BegunRecord
<1>2. Becomes(r, x)
  BY Zenon DEF Begin, Begun
<1> HIDE DEF x
<1>3. ReaderKnows(x)
  BY <1>1 DEF ReaderKnows
<1>4. QED
  BY <1>1, <1>2, <1>3, Move

LEMMA CallKeepsInv ==
  ASSUME Inv, NEW r \in Readers, Call(r)
  PROVE  Inv'
<1> USE DEF Kinds, AfterCall
<1>0. ready \subseteq published
  BY DEF Inv, TypeOK, ReadyIsPublished
<1>1. ASSUME NEW d \in Docs, GetContent(r, d) PROVE Inv'
  BY <1>0, <1>1, BeginKeepsInv DEF GetContent
<1>2. ASSUME NEW d \in Docs, StreamStatus(r, d) PROVE Inv'
  BY <1>2, BeginKeepsInv DEF StreamStatus
<1>3. CASE Search(r)
  BY <1>3, BeginKeepsInv DEF Search
<1>4. ASSUME NEW S \in SUBSET Docs, CreateConversation(r, S) PROVE Inv'
  BY <1>0, <1>4, BeginKeepsInv DEF CreateConversation, VerifyDocumentsReady
<1>5. QED
  BY <1>1, <1>2, <1>3, <1>4 DEF Call

(* A poll that loads the row sees a status; a later one what was loaded.   *)
LEMMA PollKeepsInv ==
  ASSUME Inv, NEW r \in Readers, PollStatus(r)
  PROVE  Inv'
<1> DEFINE x == reader[r]
<1>1. x \in Reader /\ ReaderKnows(x) /\ x.pc = "poll" /\ x.polls < MaxPolls /\ x.kind = "stream"
  BY DEF PollStatus, Inv, TypeOK, ReaderKnows
<1>2. PICK d \in x.docs :
        LET status == Polled(r, d)
            ends == status \in {"ready", "failed"} \/ x.polls + 1 = MaxPolls
        IN IF Found(d)
           THEN Becomes(r, [x EXCEPT !.pc = IF ends THEN "done" ELSE "poll", !.object = status,
                                     !.shown = {d}, !.polls = @ + 1])
           ELSE Becomes(r, [x EXCEPT !.pc = "done"])
  BY DEF PollStatus
<1>3. d \in Docs
  BY <1>1 DEF Reader
<1>4. CASE Found(d)
  <2>1. PICK pc : pc = IF Polled(r, d) \in {"ready", "failed"} \/ x.polls + 1 = MaxPolls
                       THEN "done" ELSE "poll"
    OBVIOUS
  <2> DEFINE y == AnotherPoll(x, pc, Polled(r, d), d)
  <2>2. Becomes(r, y)
    BY <1>2, <1>4, <2>1, Zenon DEF AnotherPoll
  <2>3. Polled(r, d) \in Objects
    BY <1>1, <1>3, <1>4 DEF Polled, Found, Inv, TypeOK, Reader, Objects
  <2>4. pc \in AfterPoll /\ (pc = "poll" => x.polls + 1 # MaxPolls)
    BY <2>1 DEF AfterPoll
  <2>5. /\ y \in Reader
        /\ y.pc = pc /\ y.kind = x.kind /\ y.docs = x.docs /\ y.polls = x.polls + 1
    BY <1>1, <1>3, <2>3, <2>4, PollRecord
  <2> HIDE DEF y
  <2>6. ReaderKnows(y)
    BY <1>1, <2>4, <2>5 DEF ReaderKnows, Reader, AfterPoll
  <2>7. QED
    BY <2>2, <2>5, <2>6, Move
<1>5. CASE ~Found(d)
  BY <1>1, <1>2, <1>5, Move DEF Reader, ReaderKnows
<1>6. QED
  BY <1>4, <1>5

LEMMA StepKeepsInv ==
  ASSUME Inv, NEW r \in Readers, Step(r)
  PROVE  Inv'
<1>1. reader[r] \in Reader /\ ReaderKnows(reader[r])
  BY DEF Inv, TypeOK
<1> USE DEF Reader, ReaderKnows
<1>2. CASE ListChunks(r)
  <2>1. \A d \in published \ disturbed : d \in Docs /\ indexed[d]
    BY DEF Inv, TypeOK, PublishedIsIndexed
  <2>2. QED
    BY <1>1, <1>2, <2>1, Move DEF ListChunks
<1>3. CASE FuseCandidates(r)
  BY <1>1, <1>3, Move DEF FuseCandidates, FilteredDocuments
<1>4. CASE PollStatus(r)
  BY <1>4, PollKeepsInv
<1>5. CASE PrepareTurn(r)
  BY <1>1, <1>5, Move DEF PrepareTurn
<1>6. CASE SimilaritySearch(r)
  BY <1>1, <1>6, Move DEF SimilaritySearch
<1>7. CASE RecordCitations(r)
  BY <1>1, <1>7, Move DEF RecordCitations
<1>8. QED
  BY <1>2, <1>3, <1>4, <1>5, <1>6, <1>7 DEF Step

LEMMA DisconnectKeepsInv ==
  ASSUME Inv, NEW r \in Readers, Disconnect(r)
  PROVE  Inv'
  BY Move, SMTT(30) DEF Disconnect, Inv, TypeOK, Reader, ReaderKnows

LEMMA InvNext == Inv /\ [Next]_vars => Inv'
<1> SUFFICES ASSUME Inv, [Next]_vars
             PROVE  Inv'
  OBVIOUS
<1>1. CASE LifecycleStep
  BY <1>1, LifecycleKeepsInv
<1>2. ASSUME NEW r \in Readers, Call(r) \/ Step(r) \/ Disconnect(r)
      PROVE  Inv'
  BY <1>2, CallKeepsInv, StepKeepsInv, DisconnectKeepsInv
<1>3. CASE UNCHANGED vars
  BY <1>3 DEF vars, history, Inv, TypeOK, IndexedIsSettled, ReadyIsPublished, PublishedIsIndexed,
              ReaderKnows
<1>4. QED
  BY <1>1, <1>2, <1>3 DEF Next

LEMMA Invariance == Spec => []Inv
<1>1. Init => Inv
  BY InvInit
<1>2. Inv /\ [Next]_vars => Inv'
  BY InvNext
<1>3. QED
  BY <1>1, <1>2, PTL DEF Spec

-------------------------------------------------------------------------------
(* The state of documents and readers is well typed; a stream never makes  *)
(* more than MaxPolls polls.                                               *)
THEOREM ReadersTypeCorrect == Spec => []TypeOK
<1>1. Inv => TypeOK
  BY DEF Inv
<1>2. QED
  BY <1>1, Invariance, PTL

(* The viewer (GET /documents/{id}/content) shows a document it has found  *)
(* ready with its text, whatever is processed, reprocessed or deleted      *)
(* between the read of the row and the read of the chunks, unless jobs or  *)
(* requests of that document have overtaken each other.                    *)
THEOREM ContentIsWholeCorrect == Spec => []ContentIsWhole
<1>1. Inv => ContentIsWhole
  BY DEF Inv, ReaderKnows, ContentIsWhole
<1>2. QED
  BY <1>1, Invariance, PTL

(* A chat turn about chosen documents retrieves from these only, and only  *)
(* from documents that had become ready (chat_service, chunk repository),  *)
(* whatever jobs and requests overtake each other meanwhile.               *)
THEOREM ContextIsInScopeCorrect == Spec => []ContextIsInScope
<1>1. Inv => ContextIsInScope
  BY DEF Inv, ReaderKnows, ContextIsInScope
<1>2. QED
  BY <1>1, Invariance, PTL

(* The chunks a turn has retrieved exist when its citations are inserted,  *)
(* although the documents may be processed, reprocessed after a failure,   *)
(* or deleted while the answer is generated; the exception are documents   *)
(* whose jobs or requests have overtaken each other.                       *)
THEOREM CitedChunksExistCorrect == Spec => []CitedChunksExist
<1>1. Inv => CitedChunksExist
  BY DEF Inv, TypeOK, Reader, ReaderKnows, CitedChunksExist
<1>2. QED
  BY <1>1, Invariance, PTL
===============================================================================

---------------------------- MODULE DocumentReaders ----------------------------
(***************************************************************************)
(* The readers of documents beside the pipeline that processes them: the   *)
(* content viewer, global search, the status stream and the retrieval of a *)
(* chat turn.  Each reads by several statements, and documents are         *)
(* processed, reprocessed and deleted between them.  What the pipeline may *)
(* do in between is its abstract specification, DocumentLifecycle, with    *)
(* all that jobs and requests of one document do when they overtake each   *)
(* other (a reprocess admitted on a stale row, a callback that comes too   *)
(* late, a second job).  A document that this has happened to is           *)
(* "disturbed"; the properties say what it costs the readers.              *)
(***************************************************************************)
EXTENDS Naturals

CONSTANTS
  Docs,      (* documents of the user                                      *)
  Readers,   (* requests that read documents; each makes one call          *)
  MaxPolls,  (* _SSE_MAX_ITERATIONS                                        *)
  None       (* "nothing loaded", "nothing sent"                           *)

ASSUME ReadersAssumption == MaxPolls \in Nat \ {0}

VARIABLES
  phase,     (* DocumentLifecycle's                                        *)
  indexed,   (* DocumentLifecycle's: does the document have chunks?        *)
  ready,     (* documents whose status column is "ready", deleted or not   *)
  published, (* history: documents that have ever been ready               *)
  disturbed, (* history: documents whose jobs or requests overtook each    *)
             (* other                                                      *)
  reader     (* each reader                                                *)

history == <<published, disturbed>>

vars == <<phase, indexed, ready, history, reader>>

Documents == INSTANCE DocumentLifecycle

-------------------------------------------------------------------------------
Kinds == {"content", "search", "stream", "chat"}

(* "docs" is what the reader was asked about, "shown" the documents whose  *)
(* content it has handed on.  A stream also has the Document object that   *)
(* its session holds, and the polls it has made.                           *)
Reader == [pc : {"new", "chunks", "query", "poll", "verify", "retrieve", "cite", "done"},
           kind : Kinds, docs : SUBSET Docs, shown : SUBSET Docs,
           object : {None, "pending", "ready", "failed"}, polls : 0..MaxPolls]

NewReader == [pc |-> "new", kind |-> "content", docs |-> {}, shown |-> {},
              object |-> None, polls |-> 0]

Init ==
  /\ Documents!Init
  /\ ready = {}
  /\ published = {}
  /\ disturbed = {}
  /\ reader = [r \in Readers |-> NewReader]

(* A document is processed, reprocessed or deleted.  The status column of  *)
(* a deleted document no longer changes.                                   *)
LifecycleStep ==
  /\ \/ Documents!Next /\ UNCHANGED disturbed
     \/ \E d \in Docs : Documents!Disturb(d) /\ disturbed' = disturbed \cup {d}
  /\ ready' = {d \in Docs : phase'[d] = "ready" \/ (phase'[d] = "deleted" /\ d \in ready)}
  /\ published' = published \cup ready'
  /\ UNCHANGED reader

Becomes(r, x) ==
  /\ reader' = [reader EXCEPT ![r] = x]
  /\ UNCHANGED <<phase, indexed, ready, history>>

Begin(r, kind, pc, S) ==
  /\ reader[r].pc = "new"
  /\ Becomes(r, [NewReader EXCEPT !.pc = pc, !.kind = kind, !.docs = S])

(* DocumentRepository.get finds the document.                              *)
Found(d) == phase[d] \notin {"absent", "deleted"}

-------------------------------------------------------------------------------
(* GET /documents/{id}/content: the row, then its chunks.                  *)

(* Mutant: the status is not checked. *)
GetContent_AnyStatus(r, d) == Found(d) /\ Begin(r, "content", "chunks", {d})

GetContent(r, d) ==
  /\ Found(d)
  /\ d \in ready
  /\ Begin(r, "content", "chunks", {d})

ListChunks(r) ==
  /\ reader[r].pc = "chunks"
  /\ Becomes(r, [reader[r] EXCEPT !.pc = "done",
                                  !.shown = {d \in reader[r].docs : indexed[d]}])

-------------------------------------------------------------------------------
(* GET /search: the query is embedded, then one statement finds documents  *)
(* by their chunks or their name.                                          *)

Search(r) == Begin(r, "search", "query", {})

FilteredDocuments == {d \in Docs : Found(d)}

FuseCandidates(r) ==
  /\ reader[r].pc = "query"
  /\ \E hits \in SUBSET FilteredDocuments :
       Becomes(r, [reader[r] EXCEPT !.pc = "done", !.shown = hits])

-------------------------------------------------------------------------------
(* GET /documents/{id}/status/stream.                                      *)

(* The ownership check; its Document object is dropped.                    *)
StreamStatus(r, d) == Found(d) /\ Begin(r, "stream", "poll", {d})

(* What the poll's SELECT gives: the object that the generator still holds *)
(* from the poll before is what the session's identity map returns for the *)
(* row, with the attributes it was loaded with.  A stream that has begun   *)
(* with "pending" says so until it gives up.                               *)
Polled(r, d) == IF reader[r].object = None THEN phase[d] ELSE reader[r].object

(* Mutant: one poll too many. *)
PollStatus_OneMore(r) ==
  \E d \in reader[r].docs :
    LET x == reader[r]
        status == Polled(r, d)
        ends == status \in {"ready", "failed"} \/ x.polls = MaxPolls
    IN
    /\ x.pc = "poll"
    /\ IF Found(d)
       THEN Becomes(r, [x EXCEPT !.pc = IF ends THEN "done" ELSE "poll", !.object = status,
                                 !.shown = {d}, !.polls = @ + 1])
       ELSE Becomes(r, [x EXCEPT !.pc = "done"])

(* One iteration of _status_event_stream.                                  *)
PollStatus(r) ==
  \E d \in reader[r].docs :
    LET x == reader[r]
        status == Polled(r, d)
        ends == status \in {"ready", "failed"} \/ x.polls + 1 = MaxPolls
    IN
    /\ x.pc = "poll"
    /\ IF Found(d)
       THEN Becomes(r, [x EXCEPT !.pc = IF ends THEN "done" ELSE "poll", !.object = status,
                                 !.shown = {d}, !.polls = @ + 1])
       ELSE Becomes(r, [x EXCEPT !.pc = "done"])

Disconnect(r) == reader[r].pc = "poll" /\ Becomes(r, [reader[r] EXCEPT !.pc = "done"])

-------------------------------------------------------------------------------
(* A conversation and a turn of it.                                        *)

(* Mutant: the statuses are not looked at. *)
VerifyDocumentsReady_Owned(S) == \A d \in S : phase[d] # "absent"

(* _verify_documents_ready: get_many, which finds deleted rows too.        *)
VerifyDocumentsReady(S) == S \subseteq ready

(* create_conversation: about some documents, or the whole workspace.      *)
CreateConversation(r, S) ==
  /\ VerifyDocumentsReady(S)
  /\ Begin(r, "chat", "verify", S)

(* prepare_message_turn, prepare_regenerate_turn.                          *)
PrepareTurn(r) ==
  /\ reader[r].pc = "verify"
  /\ Becomes(r, [reader[r] EXCEPT !.pc = IF VerifyDocumentsReady(reader[r].docs)
                                         THEN "retrieve" ELSE "done"])

(* retrieve: the best chunks of the conversation's documents, or of all.   *)
SimilaritySearch(r) ==
  /\ reader[r].pc = "retrieve"
  /\ \E S \in SUBSET {d \in Docs : indexed[d]} :
       /\ reader[r].docs = {} \/ S \subseteq reader[r].docs
       /\ Becomes(r, [reader[r] EXCEPT !.pc = "cite", !.shown = S])

(* record_citations: citations.document_chunk_id refers to those chunks.   *)
RecordCitations(r) ==
  /\ reader[r].pc = "cite"
  /\ Becomes(r, [reader[r] EXCEPT !.pc = "done"])

-------------------------------------------------------------------------------
Call(r) ==
  \/ \E d \in Docs : GetContent(r, d) \/ StreamStatus(r, d)
  \/ Search(r)
  \/ \E S \in SUBSET Docs : CreateConversation(r, S)

Step(r) ==
  \/ ListChunks(r) \/ FuseCandidates(r) \/ PollStatus(r)
  \/ PrepareTurn(r) \/ SimilaritySearch(r) \/ RecordCitations(r)

Next ==
  \/ LifecycleStep
  \/ \E r \in Readers : Call(r) \/ Step(r) \/ Disconnect(r)

(* A request that has begun is carried on; a client need not hang up.      *)
Spec == Init /\ [][Next]_vars /\ \A r \in Readers : WF_vars(Step(r))

-------------------------------------------------------------------------------
TypeOK ==
  /\ phase \in [Docs -> {"absent", "pending", "ready", "failed", "deleted"}]
  /\ indexed \in [Docs -> BOOLEAN]
  /\ ready \subseteq Docs
  /\ published \subseteq Docs
  /\ disturbed \subseteq Docs
  /\ reader \in [Readers -> Reader]

(* The viewer never shows a document without its text, although status and *)
(* chunks are read by two statements and the document may be deleted, or   *)
(* processed and reprocessed after a failure, before, after and between    *)
(* them: unless its jobs or requests overtook each other.                  *)
ContentIsWhole ==
  \A r \in Readers :
    reader[r].kind = "content" /\ reader[r].pc = "done" =>
      reader[r].docs \ disturbed \subseteq reader[r].shown

(* What a turn about chosen documents retrieves comes from these, and from *)
(* documents that had become ready, whatever has overtaken what; the       *)
(* retrieval itself checks neither the status nor the deletion.            *)
ContextIsInScope ==
  \A r \in Readers :
    reader[r].kind = "chat" /\ reader[r].docs # {} =>
      reader[r].shown \subseteq reader[r].docs \cap published

(* The chunks that a turn has retrieved are still there when it cites      *)
(* them, unless those of a document whose jobs or requests overtook each   *)
(* other: these may have been discarded, or replaced by others.            *)
CitedChunksExist ==
  \A r \in Readers :
    reader[r].pc = "cite" => \A d \in reader[r].shown \ disturbed : indexed[d]

(* Not the case.  specs/privacy.md: deleting a document "immediately       *)
(* excludes it from every list, search, and RAG-retrieval query            *)
(* (repository-layer filter ...)".                                         *)
DeletedIsNotRetrieved ==
  [][\A r \in Readers : SimilaritySearch(r) => reader'[r].shown \subseteq {d \in Docs : Found(d)}]_vars

(* Not the case.  _status_event_stream: "each poll's own SELECT sees the   *)
(* latest committed value, even from a different transaction".             *)
PollsSeeLatest ==
  [][\A r \in Readers, d \in Docs :
       reader[r].docs = {d} /\ Found(d) /\ PollStatus(r) => reader'[r].object = phase[d]]_vars
===============================================================================

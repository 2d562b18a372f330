---------------------------- MODULE DocumentLibrary ----------------------------
(***************************************************************************)
(* One user's library: the storage counter and the quotas that documents   *)
(* are uploaded under, and the tags that are put on them.                  *)
(*                                                                         *)
(* Every request is one database transaction at READ COMMITTED: it reads   *)
(* what others have committed, writes under row locks, and its writes are  *)
(* seen when it commits.  storage_used_bytes is read by one statement and  *)
(* written, as an absolute value, by a later one.  What object storage     *)
(* and the pipeline do with a document is DocumentPipeline's subject.      *)
(***************************************************************************)
EXTENDS Integers, Sequences, FiniteSets, FiniteSetsExt

CONSTANTS
  Docs,           (* documents                                             *)
  TagIds,         (* tag rows                                              *)
  NameOf,         (* the name of each tag row                              *)
  Requests,       (* API requests; each makes one call                     *)
  Size,           (* bytes of each document                                *)
  Quota,          (* STORAGE_QUOTA_BYTES of the user's plan                *)
  DocumentLimit,  (* DOCUMENT_QUOTA of the user's plan                     *)
  Lists,          (* bound: lists of documents that bulk requests name     *)
  TagSets,        (* bound: sets of tags that requests name                *)
  AbortBudget,    (* bound: requests that die before they commit           *)
  None            (* "the user row is not written"                         *)

ASSUME LibraryAssumption ==
  /\ IsFiniteSet(Docs)
  /\ Size \in [Docs -> Nat \ {0}]
  /\ {Quota, DocumentLimit, AbortBudget} \subseteq Nat
  /\ Lists \subseteq Seq(Docs) \ {<<>>}
  /\ TagSets \subseteq SUBSET TagIds
  /\ None \notin Nat

VARIABLES
  doc,         (* committed row of each document                           *)
  used,        (* users.storage_used_bytes                                 *)
  tags,        (* committed tag rows                                       *)
  tagged,      (* committed document_tags rows                             *)
  req,         (* each request and its open transaction                    *)
  overlapped,  (* history: kinds of request of which two were ever open    *)
  abortsLeft   (* what is left of AbortBudget                              *)

vars == <<doc, used, tags, tagged, req, overlapped, abortsLeft>>

-------------------------------------------------------------------------------
(* "deleted" tells by which call deleted_at was set.  What file names say  *)
(* is left out, but not that renaming locks the row.                       *)
Row == [phase : {"absent", "presigned", "confirmed"}, deleted : {"no", "alone", "in_bulk"}]

PCs == {"new", "count", "confirm", "soft_delete", "read_user", "write_user", "rename",
        "check_tags", "clear", "clear_rows", "insert", "each", "insert_tag", "drop_tag",
        "cascade", "commit", "done"}

Kinds == [presign |-> "presign", confirm |-> "charge", delete |-> "charge",
          rename |-> "rename", retag |-> "tags", update |-> "tags",
          bulk_delete |-> "charge", bulk_tag |-> "tags",
          create_tag |-> "tags", delete_tag |-> "tags"]

(* A request: its arguments "docs" and "want", the usage it has read, and  *)
(* what its transaction has written: document rows, the user row, pairs    *)
(* of document_tags deleted (of those found) and inserted, tag rows        *)
(* inserted and deleted.                                                   *)
Request == [pc : PCs, op : DOMAIN Kinds, docs : Seq(Docs), want : SUBSET TagIds, read : Nat,
            rows : SUBSET Docs, bytes : Nat \cup {None},
            found : SUBSET (Docs \X TagIds), cleared : SUBSET (Docs \X TagIds),
            added : SUBSET (Docs \X TagIds), created : SUBSET TagIds, dropped : SUBSET TagIds]

Idle(pc) == [pc |-> pc, op |-> "rename", docs |-> <<>>, want |-> {}, read |-> 0, rows |-> {},
             bytes |-> None, found |-> {}, cleared |-> {}, added |-> {}, created |-> {},
             dropped |-> {}]

Present == {d \in Docs : doc[d].phase # "absent" /\ doc[d].deleted = "no"}

Total(S) == MapThenSumSet(LAMBDA d : Size[d], S)

Pairs(d, G) == {d} \X G

NamesDiffer(G) == \A g, h \in G : g # h => NameOf[g] # NameOf[h]

(* A library that earlier requests have left.                              *)
Init ==
  /\ doc \in [Docs -> [phase : {"absent", "presigned", "confirmed"}, deleted : {"no"}]]
  /\ used = Total({d \in Docs : doc[d].phase = "confirmed"})
  /\ tags \in {G \in SUBSET TagIds : NamesDiffer(G)}
  /\ tagged \in {T \in SUBSET (Present \X tags) : Cardinality(T) <= 1}
  /\ req = [r \in Requests |-> Idle("new")]
  /\ overlapped = {}
  /\ abortsLeft = AbortBudget

-------------------------------------------------------------------------------
(* Transactions.                                                           *)

Open(r) == req[r].pc \notin {"new", "done"}

Target(r) == Head(req[r].docs)

Becomes(r, x) == req' = [req EXCEPT ![r] = x]

Goto(r, pc) == Becomes(r, [req[r] EXCEPT !.pc = pc])

Unchanged == UNCHANGED <<doc, used, tags, tagged, overlapped, abortsLeft>>

(* The counter that r is going to write, from the one that it has read.    *)
NewTotal(r) ==
  IF req[r].op = "confirm" THEN req[r].read + Size[Target(r)]
  ELSE Max({0, req[r].read - Size[Target(r)]})

(* What the next statement of r waits for: the transactions that hold a    *)
(* row lock, or a unique index entry, that it needs.                       *)
Needs(r, s) ==
  LET q == req[r]
      p == req[s]
  IN
  \/ /\ \/ q.pc \in {"confirm", "soft_delete", "rename"}
        \/ (q.pc = "each" /\ q.op = "bulk_delete" /\ q.docs # <<>>)
     /\ Target(r) \in p.rows
  \/ q.pc = "write_user" /\ NewTotal(r) # q.read /\ p.bytes # None
  \/ q.pc = "clear_rows" /\ q.found \cap p.cleared # {}
  \/ /\ \/ q.pc = "insert"
        \/ (q.pc = "each" /\ q.op = "bulk_tag" /\ q.docs # <<>>)
     /\ \/ Pairs(Target(r), q.want) \cap (p.cleared \cup p.added) # {}
        \/ q.want \cap p.dropped # {}
  \/ /\ q.pc = "insert_tag"
     /\ ~NamesDiffer(q.want \cup p.created) \/ ~NamesDiffer(q.want \cup p.dropped)
  \/ q.pc = "drop_tag" /\ q.want \cap (p.dropped \cup {x[2] : x \in p.added}) # {}
  \/ q.pc = "cascade" /\ (Docs \X q.want) \cap p.cleared # {}

Blockers(r) == {s \in Requests \ {r} : Open(s) /\ Needs(r, s)}

(* The next statement of r is the one at pc, and gets its locks.           *)
Runs(r, pc) == req[r].pc = pc /\ Blockers(r) = {}

(* The call begins; "overlapped" notes that another of its kind is open.   *)
Begin(r, op, pc, list, want) ==
  /\ req[r].pc = "new"
  /\ Becomes(r, [Idle(pc) EXCEPT !.op = op, !.docs = list, !.want = want])
  /\ overlapped' = overlapped \cup
       {Kinds[op] : s \in {s \in Requests : Open(s) /\ Kinds[req[s].op] = Kinds[op]}}
  /\ UNCHANGED <<doc, used, tags, tagged, abortsLeft>>

(* A call that ends without having written anything, whatever it answers,  *)
(* or whose transaction is rolled back.                                    *)
End(r) == Becomes(r, Idle("done")) /\ Unchanged

(* What a committed request has made of a document row.                    *)
Written(op, row) ==
  CASE op = "presign"           -> [row EXCEPT !.phase = "presigned"]
    [] op = "confirm"           -> [row EXCEPT !.phase = "confirmed"]
    [] op = "delete"            -> [row EXCEPT !.deleted = "alone"]
    [] op = "bulk_delete"       -> [row EXCEPT !.deleted = "in_bulk"]
    [] op \in {"rename", "update"} -> row

Commit(r) ==
  LET q == req[r] IN
  /\ q.pc = "commit"
  /\ doc' = [d \in Docs |-> IF d \in q.rows THEN Written(q.op, doc[d]) ELSE doc[d]]
  /\ used' = IF q.bytes = None THEN used ELSE q.bytes
  /\ tags' = (tags \ q.dropped) \cup q.created
  /\ tagged' = (tagged \ q.cleared) \cup q.added
  /\ Becomes(r, Idle("done"))
  /\ UNCHANGED <<overlapped, abortsLeft>>

(* The request dies, or the database does, before its commit.              *)
Abort(r) ==
  /\ Open(r)
  /\ abortsLeft > 0
  /\ abortsLeft' = abortsLeft - 1
  /\ Becomes(r, Idle("done"))
  /\ UNCHANGED <<doc, used, tags, tagged, overlapped>>

(* Requests that wait for each other, none to spare: one is rolled back.   *)
Deadlocked(S) == S # {} /\ \A r \in S : Blockers(r) \cap S # {}

InDeadlock(r) ==
  /\ Blockers(r) # {}
  /\ \E S \in SUBSET Requests : /\ r \in S
                               /\ Deadlocked(S)
                               /\ \A T \in (SUBSET S) \ {S} : ~Deadlocked(T)

BreakDeadlock(r) == Open(r) /\ InDeadlock(r) /\ End(r)

-------------------------------------------------------------------------------
(* Uploads.                                                                *)

(* presign_upload, up to its storage check.                                *)
PresignUpload(r, d) ==
  /\ doc[d].phase = "absent"
  /\ \A s \in Requests : req[s].op = "presign" => req[s].docs # <<d>>
  /\ used + Size[d] <= Quota
  /\ Begin(r, "presign", "count", <<d>>, {})

(* Its document check, and the new row.                                    *)
CountDocuments(r) ==
  /\ Runs(r, "count")
  /\ IF Cardinality(Present) >= DocumentLimit
     THEN End(r)
     ELSE /\ Becomes(r, [req[r] EXCEPT !.pc = "commit", !.rows = {Target(r)}])
          /\ Unchanged

(* confirm_upload of a document whose bytes have arrived and match; one    *)
(* that is confirmed already is answered at once, without a write.         *)
ConfirmUpload(r, d) ==
  /\ d \in Present
  /\ Begin(r, "confirm", IF doc[d].phase = "confirmed" THEN "commit" ELSE "confirm", <<d>>, {})

(* confirm_if_unconfirmed: the guarded UPDATE matches the row or none.     *)
ConfirmIfUnconfirmed(r) ==
  /\ Runs(r, "confirm")
  /\ IF Target(r) \in Present /\ doc[Target(r)].phase = "presigned"
     THEN /\ Becomes(r, [req[r] EXCEPT !.pc = "read_user", !.rows = {Target(r)}])
          /\ Unchanged
     ELSE End(r)

(* get_by_id: the row, and with it the counter, as it is now.              *)
ReadUser(r) ==
  /\ Runs(r, "read_user")
  /\ Becomes(r, [req[r] EXCEPT !.pc = "write_user", !.read = used])
  /\ Unchanged

Charge(r, total) ==
  /\ Runs(r, "write_user")
  /\ Becomes(r, [req[r] EXCEPT !.pc = "commit",
                               !.bytes = IF total = req[r].read THEN None ELSE total])
  /\ Unchanged

(* Mutant: the counter is not kept from falling below zero. *)
UpdateUser_NoFloor(r) ==
  Charge(r, IF req[r].op = "confirm" THEN NewTotal(r) ELSE req[r].read - Size[Target(r)])

(* Mutant: a delete that does not give the space back. *)
UpdateUser_OnlyAdds(r) ==
  Charge(r, IF req[r].op = "confirm" THEN NewTotal(r) ELSE req[r].read)

(* user_repo.update with what was read, plus or minus the size; a total    *)
(* that is the one read is no change, and no UPDATE is sent.               *)
UpdateUser(r) == Charge(r, NewTotal(r))

-------------------------------------------------------------------------------
(* Deletes.                                                                *)

DeleteDocument(r, d) ==
  /\ d \in Present
  /\ Begin(r, "delete", "soft_delete", <<d>>, {})

(* soft_delete looks again; delete_document does not look at its answer.   *)
SoftDelete(r) ==
  /\ Runs(r, "soft_delete")
  /\ Becomes(r, [req[r] EXCEPT !.pc = "read_user",
                               !.rows = IF Target(r) \in Present THEN {Target(r)} ELSE {}])
  /\ Unchanged

(* bulk_action: its tags are checked first, then each document is taken in *)
(* the order of the request.                                               *)
BulkAction(r, list, want) ==
  /\ IF want = {} THEN Begin(r, "bulk_delete", "each", list, {})
     ELSE want \subseteq tags /\ Begin(r, "bulk_tag", "each", list, want)

Skipped(r) == Target(r) \notin Present \/ (req[r].op = "bulk_delete" /\ Target(r) \in req[r].rows)

(* DocumentTagRepository.add: the primary key and the foreign keys.        *)
PairsFit(r) ==
  LET q == req[r] IN
  /\ Pairs(Target(r), q.want) \cap ((tagged \ q.cleared) \cup q.added) = {}
  /\ q.want \subseteq tags

(* Mutant: a bulk delete gives the space back, document by document. *)
BulkEach_GivesBack(r) ==
  LET q == req[r] IN
  /\ Runs(r, "each")
  /\ q.docs # <<>>
  /\ q.op = "bulk_delete"
  /\ \A s \in Requests \ {r} : req[s].bytes = None
  /\ ~Skipped(r)
  /\ Becomes(r, [q EXCEPT !.docs = Tail(@), !.rows = @ \cup {Target(r)},
                          !.bytes = Max({0, used - Size[Target(r)]})])
  /\ Unchanged

(* One document: deleted, or given all the tags.                           *)
BulkEach(r) ==
  LET q == req[r]
      next == [q EXCEPT !.docs = Tail(@)]
  IN
  /\ Runs(r, "each")
  /\ q.docs # <<>>
  /\ \/ Skipped(r) /\ Becomes(r, next)
     \/ /\ ~Skipped(r)
        /\ q.op = "bulk_delete"
        /\ Becomes(r, [next EXCEPT !.rows = @ \cup {Target(r)}])
     \/ /\ ~Skipped(r)
        /\ q.op = "bulk_tag"
        /\ IF PairsFit(r) THEN Becomes(r, [next EXCEPT !.added = @ \cup Pairs(Target(r), q.want)])
                          ELSE Becomes(r, Idle("done"))
  /\ Unchanged

BulkEnds(r) ==
  /\ Runs(r, "each")
  /\ req[r].docs = <<>>
  /\ Goto(r, "commit")
  /\ Unchanged

-------------------------------------------------------------------------------
(* Names and tags.                                                         *)

(* update_document, with a new name, a new tag set or both.                *)
UpdateDocument(r, d, op, want) ==
  /\ d \in Present
  /\ Begin(r, op, IF op = "retag" THEN "check_tags" ELSE "rename", <<d>>, want)

(* The new name is flushed by the next query, before the tags are checked. *)
Rename(r) ==
  /\ Runs(r, "rename")
  /\ Becomes(r, [req[r] EXCEPT !.pc = IF req[r].op = "rename" THEN "commit" ELSE "check_tags",
                               !.rows = {Target(r)}])
  /\ Unchanged

(* A tag that is not the user's is a 404, which commits what was flushed.  *)
CheckTags(r) ==
  /\ Runs(r, "check_tags")
  /\ Goto(r, IF req[r].want \subseteq tags THEN "clear" ELSE "commit")
  /\ Unchanged

(* Mutant: the new tags are added to the old ones. *)
FindPairs_None(r) ==
  /\ Runs(r, "clear")
  /\ Goto(r, "clear_rows")
  /\ Unchanged

(* replace_for_document: its DELETE finds the pairs that are committed ... *)
FindPairs(r) ==
  /\ Runs(r, "clear")
  /\ Becomes(r, [req[r] EXCEPT !.pc = "clear_rows",
                               !.found = tagged \cap Pairs(Target(r), TagIds)])
  /\ Unchanged

(* ... and deletes those that are still there when it has their locks.     *)
ClearPairs(r) ==
  /\ Runs(r, "clear_rows")
  /\ Becomes(r, [req[r] EXCEPT !.pc = "insert", !.cleared = req[r].found \cap tagged,
                               !.found = {}])
  /\ Unchanged

InsertPairs(r) ==
  /\ Runs(r, "insert")
  /\ IF PairsFit(r)
     THEN Becomes(r, [req[r] EXCEPT !.pc = "commit", !.added = Pairs(Target(r), req[r].want)])
     ELSE Becomes(r, Idle("done"))
  /\ Unchanged

(* create_tag: 409 if the name is taken.                                   *)
CreateTag(r, g) ==
  /\ g \notin tags
  /\ \A s \in Requests : req[s].op = "create_tag" => req[s].want # {g}
  /\ NamesDiffer(tags \cup {g})
  /\ Begin(r, "create_tag", "insert_tag", <<>>, {g})

(* Mutant: no UNIQUE (user_id, name). *)
InsertTag_NoIndex(r) ==
  /\ Runs(r, "insert_tag")
  /\ Becomes(r, [req[r] EXCEPT !.pc = "commit", !.created = req[r].want])
  /\ Unchanged

(* UNIQUE (user_id, name) has the last word: a 500, rolled back.           *)
InsertTag(r) ==
  /\ Runs(r, "insert_tag")
  /\ IF NamesDiffer(tags \cup req[r].want)
     THEN Becomes(r, [req[r] EXCEPT !.pc = "commit", !.created = req[r].want])
     ELSE Becomes(r, Idle("done"))
  /\ Unchanged

DeleteTag(r, g) ==
  /\ g \in tags
  /\ Begin(r, "delete_tag", "drop_tag", <<>>, {g})

(* The row ...                                                             *)
DropTag(r) ==
  /\ Runs(r, "drop_tag")
  /\ Becomes(r, [req[r] EXCEPT !.pc = "cascade", !.dropped = req[r].want \cap tags])
  /\ Unchanged

(* Mutant: document_tags.tag_id does not cascade. *)
Cascade_None(r) ==
  /\ Runs(r, "cascade")
  /\ Goto(r, "commit")
  /\ Unchanged

(* ... and by ON DELETE CASCADE the pairs that refer to it.                *)
Cascade(r) ==
  /\ Runs(r, "cascade")
  /\ Becomes(r, [req[r] EXCEPT !.pc = "commit",
                               !.cleared = tagged \cap (Docs \X req[r].want)])
  /\ Unchanged

-------------------------------------------------------------------------------
Call(r) ==
  \/ \E d \in Docs : \/ PresignUpload(r, d) \/ ConfirmUpload(r, d) \/ DeleteDocument(r, d)
                    \/ UpdateDocument(r, d, "rename", {})
                    \/ \E op \in {"retag", "update"}, want \in TagSets :
                         UpdateDocument(r, d, op, want)
  \/ \E list \in Lists, want \in TagSets : BulkAction(r, list, want)
  \/ \E g \in TagIds : CreateTag(r, g) \/ DeleteTag(r, g)

Step(r) ==
  \/ CountDocuments(r) \/ ConfirmIfUnconfirmed(r) \/ ReadUser(r) \/ UpdateUser(r)
  \/ SoftDelete(r) \/ BulkEach(r) \/ BulkEnds(r)
  \/ Rename(r) \/ CheckTags(r) \/ FindPairs(r) \/ ClearPairs(r) \/ InsertPairs(r)
  \/ InsertTag(r) \/ DropTag(r) \/ Cascade(r)
  \/ Commit(r) \/ BreakDeadlock(r)

Next == \E r \in Requests : Call(r) \/ Step(r) \/ Abort(r)

Spec == Init /\ [][Next]_vars

-------------------------------------------------------------------------------
TypeOK ==
  /\ doc \in [Docs -> Row]
  /\ used \in Nat
  /\ tags \subseteq TagIds
  /\ req \in [Requests -> Request]
  /\ abortsLeft \in Nat

(* Confirms and deletes that do not overlap leave storage_used_bytes equal *)
(* to the size of the confirmed documents, whatever is retried or dies in  *)
(* between, except that bulk deletes give nothing back and the delete of   *)
(* an unconfirmed document gives back what it never took ("maintained      *)
(* transactionally on upload/delete", specs/database.md).                  *)
UsageIsExact ==
  \/ "charge" \in overlapped
  \/ \E d \in Docs : doc[d].deleted = "alone" /\ doc[d].phase # "confirmed"
  \/ used = Total({d \in Docs : doc[d].phase = "confirmed" /\ doc[d].deleted # "alone"})

(* However tags are created, deleted and put on documents concurrently, a  *)
(* user's tag names differ and documents have tags that exist.             *)
TagsAreConsistent == NamesDiffer(tags) /\ tagged \subseteq Docs \X tags

(* A PATCH with tag_ids that no other tag request overlaps replaces the    *)
(* whole set (replace_for_document's "replaces the full tag set").         *)
PatchReplacesTags ==
  [][\A r \in Requests :
       /\ req[r].op \in {"retag", "update"} /\ Commit(r)
       /\ req[r].want \subseteq tags /\ "tags" \notin overlapped
       => tagged' \cap Pairs(Target(r), TagIds) = Pairs(Target(r), req[r].want)]_vars

(* Only bulk and tag requests run into deadlocks with each other: a call   *)
(* that uploads, renames or deletes one document locks its row before the  *)
(* user's and nothing else, and is never rolled back for another's sake.   *)
NoDeadlockedUpload ==
  \A r \in Requests : Open(r) /\ InDeadlock(r) => Kinds[req[r].op] = "tags" \/ req[r].op = "bulk_delete"
===============================================================================

------------------------ MODULE DocumentLibrary_proofs ------------------------
(***************************************************************************)
(* Proofs about DocumentLibrary, for any documents, tags, requests, sizes, *)
(* quotas and aborts.                                                      *)
(***************************************************************************)
EXTENDS DocumentLibrary, FiniteSetTheorems, TLAPS

USE LibraryAssumption DEF LibraryAssumption

-------------------------------------------------------------------------------
(* Sums of sizes.  Total folds over a set in the order in which CHOOSE     *)
(* takes its elements; a least set that did otherwise than these lemmas    *)
(* say does not exist.                                                     *)

AnElement(s) == CHOOSE x \in s : TRUE

IsSum(f, S) ==
  f = [s \in SUBSET S |-> IF s = {} THEN 0 ELSE Size[AnElement(s)] + f[s \ {AnElement(s)}]]

SumOver(S) == CHOOSE f : IsSum(f, S)

LEMMA TotalIsSum == ASSUME NEW S PROVE Total(S) = SumOver(S)[S]
  BY DEF Total, MapThenSumSet, MapThenFoldSet, SumOver, IsSum, AnElement

LEMMA AnElementIsIn == ASSUME NEW s, s # {} PROVE AnElement(s) \in s
  BY DEF AnElement

LEMMA LeastSet ==
  ASSUME NEW B \in SUBSET (SUBSET Docs), B # {}
  PROVE  \E T \in B : \A U \in SUBSET T : U # T => U \notin B
<1>1. IsWellFoundedOn(StrictSubsetOrdering(Docs), SUBSET Docs)
  <2>1. FiniteSubsetsOf(Docs) = SUBSET Docs
    BY FS_FiniteSubsetsOfFinite
  <2>2. IsWellFoundedOn(StrictSubsetOrdering(Docs), FiniteSubsetsOf(Docs))
    BY FS_StrictSubsetOrderingWellFounded
  <2> QED
    BY <2>1, <2>2
<1>2. PICK T \in B : \A U \in B : <<U, T>> \notin StrictSubsetOrdering(Docs)
  BY <1>1, WFMin
<1>3. ASSUME NEW U \in SUBSET T, U # T, U \in B PROVE FALSE
  <2>1. <<U, T>> \in StrictSubsetOrdering(Docs)
    BY <1>3 DEF StrictSubsetOrdering
  <2> QED
    BY <1>2, <1>3, <2>1
<1> QED
  BY <1>3

(* What a sum over S makes of a set.                                       *)
LEMMA SumStep ==
  ASSUME NEW S, NEW f, NEW s, IsSum(f, S), s \in SUBSET S
  PROVE  f[s] = IF s = {} THEN 0 ELSE Size[AnElement(s)] + f[s \ {AnElement(s)}]
  BY Zenon DEF IsSum

LEMMA SumsAgree ==
  ASSUME NEW S, NEW R, NEW f, NEW g, NEW s, IsSum(f, S), IsSum(g, R),
         S \in SUBSET Docs, R \in SUBSET S, s \in SUBSET R
  PROVE  f[s] = g[s]
<1> DEFINE B == {u \in SUBSET R : f[u] # g[u]}
<1> SUFFICES ASSUME B # {} PROVE FALSE
  OBVIOUS
<1>1. PICK u \in B : \A v \in SUBSET u : v # u => v \notin B
  BY LeastSet
<1>2. u # {}
  BY SumStep
<1>3. AnElement(u) \in u
  BY <1>2, AnElementIsIn
<1>4. f[u \ {AnElement(u)}] = g[u \ {AnElement(u)}]
  BY <1>1, <1>3
<1>5. f[u] = Size[AnElement(u)] + f[u \ {AnElement(u)}] /\ g[u] = Size[AnElement(u)] + g[u \ {AnElement(u)}]
  BY <1>2, SumStep
<1> QED
  BY <1>4, <1>5

LEMMA SumsAgreeOnAll ==
  ASSUME NEW S, NEW R, NEW f, NEW g, IsSum(f, S), IsSum(g, R),
         S \in SUBSET Docs, R \in SUBSET S
  PROVE  f[R] = g[R]
<1>1. R \in SUBSET R
  OBVIOUS
<1> QED
  BY <1>1, SumsAgree

(* The sums over two sets, of what is left of the larger one.              *)
LEMMA SumOfRest ==
  ASSUME NEW U, NEW V, NEW f, NEW g, IsSum(f, U), IsSum(g, V),
         U \in SUBSET Docs, U # {}, V = U \ {AnElement(U)}
  PROVE  f[U] = Size[AnElement(U)] + g[V]
<1>1. V \in SUBSET U /\ V \in SUBSET V /\ U \in SUBSET U
  OBVIOUS
<1>2. f[U] = Size[AnElement(U)] + f[V]
  BY <1>1 DEF IsSum
<1>3. f[V] = g[V]
  BY <1>1, SumsAgreeOnAll
<1> QED
  BY <1>2, <1>3

LEMMA SumOfNone == ASSUME NEW f, IsSum(f, {}) PROVE f[{}] = 0
  BY DEF IsSum

LEMMA SumsExist == \A S \in SUBSET Docs : IsSum(SumOver(S), S)
<1> DEFINE B == {T \in SUBSET Docs : ~IsSum(SumOver(T), T)}
<1> SUFFICES ASSUME B # {} PROVE FALSE
  OBVIOUS
<1>1. PICK T \in B : \A U \in SUBSET T : U # T => U \notin B
  BY LeastSet
<1>2. T \in SUBSET Docs /\ ~IsSum(SumOver(T), T)
  BY <1>1
<1>3. \A U \in SUBSET T : U # T => IsSum(SumOver(U), U)
  BY <1>1, <1>2
<1> HIDE DEF B
<1> DEFINE sum(U) == SumOver(U)[U]
           f == [s \in SUBSET T |-> IF s = {} THEN 0 ELSE Size[AnElement(s)] + sum(s \ {AnElement(s)})]
<1>4. ASSUME NEW U \in SUBSET T, U # T PROVE f[U] = sum(U)
  <2>1. IsSum(SumOver(U), U)
    BY <1>3, <1>4
  <2>2. CASE U = {}
    BY <2>1, <2>2, SumOfNone
  <2>3. CASE U # {}
    <3>1. PICK V : V = U \ {AnElement(U)}
      OBVIOUS
    <3>2. V \in SUBSET T /\ V # T
      BY <1>4, <3>1
    <3>3. IsSum(SumOver(V), V)
      BY <1>3, <3>2
    <3>4. PICK g, h : g = SumOver(U) /\ h = SumOver(V)
      OBVIOUS
    <3>5. g[U] = Size[AnElement(U)] + h[V]
      BY <1>2, <2>1, <2>3, <3>1, <3>3, <3>4, SumOfRest
    <3>6. f[U] = Size[AnElement(U)] + sum(V)
      BY <2>3, <3>1
    <3> QED
      BY <3>4, <3>5, <3>6
  <2> QED
    BY <2>2, <2>3
<1>5. ASSUME NEW s \in SUBSET T, s # {} PROVE f[s \ {AnElement(s)}] = sum(s \ {AnElement(s)})
  <2>1. s \ {AnElement(s)} \in SUBSET T /\ s \ {AnElement(s)} # T
    BY <1>5, AnElementIsIn
  <2> HIDE DEF f, sum
  <2> QED
    BY <1>4, <2>1
<1>6. f = [s \in SUBSET T |-> IF s = {} THEN 0 ELSE Size[AnElement(s)] + f[s \ {AnElement(s)}]]
  BY <1>5
<1>7. IsSum(f, T)
  BY <1>6 DEF IsSum
<1> HIDE DEF f
<1>8. IsSum(SumOver(T), T)
  BY <1>7 DEF SumOver
<1> QED
  BY <1>2, <1>8

LEMMA SumsToSums ==
  ASSUME NEW f, IsSum(f, Docs), NEW S \in SUBSET Docs
  PROVE  Total(S) = f[S]
<1>1. PICK g : g = SumOver(S)
  OBVIOUS
<1>2. IsSum(g, S)
  BY <1>1, SumsExist
<1>3. Docs \in SUBSET Docs /\ S \in SUBSET S
  OBVIOUS
<1>4. f[S] = g[S]
  BY <1>2, <1>3, SumsAgree
<1> QED
  BY <1>1, <1>4, TotalIsSum

(* The sum does not depend on the order.                                   *)
LEMMA Sums ==
  /\ \A S \in SUBSET Docs : Total(S) \in Nat
  /\ \A S \in SUBSET Docs : \A d \in S : Total(S) = Size[d] + Total(S \ {d})
<1>1. PICK f : IsSum(f, Docs)
  BY SumsExist
<1>2. ASSUME NEW S \in SUBSET Docs PROVE Total(S) = f[S]
  BY <1>1, SumsToSums
<1>3. ASSUME NEW S \in SUBSET Docs PROVE f[S] = IF S = {} THEN 0 ELSE Size[AnElement(S)] + f[S \ {AnElement(S)}]
  BY <1>1 DEF IsSum
<1>4. ASSUME NEW S \in SUBSET Docs PROVE f[S] \in Nat
  <2> DEFINE B == {u \in SUBSET Docs : f[u] \notin Nat}
  <2> SUFFICES ASSUME B # {} PROVE FALSE
    OBVIOUS
  <2>1. PICK u \in B : \A v \in SUBSET u : v # u => v \notin B
    BY LeastSet
  <2>2. u \in SUBSET Docs /\ f[u] \notin Nat
    BY <2>1
  <2>3. u # {}
    <3>1. u = {} => f[u] = 0
      BY <1>3, <2>2
    <3> QED
      BY <2>2, <3>1
  <2>4. AnElement(u) \in u
    BY <2>3, AnElementIsIn
  <2>5. f[u \ {AnElement(u)}] \in Nat
    BY <2>1, <2>2, <2>4
  <2>6. Size[AnElement(u)] \in Nat
    BY <2>2, <2>4
  <2>7. f[u] = Size[AnElement(u)] + f[u \ {AnElement(u)}]
    BY <1>3, <2>2, <2>3
  <2>8. Size[AnElement(u)] + f[u \ {AnElement(u)}] \in Nat
    BY <2>5, <2>6
  <2> QED
    BY <2>2, <2>7, <2>8
<1>5. ASSUME NEW S \in SUBSET Docs, NEW d \in S PROVE f[S] = Size[d] + f[S \ {d}]
  <2> DEFINE Adds(u) == \A x \in u : f[u] = Size[x] + f[u \ {x}]
             B == {u \in SUBSET Docs : ~Adds(u)}
  <2> SUFFICES ASSUME B # {} PROVE FALSE
    OBVIOUS
  <2>1. PICK u \in B : \A v \in SUBSET u : v # u => v \notin B
    BY LeastSet
  <2>2. PICK x \in u : f[u] # Size[x] + f[u \ {x}]
    BY <2>1
  <2>3. PICK y : y = AnElement(u)
    OBVIOUS
  <2>4. y \in u /\ f[u] = Size[y] + f[u \ {y}]
    BY <1>3, <2>2, <2>3, AnElementIsIn
  <2>5. x # y
    BY <2>2, <2>4
  <2>6. Adds(u \ {x}) /\ Adds(u \ {y})
    BY <2>1, <2>2, <2>4
  <2>7. f[u \ {y}] = Size[x] + f[(u \ {y}) \ {x}]
    BY <2>2, <2>5, <2>6
  <2>8. f[u \ {x}] = Size[y] + f[(u \ {x}) \ {y}]
    BY <2>4, <2>5, <2>6
  <2>9. (u \ {x}) \ {y} = (u \ {y}) \ {x}
    OBVIOUS
  <2>10. PICK a, b, c : a = Size[x] /\ b = Size[y] /\ c = f[(u \ {y}) \ {x}]
    OBVIOUS
  <2>11. a \in Nat /\ b \in Nat /\ c \in Nat
    BY <1>4, <2>2, <2>4, <2>10
  <2>12. f[u] = b + (a + c) /\ f[u \ {x}] = b + c /\ f[u] # a + f[u \ {x}]
    BY Zenon, <2>2, <2>4, <2>7, <2>8, <2>9, <2>10
  <2>13. b + (a + c) = a + (b + c)
    BY <2>11
  <2> QED
    BY Zenon, <2>12, <2>13
<1>6. ASSUME NEW S \in SUBSET Docs, NEW d \in S PROVE Total(S) = Size[d] + Total(S \ {d})
  <2>1. S \ {d} \in SUBSET Docs
    OBVIOUS
  <2>2. Total(S) = f[S] /\ Total(S \ {d}) = f[S \ {d}]
    BY <1>2, <2>1
  <2> QED
    BY <1>5, <2>2
<1> QED
  BY <1>2, <1>4, <1>6

-------------------------------------------------------------------------------
(* The inductive invariant.  What an open request x has written, from the  *)
(* place that it is at.                                                    *)

Places ==
  [presign     |-> {"count", "commit"},
   confirm     |-> {"confirm", "read_user", "write_user", "commit"},
   delete      |-> {"soft_delete", "read_user", "write_user", "commit"},
   rename      |-> {"rename", "commit"},
   retag       |-> {"check_tags", "clear", "clear_rows", "insert", "commit"},
   update      |-> {"rename", "check_tags", "clear", "clear_rows", "insert", "commit"},
   bulk_delete |-> {"each", "commit"},
   bulk_tag    |-> {"each", "commit"},
   create_tag  |-> {"insert_tag", "commit"},
   delete_tag  |-> {"drop_tag", "cascade", "commit"}]

OneDocument == {"presign", "confirm", "delete", "rename", "retag", "update"}

(* The document of a call that has one.                                    *)
Doc(x) == Head(x.docs)

Shape(x) ==
  /\ x.pc \in Places[x.op]
  /\ x.op \in OneDocument => \E d \in Docs : x.docs = <<d>>
  /\ x.op \in {"create_tag", "delete_tag"} => \E g \in TagIds : x.want = {g}
  /\ x.bytes # None => x.pc = "commit" /\ x.op \in {"confirm", "delete"}
  /\ x.pc \in {"count", "confirm", "soft_delete", "rename"} => x.rows = {}
  /\ x.op \in {"retag", "bulk_tag", "create_tag", "delete_tag"} => x.rows = {}
  /\ x.op \notin {"retag", "update", "delete_tag"} => x.found = {} /\ x.cleared = {}
  /\ x.op \notin {"retag", "update", "bulk_tag"} => x.added = {}
  /\ x.op # "create_tag" => x.created = {}
  /\ x.op # "delete_tag" => x.dropped = {}
  /\ x.dropped \subseteq x.want

(* The documents of a request: one that is being uploaded is no row yet.   *)
RowKnows(x) ==
  /\ x.op = "presign" => doc[Doc(x)].phase = "absent" /\ x.rows \subseteq {Doc(x)}
  /\ x.op \in OneDocument \ {"presign"} => doc[Doc(x)].phase # "absent"
  /\ x.op # "presign" => \A d \in x.rows : doc[d].phase # "absent"

(* What a confirm or a delete that no other overlaps knows of its document *)
(* and of the counter.                                                     *)
Mine(x) == x.rows = {Doc(x)} /\ doc[Doc(x)].phase = "presigned"

ConfirmKnows(x) ==
  /\ Doc(x) \in Present
  /\ x.pc = "read_user" => Mine(x)
  /\ x.pc = "write_user" => Mine(x) /\ x.read = used
  /\ x.pc = "commit" => \/ x.rows = {} /\ x.bytes = None
                        \/ Mine(x) /\ x.bytes = used + Size[Doc(x)]

DeleteKnows(x) ==
  /\ Doc(x) \in Present
  /\ x.pc # "soft_delete" => x.rows = {Doc(x)}
  /\ x.pc = "write_user" => x.read = used
  /\ x.pc = "commit" =>
       (IF x.bytes = None THEN used ELSE x.bytes) = Max({0, used - Size[Doc(x)]})

ChargeKnows(x) ==
  "charge" \notin overlapped =>
    /\ x.op = "confirm" => ConfirmKnows(x)
    /\ x.op = "delete" => DeleteKnows(x)
    /\ x.op = "bulk_delete" => x.rows \subseteq Present

(* What a request knows of the tags that it has written.                   *)
TagKnows(x) ==
  /\ NamesDiffer(tags \cup x.created)
  /\ x.added \subseteq Docs \X tags
  /\ x.op = "delete_tag" /\ x.pc = "commit" => tagged \cap (Docs \X x.dropped) \subseteq x.cleared

(* What a PATCH that no other tag request overlaps knows of the pairs.     *)
Old(x) == tagged \cap Pairs(Doc(x), TagIds)

PatchKnows(x) ==
  "tags" \notin overlapped /\ x.op \in {"retag", "update"} =>
    /\ x.pc = "clear_rows" => x.found = Old(x)
    /\ x.pc = "insert" => x.cleared = Old(x)
    /\ x.pc = "commit" => \/ ~ (x.want \subseteq tags)
                          \/ x.cleared = Old(x) /\ x.added = Pairs(Doc(x), x.want)

Knows(x) == Shape(x) /\ RowKnows(x) /\ ChargeKnows(x) /\ TagKnows(x) /\ PatchKnows(x)

(* What row locks and unique indexes keep apart, of two open requests.     *)
Apart(x, y) ==
  /\ x.op = "presign" /\ y.op = "presign" => x.docs # y.docs
  /\ NamesDiffer(x.created \cup y.created)
  /\ \A p \in x.added : p[2] \notin y.dropped
  /\ Kinds[x.op] = "charge" /\ Kinds[y.op] = "charge" => "charge" \in overlapped
  /\ Kinds[x.op] = "tags" /\ Kinds[y.op] = "tags" => "tags" \in overlapped

AllKnow == \A r \in Requests : Open(r) => Knows(req[r])

AllApart == \A r, s \in Requests : r # s /\ Open(r) /\ Open(s) => Apart(req[r], req[s])

Inv == TypeOK /\ UsageIsExact /\ TagsAreConsistent /\ AllKnow /\ AllApart

-------------------------------------------------------------------------------
(* Steps.                                                                  *)

LEMMA IdleTypes ==
  ASSUME NEW pc \in PCs, NEW op \in DOMAIN Kinds, NEW list \in Seq(Docs),
         NEW want \in SUBSET TagIds
  PROVE  /\ Idle(pc) \in Request
         /\ [Idle(pc) EXCEPT !.op = op, !.docs = list, !.want = want] \in Request
<1>1. "rename" \in DOMAIN Kinds
  BY DEF Kinds
<1> HIDE DEF Kinds
<1>2. Idle(pc) \in Request
  BY <1>1 DEF Idle, Request
<1>3. PICK x : x = Idle(pc)
  OBVIOUS
<1>4. [x EXCEPT !.op = op, !.docs = list, !.want = want] \in Request
  BY <1>2, <1>3 DEF Request
<1> QED
  BY <1>2, <1>3, <1>4

LEMMA Initially == Init => Inv
<1> SUFFICES ASSUME Init PROVE Inv
  OBVIOUS
<1>1. "new" \in PCs /\ "rename" \in DOMAIN Kinds /\ <<>> \in Seq(Docs)
  BY DEF PCs, Kinds
<1>2. Idle("new") \in Request
  BY <1>1, IdleTypes
<1>3. req \in [Requests -> Request] /\ \A r \in Requests : req[r].pc = "new"
  BY <1>2 DEF Init, Idle
<1>4. doc \in [Docs -> Row] /\ \A d \in Docs : doc[d].deleted = "no"
  BY DEF Init, Row
<1>5. used \in Nat
  <2>1. {d \in Docs : doc[d].phase = "confirmed"} \in SUBSET Docs
    OBVIOUS
  <2> QED
    BY <2>1, Sums DEF Init
<1>6. TypeOK
  BY <1>3, <1>4, <1>5 DEF TypeOK, Init
<1>7. UsageIsExact
  <2>1. {d \in Docs : doc[d].phase = "confirmed"} =
        {d \in Docs : doc[d].phase = "confirmed" /\ doc[d].deleted # "alone"}
    BY <1>4
  <2> QED
    BY <2>1 DEF UsageIsExact, Init
<1>8. TagsAreConsistent
  BY DEF Init, TagsAreConsistent, Present
<1>9. AllKnow /\ AllApart
  BY <1>3 DEF AllKnow, AllApart, Open
<1> QED
  BY <1>6, <1>7, <1>8, <1>9 DEF Inv

(* A step by which r becomes x, and nothing is committed.                  *)
LEMMA LocalStep ==
  ASSUME Inv, NEW r \in Requests, NEW x \in Request, Becomes(r, x),
         UNCHANGED <<doc, used, tags, tagged, overlapped>>, abortsLeft' \in Nat,
         x.pc \in {"new", "done"} \/ Knows(x),
         x.pc \in {"new", "done"} \/
           \A s \in Requests \ {r} : Open(s) => Apart(x, req[s]) /\ Apart(req[s], x)
  PROVE  Inv'
<1>1. req \in [Requests -> Request]
  BY DEF Inv, TypeOK
<1>2. req' \in [Requests -> Request] /\ req'[r] = x /\ \A s \in Requests \ {r} : req'[s] = req[s]
  BY <1>1 DEF Becomes
<1>3. TypeOK'
  BY <1>2 DEF Inv, TypeOK
<1>4. UsageIsExact'
  BY DEF Inv, UsageIsExact
<1>5. TagsAreConsistent'
  BY DEF Inv, TagsAreConsistent
<1>6. \A y : Knows(y) => Knows(y)'
  BY SMTT(30) DEF Knows, Shape, RowKnows, ChargeKnows, ConfirmKnows, Mine, DeleteKnows, TagKnows,
         PatchKnows, Old, Present
<1>7. \A y, z : Apart(y, z) => Apart(y, z)'
  BY DEF Apart
<1>8. AllKnow'
  <2> SUFFICES ASSUME NEW s \in Requests, Open(s)' PROVE Knows(req[s])'
    BY DEF AllKnow
  <2>1. PICK y : y = req'[s]
    OBVIOUS
  <2>2. Knows(y)
    BY <1>2, <2>1 DEF Inv, AllKnow, Open
  <2>3. Knows(y)'
    BY <1>6, <2>2
  <2> QED
    BY <2>1, <2>3
<1>9. AllApart'
  <2> SUFFICES ASSUME NEW t \in Requests, NEW s \in Requests, t # s, Open(t)', Open(s)'
               PROVE  Apart(req[t], req[s])'
    BY DEF AllApart
  <2>1. PICK y, z : y = req'[t] /\ z = req'[s]
    OBVIOUS
  <2>2. Apart(y, z)
    BY <1>2, <2>1 DEF Inv, AllApart, Open
  <2>3. Apart(y, z)'
    BY <1>7, <2>2
  <2> QED
    BY <2>1, <2>3
<1> QED
  BY <1>3, <1>4, <1>5, <1>8, <1>9 DEF Inv

(* The first step of a call, of which x is what is known.                  *)
LEMMA BeginStep ==
  ASSUME Inv, NEW r \in Requests, NEW op \in DOMAIN Kinds, NEW pc \in PCs,
         NEW list \in Seq(Docs), NEW want \in SUBSET TagIds,
         Begin(r, op, pc, list, want),
         \A x : x = [Idle(pc) EXCEPT !.op = op, !.docs = list, !.want = want] => Knows(x),
         op = "presign" => \A s \in Requests : req[s].op = "presign" => req[s].docs # list
  PROVE  Inv'
<1>1. PICK x : x = [Idle(pc) EXCEPT !.op = op, !.docs = list, !.want = want]
  OBVIOUS
<1>2. x \in Request
  BY <1>1, IdleTypes
<1>3. Knows(x)
  BY <1>1
<1>4. /\ x.op = op /\ x.docs = list /\ x.want = want
      /\ x.created = {} /\ x.added = {} /\ x.dropped = {}
  BY <1>1 DEF Idle
<1>5. req \in [Requests -> Request]
  BY DEF Inv, TypeOK
<1>6. req' \in [Requests -> Request] /\ req'[r] = x /\ \A s \in Requests \ {r} : req'[s] = req[s]
  BY <1>1, <1>2, <1>5 DEF Begin, Becomes
<1>7. UNCHANGED <<doc, used, tags, tagged, abortsLeft>>
  BY DEF Begin
<1>8. overlapped \subseteq overlapped'
  BY DEF Begin
<1>9. \A s \in Requests : Open(s) /\ Kinds[req[s].op] = Kinds[op] => Kinds[op] \in overlapped'
  BY DEF Begin
<1>10. TypeOK'
  BY <1>6, <1>7 DEF Inv, TypeOK
<1>11. UsageIsExact'
  BY <1>7, <1>8 DEF Inv, UsageIsExact
<1>12. TagsAreConsistent'
  BY <1>7 DEF Inv, TagsAreConsistent
<1>13. \A y : Knows(y) => Knows(y)'
  BY <1>7, <1>8 DEF Knows, Shape, RowKnows, ChargeKnows, ConfirmKnows, Mine, DeleteKnows, TagKnows,
         PatchKnows, Old, Present
<1>14. \A y, z : Apart(y, z) => Apart(y, z)'
  BY <1>8 DEF Apart
<1>15. AllKnow'
  <2> SUFFICES ASSUME NEW s \in Requests, Open(s)' PROVE Knows(req[s])'
    BY DEF AllKnow
  <2>1. PICK y : y = req'[s]
    OBVIOUS
  <2>2. Knows(y)
    BY <1>3, <1>6, <2>1 DEF Inv, AllKnow, Open
  <2>3. Knows(y)'
    BY <1>13, <2>2
  <2> QED
    BY <2>1, <2>3
<1>16. ASSUME NEW s \in Requests \ {r}, Open(s), NEW y, y = req[s]
       PROVE  Apart(x, y)' /\ Apart(y, x)'
  <2>1. TagKnows(y)
    BY <1>16 DEF Inv, AllKnow, Knows
  <2>2. NamesDiffer(y.created)
    BY <2>1 DEF TagKnows, NamesDiffer
  <2>3. x.created \cup y.created = y.created /\ y.created \cup x.created = y.created
    BY <1>4
  <2>4. Kinds[x.op] = Kinds[y.op] => Kinds[x.op] \in overlapped'
    BY <1>4, <1>9, <1>16
  <2>5. x.op = "presign" /\ y.op = "presign" => x.docs # y.docs
    BY <1>4, <1>16
  <2> QED
    BY <1>4, <2>2, <2>3, <2>4, <2>5 DEF Apart
<1>17. AllApart'
  <2> SUFFICES ASSUME NEW t \in Requests, NEW s \in Requests, t # s, Open(t)', Open(s)'
               PROVE  Apart(req[t], req[s])'
    BY DEF AllApart
  <2>1. PICK y, z : y = req'[t] /\ z = req'[s]
    OBVIOUS
  <2>2. CASE t = r
    <3>1. s \in Requests \ {r} /\ Open(s) /\ z = req[s] /\ y = x
      BY <1>6, <2>1, <2>2 DEF Open
    <3> QED
      BY <1>16, <2>1, <3>1
  <2>3. CASE s = r
    <3>1. t \in Requests \ {r} /\ Open(t) /\ y = req[t] /\ z = x
      BY <1>6, <2>1, <2>3 DEF Open
    <3> QED
      BY <1>16, <2>1, <3>1
  <2>4. CASE t # r /\ s # r
    <3>1. Apart(y, z)
      BY <1>6, <2>1, <2>4 DEF Inv, AllApart, Open
    <3> QED
      BY <1>14, <2>1, <3>1
  <2> QED
    BY <2>2, <2>3, <2>4
<1> QED
  BY <1>10, <1>11, <1>12, <1>15, <1>17 DEF Inv

(* What is known of a call that begins at pc.                              *)
LEMMA BegunKnows ==
  ASSUME Inv, NEW op \in DOMAIN Kinds, NEW pc \in PCs,
         NEW list \in Seq(Docs), NEW want \in SUBSET TagIds,
         NEW x, x = [Idle(pc) EXCEPT !.op = op, !.docs = list, !.want = want],
         pc \in Places[op],
         pc \in {"count", "confirm", "soft_delete", "rename", "check_tags", "each",
                "insert_tag", "drop_tag"} \/ (op = "confirm" /\ pc = "commit"),
         op \in OneDocument => \E d \in Docs : list = <<d>>,
         op = "presign" => doc[Head(list)].phase = "absent",
         op \in OneDocument \ {"presign"} => Head(list) \in Present,
         op \in {"create_tag", "delete_tag"} => \E g \in TagIds : want = {g}
  PROVE  Knows(x)
<1>1. /\ x.pc = pc /\ x.op = op /\ x.docs = list /\ x.want = want
      /\ x.rows = {} /\ x.bytes = None /\ x.found = {} /\ x.cleared = {}
      /\ x.added = {} /\ x.created = {} /\ x.dropped = {}
  BY DEF Idle
<1>2. Shape(x)
  BY <1>1 DEF Shape
<1>3. RowKnows(x)
  BY <1>1 DEF RowKnows, Doc, Present
<1>4. ChargeKnows(x)
  <2>1. op = "confirm" => ConfirmKnows(x)
    BY <1>1 DEF ConfirmKnows, Doc, OneDocument, Places
  <2>2. op = "delete" => DeleteKnows(x)
    BY <1>1 DEF DeleteKnows, Doc, OneDocument, Places
  <2> QED
    BY <1>1, <2>1, <2>2 DEF ChargeKnows
<1>5. TagKnows(x)
  <2>1. tags \cup x.created = tags
    BY <1>1
  <2>2. NamesDiffer(tags)
    BY DEF Inv, TagsAreConsistent
  <2> QED
    BY <1>1, <2>1, <2>2 DEF TagKnows, Places
<1>6. PatchKnows(x)
  BY <1>1 DEF PatchKnows
<1> QED
  BY <1>2, <1>3, <1>4, <1>5, <1>6 DEF Knows

LEMMA CallStep == ASSUME Inv, NEW r \in Requests, Call(r) PROVE Inv'
<1> DEFINE Begun(op, pc, list, want) == [Idle(pc) EXCEPT !.op = op, !.docs = list, !.want = want]
<1>1. ASSUME NEW d \in Docs
      PROVE  <<d>> \in Seq(Docs) /\ Head(<<d>>) = d /\ \E e \in Docs : <<d>> = <<e>>
  OBVIOUS
<1>2. {} \in SUBSET TagIds /\ <<>> \in Seq(Docs)
  OBVIOUS
<1>3. ASSUME NEW d \in Docs, PresignUpload(r, d) PROVE Inv'
  <2>1. "presign" \in DOMAIN Kinds /\ "count" \in PCs /\ "count" \in Places["presign"]
    BY DEF Kinds, PCs, Places
  <2>2. \A x : x = Begun("presign", "count", <<d>>, {}) => Knows(x)
    BY ZenonT(60), <1>1, <1>2, <1>3, <2>1, BegunKnows DEF PresignUpload
  <2> QED
    BY <1>1, <1>2, <1>3, <2>1, <2>2, BeginStep DEF PresignUpload
<1>4. ASSUME NEW d \in Docs, ConfirmUpload(r, d) PROVE Inv'
  <2>1. PICK pc : pc = IF doc[d].phase = "confirmed" THEN "commit" ELSE "confirm"
    OBVIOUS
  <2>2. "confirm" \in DOMAIN Kinds /\ pc \in PCs /\ pc \in Places["confirm"] /\ pc \in {"commit", "confirm"}
    BY <2>1 DEF Kinds, PCs, Places
  <2>3. \A x : x = Begun("confirm", pc, <<d>>, {}) => Knows(x)
    <3>1. Head(<<d>>) \in Present
      BY <1>1, <1>4 DEF ConfirmUpload
    <3> QED
      BY <1>1, <1>2, <2>2, <3>1, BegunKnows
  <2> QED
    BY <1>1, <1>2, <1>4, <2>1, <2>2, <2>3, BeginStep DEF ConfirmUpload
<1>5. ASSUME NEW d \in Docs, DeleteDocument(r, d) PROVE Inv'
  <2>1. "delete" \in DOMAIN Kinds /\ "soft_delete" \in PCs /\ "soft_delete" \in Places["delete"]
    BY DEF Kinds, PCs, Places
  <2>2. \A x : x = Begun("delete", "soft_delete", <<d>>, {}) => Knows(x)
    <3>1. Head(<<d>>) \in Present
      BY <1>1, <1>5 DEF DeleteDocument
    <3> QED
      BY <1>1, <1>2, <2>1, <3>1, BegunKnows
  <2> QED
    BY <1>1, <1>2, <1>5, <2>1, <2>2, BeginStep DEF DeleteDocument
<1>6. ASSUME NEW d \in Docs, NEW op \in {"rename", "retag", "update"}, NEW want \in SUBSET TagIds,
             UpdateDocument(r, d, op, want)
      PROVE  Inv'
  <2>1. PICK pc : pc = IF op = "retag" THEN "check_tags" ELSE "rename"
    OBVIOUS
  <2>2. op \in DOMAIN Kinds /\ pc \in PCs /\ pc \in Places[op] /\ pc \in {"check_tags", "rename"}
    BY <2>1 DEF Kinds, PCs, Places
  <2>3. \A x : x = Begun(op, pc, <<d>>, want) => Knows(x)
    BY ZenonT(60), <1>1, <1>6, <2>2, BegunKnows DEF UpdateDocument
  <2> QED
    BY <1>1, <1>6, <2>1, <2>2, <2>3, BeginStep DEF UpdateDocument
<1>7. ASSUME NEW list \in Lists, NEW want \in TagSets, BulkAction(r, list, want) PROVE Inv'
  <2>1. list \in Seq(Docs) /\ want \in SUBSET TagIds
    OBVIOUS
  <2>2. PICK op : op = IF want = {} THEN "bulk_delete" ELSE "bulk_tag"
    OBVIOUS
  <2>3. op \in DOMAIN Kinds /\ "each" \in PCs /\ "each" \in Places[op] /\ op \in {"bulk_delete", "bulk_tag"}
    BY <2>2 DEF Kinds, PCs, Places
  <2>4. \A x : x = Begun(op, "each", list, want) => Knows(x)
    BY <2>1, <2>3, BegunKnows DEF OneDocument
  <2>5. Begin(r, op, "each", list, want)
    BY <1>7, <2>2 DEF BulkAction
  <2> QED
    BY <2>1, <2>3, <2>4, <2>5, BeginStep
<1>8. ASSUME NEW g \in TagIds, CreateTag(r, g) PROVE Inv'
  <2>1. "create_tag" \in DOMAIN Kinds /\ "insert_tag" \in PCs /\ "insert_tag" \in Places["create_tag"]
    BY DEF Kinds, PCs, Places
  <2>2. {g} \in SUBSET TagIds /\ \E h \in TagIds : {g} = {h}
    OBVIOUS
  <2>3. \A x : x = Begun("create_tag", "insert_tag", <<>>, {g}) => Knows(x)
    BY <1>2, <2>1, <2>2, BegunKnows DEF OneDocument
  <2> QED
    BY <1>2, <1>8, <2>1, <2>2, <2>3, BeginStep DEF CreateTag
<1>9. ASSUME NEW g \in TagIds, DeleteTag(r, g) PROVE Inv'
  <2>1. "delete_tag" \in DOMAIN Kinds /\ "drop_tag" \in PCs /\ "drop_tag" \in Places["delete_tag"]
    BY DEF Kinds, PCs, Places
  <2>2. {g} \in SUBSET TagIds /\ \E h \in TagIds : {g} = {h}
    OBVIOUS
  <2>3. \A x : x = Begun("delete_tag", "drop_tag", <<>>, {g}) => Knows(x)
    BY <1>2, <2>1, <2>2, BegunKnows DEF OneDocument
  <2> QED
    BY <1>2, <1>9, <2>1, <2>2, <2>3, BeginStep DEF DeleteTag
<1> QED
  BY <1>2, <1>3, <1>4, <1>5, <1>6, <1>7, <1>8, <1>9 DEF Call

-------------------------------------------------------------------------------
(* The statements of a call.                                               *)

LEMMA PlaceTellsOp ==
  ASSUME NEW op \in DOMAIN Kinds, NEW pc \in Places[op]
  PROVE  /\ pc = "count" => op = "presign"
         /\ pc = "confirm" => op = "confirm" /\ "read_user" \in Places[op]
         /\ pc = "soft_delete" => op = "delete" /\ "read_user" \in Places[op]
         /\ pc = "read_user" => op \in {"confirm", "delete"} /\ "write_user" \in Places[op]
         /\ pc = "write_user" => op \in {"confirm", "delete"}
         /\ pc = "rename" => op \in {"rename", "update"}
         /\ op = "update" => "check_tags" \in Places[op]
         /\ pc \in {"check_tags", "clear", "clear_rows", "insert"} =>
              op \in {"retag", "update"} /\ {"clear", "clear_rows", "insert"} \subseteq Places[op]
         /\ pc = "each" => op \in {"bulk_delete", "bulk_tag"}
         /\ pc = "insert_tag" => op = "create_tag"
         /\ pc \in {"drop_tag", "cascade"} => op = "delete_tag" /\ "cascade" \in Places[op]
         /\ "commit" \in Places[op]
  BY DEF Kinds, Places

LEMMA WhatIsOpen ==
  ASSUME Inv, NEW r \in Requests, Open(r), NEW q, q = req[r]
  PROVE  /\ q \in Request /\ Knows(q)
         /\ \A s \in Requests \ {r} : Open(s) => Apart(q, req[s]) /\ Apart(req[s], q)
         /\ q.op \in DOMAIN Kinds /\ q.pc \in Places[q.op]
         /\ q.op \in OneDocument => Doc(q) \in Docs /\ Doc(q) = Target(r)
<1>1. q \in Request
  BY DEF Inv, TypeOK
<1>2. Knows(q)
  BY DEF Inv, AllKnow
<1>3. \A s \in Requests \ {r} : Open(s) => Apart(q, req[s]) /\ Apart(req[s], q)
  BY DEF Inv, AllApart
<1>4. q.op \in DOMAIN Kinds
  BY <1>1 DEF Request
<1>5. q.pc \in Places[q.op]
  BY <1>2 DEF Knows, Shape
<1>6. q.op \in OneDocument => Doc(q) \in Docs /\ Doc(q) = Target(r)
  BY <1>2 DEF Knows, Shape, Doc, Target
<1> QED
  BY <1>1, <1>2, <1>3, <1>4, <1>5, <1>6

LEMMA Ends ==
  ASSUME Inv, NEW r \in Requests, Becomes(r, Idle("done")),
         UNCHANGED <<doc, used, tags, tagged, overlapped>>, abortsLeft' \in Nat
  PROVE  Inv'
<1>1. PICK x : x = Idle("done")
  OBVIOUS
<1>2. "done" \in PCs /\ "rename" \in DOMAIN Kinds /\ <<>> \in Seq(Docs)
  BY DEF PCs, Kinds
<1>3. x \in Request
  BY <1>1, <1>2, IdleTypes
<1>4. x.pc = "done"
  BY <1>1 DEF Idle
<1>5. Becomes(r, x)
  BY <1>1 DEF Becomes
<1> QED
  BY <1>3, <1>4, <1>5, LocalStep

(* A statement that writes no tags.                                        *)
LEMMA GoesOn ==
  ASSUME Inv, NEW r \in Requests, Open(r), NEW q, q = req[r],
         NEW x \in Request, Becomes(r, x), Unchanged, Knows(x),
         x.op = q.op, x.op = "presign" => x.docs = q.docs,
         x.created = q.created, x.added = q.added, x.dropped = q.dropped
  PROVE  Inv'
<1>1. \A y : (Apart(q, y) => Apart(x, y)) /\ (Apart(y, q) => Apart(y, x))
  BY DEF Apart
<1>2. \A s \in Requests \ {r} : Open(s) => Apart(x, req[s]) /\ Apart(req[s], x)
  BY <1>1, WhatIsOpen
<1>3. abortsLeft' \in Nat
  BY DEF Inv, TypeOK, Unchanged
<1> QED
  BY <1>2, <1>3, LocalStep DEF Unchanged

LEMMA CountDocumentsStep == ASSUME Inv, NEW r \in Requests, CountDocuments(r) PROVE Inv'
<1>1. PICK q : q = req[r]
  OBVIOUS
<1>2. Open(r)
  BY DEF CountDocuments, Runs, Open
<1>3. /\ q \in Request /\ Knows(q)
      /\ q.op \in DOMAIN Kinds /\ q.pc \in Places[q.op]
      /\ q.op \in OneDocument => Doc(q) \in Docs /\ Doc(q) = Target(r)
  BY <1>1, <1>2, WhatIsOpen
<1>4. q.pc = "count" /\ q.op = "presign" /\ "commit" \in Places[q.op]
  BY <1>1, <1>3, PlaceTellsOp DEF CountDocuments, Runs
<1>5. CASE End(r)
  <2>1. abortsLeft \in Nat
    BY DEF Inv, TypeOK
  <2> QED
    BY <1>5, <2>1, Ends DEF End, Unchanged
<1>6. CASE ~End(r)
  <2>1. PICK x : x = [q EXCEPT !.pc = "commit", !.rows = {Doc(q)}]
    OBVIOUS
  <2>2. Becomes(r, x) /\ Unchanged
    BY <1>1, <1>3, <1>4, <1>6, <2>1 DEF CountDocuments, OneDocument
  <2>3. /\ x.pc = "commit" /\ x.rows = {Doc(q)} /\ x.op = q.op /\ x.docs = q.docs /\ x.want = q.want
        /\ x.read = q.read /\ x.bytes = q.bytes /\ x.found = q.found /\ x.cleared = q.cleared
        /\ x.added = q.added /\ x.created = q.created /\ x.dropped = q.dropped
    BY <1>3, <2>1 DEF Request
  <2>4. x \in Request
    BY ZenonT(60), <1>3, <1>4, <2>1 DEF Request, PCs, OneDocument
  <2>5. Knows(x)
    BY <1>3, <1>4, <2>3
       DEF Knows, Shape, RowKnows, ChargeKnows, TagKnows, PatchKnows, Doc
  <2> QED
    BY <1>1, <1>2, <2>2, <2>3, <2>4, <2>5, GoesOn
<1> QED
  BY <1>5, <1>6

LEMMA ConfirmIfUnconfirmedStep == ASSUME Inv, NEW r \in Requests, ConfirmIfUnconfirmed(r) PROVE Inv'
<1>1. PICK q : q = req[r]
  OBVIOUS
<1>2. Open(r)
  BY DEF ConfirmIfUnconfirmed, Runs, Open
<1>3. /\ q \in Request /\ Knows(q)
      /\ q.op \in DOMAIN Kinds /\ q.pc \in Places[q.op]
      /\ q.op \in OneDocument => Doc(q) \in Docs /\ Doc(q) = Target(r)
  BY <1>1, <1>2, WhatIsOpen
<1>4. q.pc = "confirm" /\ q.op = "confirm" /\ "read_user" \in Places[q.op]
  BY <1>1, <1>3, PlaceTellsOp DEF ConfirmIfUnconfirmed, Runs
<1>5. CASE End(r)
  <2>1. abortsLeft \in Nat
    BY DEF Inv, TypeOK
  <2> QED
    BY <1>5, <2>1, Ends DEF End, Unchanged
<1>6. CASE ~End(r)
  <2>1. PICK x : x = [q EXCEPT !.pc = "read_user", !.rows = {Doc(q)}]
    OBVIOUS
  <2>2. Becomes(r, x) /\ Unchanged
    BY <1>1, <1>3, <1>4, <1>6, <2>1 DEF ConfirmIfUnconfirmed, OneDocument
  <2>3. /\ x.pc = "read_user" /\ x.rows = {Doc(q)} /\ x.op = q.op /\ x.docs = q.docs
        /\ x.want = q.want /\ x.read = q.read /\ x.bytes = q.bytes /\ x.found = q.found
        /\ x.cleared = q.cleared /\ x.added = q.added /\ x.created = q.created
        /\ x.dropped = q.dropped
    BY <1>3, <2>1 DEF Request
  <2>4. x \in Request
    BY ZenonT(60), <1>3, <1>4, <2>1 DEF Request, PCs, OneDocument
  <2>5. Knows(x)
    <3>1. doc[Doc(q)].phase = "presigned"
      BY <1>1, <1>3, <1>4, <1>6 DEF ConfirmIfUnconfirmed, OneDocument
    <3> QED
      BY <1>3, <1>4, <2>3, <3>1
         DEF Knows, Shape, RowKnows, ChargeKnows, TagKnows, PatchKnows, ConfirmKnows, Mine, Doc
  <2> QED
    BY <1>1, <1>2, <2>2, <2>3, <2>4, <2>5, GoesOn
<1> QED
  BY <1>5, <1>6

LEMMA ReadUserStep == ASSUME Inv, NEW r \in Requests, ReadUser(r) PROVE Inv'
<1>1. PICK q : q = req[r]
  OBVIOUS
<1>2. Open(r)
  BY DEF ReadUser, Runs, Open
<1>3. /\ q \in Request /\ Knows(q)
      /\ q.op \in DOMAIN Kinds /\ q.pc \in Places[q.op]
      /\ q.op \in OneDocument => Doc(q) \in Docs /\ Doc(q) = Target(r)
  BY <1>1, <1>2, WhatIsOpen
<1>4. q.pc = "read_user" /\ q.op \in {"confirm", "delete"} /\ "write_user" \in Places[q.op]
  BY <1>1, <1>3, PlaceTellsOp DEF ReadUser, Runs
<1>5. PICK x : x = [q EXCEPT !.pc = "write_user", !.read = used]
  OBVIOUS
<1>6. Becomes(r, x) /\ Unchanged
  BY <1>1, <1>3, <1>4, <1>5 DEF ReadUser, OneDocument
<1>7. /\ x.pc = "write_user" /\ x.read = used /\ x.op = q.op /\ x.docs = q.docs /\ x.want = q.want
      /\ x.rows = q.rows /\ x.bytes = q.bytes /\ x.found = q.found /\ x.cleared = q.cleared
      /\ x.added = q.added /\ x.created = q.created /\ x.dropped = q.dropped
  BY <1>3, <1>5 DEF Request
<1>8. x \in Request
  BY <1>3, <1>4, <1>5 DEF Request, PCs, OneDocument, Inv, TypeOK
<1>9. Knows(x)
  BY <1>3, <1>4, <1>7
     DEF Knows, Shape, RowKnows, ChargeKnows, TagKnows, PatchKnows, ConfirmKnows, DeleteKnows, Mine, Doc
<1> QED
  BY <1>1, <1>2, <1>6, <1>7, <1>8, <1>9, GoesOn

LEMMA SoftDeleteStep == ASSUME Inv, NEW r \in Requests, SoftDelete(r) PROVE Inv'
<1>1. PICK q : q = req[r]
  OBVIOUS
<1>2. Open(r)
  BY DEF SoftDelete, Runs, Open
<1>3. /\ q \in Request /\ Knows(q)
      /\ q.op \in DOMAIN Kinds /\ q.pc \in Places[q.op]
      /\ q.op \in OneDocument => Doc(q) \in Docs /\ Doc(q) = Target(r)
  BY <1>1, <1>2, WhatIsOpen
<1>4. q.pc = "soft_delete" /\ q.op = "delete" /\ "read_user" \in Places[q.op]
  BY <1>1, <1>3, PlaceTellsOp DEF SoftDelete, Runs
<1>5. PICK v : v = IF Doc(q) \in Present THEN {Doc(q)} ELSE {}
  OBVIOUS
<1>6. v \subseteq {Doc(q)}
  BY <1>3, <1>4, <1>5, PlaceTellsOp
<1>7. PICK x : x = [q EXCEPT !.pc = "read_user", !.rows = v]
  OBVIOUS
<1>8. Becomes(r, x) /\ Unchanged
  BY <1>1, <1>3, <1>4, <1>5, <1>7 DEF SoftDelete, OneDocument
<1>9. /\ x.pc = "read_user" /\ x.rows = v /\ x.op = q.op /\ x.docs = q.docs /\ x.want = q.want
      /\ x.read = q.read /\ x.bytes = q.bytes /\ x.found = q.found /\ x.cleared = q.cleared
      /\ x.added = q.added /\ x.created = q.created /\ x.dropped = q.dropped
  BY <1>3, <1>7 DEF Request
<1>10. x \in Request
  BY ZenonT(60), <1>3, <1>4, <1>6, <1>7 DEF Request, PCs, OneDocument
<1>11. Knows(x)
  <2>1. "charge" \notin overlapped => Doc(q) \in Present /\ v = {Doc(q)}
    BY <1>3, <1>4, <1>5 DEF Knows, ChargeKnows, DeleteKnows
  <2>2. ChargeKnows(x)
    BY <1>4, <2>1, <1>9 DEF ChargeKnows, DeleteKnows, Doc
  <2>3. Shape(x) /\ RowKnows(x)
    BY <1>3, <1>4, <1>6, <1>9 DEF Knows, Shape, RowKnows, Doc, OneDocument
  <2> QED
    BY <1>3, <1>4, <2>2, <2>3, <1>9 DEF Knows, TagKnows, PatchKnows
<1> QED
  BY <1>1, <1>2, <1>8, <1>9, <1>10, <1>11, GoesOn

LEMMA RenameStep == ASSUME Inv, NEW r \in Requests, Rename(r) PROVE Inv'
<1>1. PICK q : q = req[r]
  OBVIOUS
<1>2. Open(r)
  BY DEF Rename, Runs, Open
<1>3. /\ q \in Request /\ Knows(q)
      /\ q.op \in DOMAIN Kinds /\ q.pc \in Places[q.op]
      /\ q.op \in OneDocument => Doc(q) \in Docs /\ Doc(q) = Target(r)
  BY <1>1, <1>2, WhatIsOpen
<1>4. q.pc = "rename" /\ q.op \in {"rename", "update"}
  BY <1>1, <1>3, PlaceTellsOp DEF Rename, Runs
<1>5. PICK v : v = IF q.op = "rename" THEN "commit" ELSE "check_tags"
  OBVIOUS
<1>6. v \in {"commit", "check_tags"} /\ v \in Places[q.op]
  BY <1>3, <1>4, <1>5, PlaceTellsOp
<1>7. PICK x : x = [q EXCEPT !.pc = v, !.rows = {Doc(q)}]
  OBVIOUS
<1>8. Becomes(r, x) /\ Unchanged
  BY <1>1, <1>3, <1>4, <1>5, <1>7 DEF Rename, OneDocument
<1>9. /\ x.pc = v /\ x.rows = {Doc(q)} /\ x.op = q.op /\ x.docs = q.docs /\ x.want = q.want
      /\ x.read = q.read /\ x.bytes = q.bytes /\ x.found = q.found /\ x.cleared = q.cleared
      /\ x.added = q.added /\ x.created = q.created /\ x.dropped = q.dropped
  BY <1>3, <1>7 DEF Request
<1>10. x \in Request
  BY ZenonT(60), <1>3, <1>4, <1>6, <1>7 DEF Request, PCs, OneDocument
<1>11. Knows(x)
  BY <1>3, <1>4, <1>9, <1>5, <1>6
     DEF Knows, Shape, RowKnows, ChargeKnows, TagKnows, PatchKnows, Doc, OneDocument
<1> QED
  BY <1>1, <1>2, <1>8, <1>9, <1>10, <1>11, GoesOn

LEMMA CheckTagsStep == ASSUME Inv, NEW r \in Requests, CheckTags(r) PROVE Inv'
<1>1. PICK q : q = req[r]
  OBVIOUS
<1>2. Open(r)
  BY DEF CheckTags, Runs, Open
<1>3. /\ q \in Request /\ Knows(q)
      /\ q.op \in DOMAIN Kinds /\ q.pc \in Places[q.op]
      /\ q.op \in OneDocument => Doc(q) \in Docs /\ Doc(q) = Target(r)
  BY <1>1, <1>2, WhatIsOpen
<1>4. q.pc = "check_tags" /\ q.op \in {"retag", "update"}
  BY <1>1, <1>3, PlaceTellsOp DEF CheckTags, Runs
<1>5. PICK v : v = IF q.want \subseteq tags THEN "clear" ELSE "commit"
  OBVIOUS
<1>6. v \in {"commit", "clear"} /\ v \in Places[q.op]
  BY <1>3, <1>4, <1>5, PlaceTellsOp
<1>7. PICK x : x = [q EXCEPT !.pc = v]
  OBVIOUS
<1>8. Becomes(r, x) /\ Unchanged
  BY <1>1, <1>3, <1>4, <1>5, <1>7 DEF CheckTags, OneDocument, Goto
<1>9. /\ x.pc = v /\ x.op = q.op /\ x.docs = q.docs /\ x.want = q.want /\ x.read = q.read
      /\ x.rows = q.rows /\ x.bytes = q.bytes /\ x.found = q.found /\ x.cleared = q.cleared
      /\ x.added = q.added /\ x.created = q.created /\ x.dropped = q.dropped
  BY <1>3, <1>7 DEF Request
<1>10. x \in Request
  BY <1>3, <1>4, <1>6, <1>7 DEF Request, PCs, OneDocument
<1>11. Knows(x)
  BY <1>3, <1>4, <1>9, <1>5, <1>6
     DEF Knows, Shape, RowKnows, ChargeKnows, TagKnows, PatchKnows, Doc
<1> QED
  BY <1>1, <1>2, <1>8, <1>9, <1>10, <1>11, GoesOn

LEMMA FindPairsStep == ASSUME Inv, NEW r \in Requests, FindPairs(r) PROVE Inv'
<1>1. PICK q : q = req[r]
  OBVIOUS
<1>2. Open(r)
  BY DEF FindPairs, Runs, Open
<1>3. /\ q \in Request /\ Knows(q)
      /\ q.op \in DOMAIN Kinds /\ q.pc \in Places[q.op]
      /\ q.op \in OneDocument => Doc(q) \in Docs /\ Doc(q) = Target(r)
  BY <1>1, <1>2, WhatIsOpen
<1>4. q.pc = "clear" /\ q.op \in {"retag", "update"} /\ "clear_rows" \in Places[q.op]
  BY <1>1, <1>3, PlaceTellsOp DEF FindPairs, Runs
<1>5. PICK x : x = [q EXCEPT !.pc = "clear_rows", !.found = Old(q)]
  OBVIOUS
<1>6. Becomes(r, x) /\ Unchanged
  BY <1>1, <1>3, <1>4, <1>5 DEF FindPairs, OneDocument, Old
<1>7. /\ x.pc = "clear_rows" /\ x.found = Old(q) /\ x.op = q.op /\ x.docs = q.docs
      /\ x.want = q.want /\ x.read = q.read /\ x.rows = q.rows /\ x.bytes = q.bytes
      /\ x.cleared = q.cleared /\ x.added = q.added /\ x.created = q.created
      /\ x.dropped = q.dropped
  BY <1>3, <1>5 DEF Request
<1>8. x \in Request
  BY ZenonT(60), <1>3, <1>4, <1>5 DEF Request, PCs, OneDocument, Old, Pairs
<1>9. Knows(x)
  BY <1>3, <1>4, <1>7
     DEF Knows, Shape, RowKnows, ChargeKnows, TagKnows, PatchKnows, Old, Doc
<1> QED
  BY <1>1, <1>2, <1>6, <1>7, <1>8, <1>9, GoesOn

LEMMA ClearPairsStep == ASSUME Inv, NEW r \in Requests, ClearPairs(r) PROVE Inv'
<1>1. PICK q : q = req[r]
  OBVIOUS
<1>2. Open(r)
  BY DEF ClearPairs, Runs, Open
<1>3. /\ q \in Request /\ Knows(q)
      /\ q.op \in DOMAIN Kinds /\ q.pc \in Places[q.op]
      /\ q.op \in OneDocument => Doc(q) \in Docs /\ Doc(q) = Target(r)
  BY <1>1, <1>2, WhatIsOpen
<1>4. q.pc = "clear_rows" /\ q.op \in {"retag", "update"} /\ "insert" \in Places[q.op]
  BY <1>1, <1>3, PlaceTellsOp DEF ClearPairs, Runs
<1>5. PICK x : x = [q EXCEPT !.pc = "insert", !.cleared = q.found \cap tagged, !.found = {}]
  OBVIOUS
<1>6. Becomes(r, x) /\ Unchanged
  BY <1>1, <1>3, <1>4, <1>5 DEF ClearPairs, OneDocument
<1>7. /\ x.pc = "insert" /\ x.cleared = q.found \cap tagged /\ x.found = {} /\ x.op = q.op
      /\ x.docs = q.docs /\ x.want = q.want /\ x.read = q.read /\ x.rows = q.rows
      /\ x.bytes = q.bytes /\ x.added = q.added /\ x.created = q.created /\ x.dropped = q.dropped
  BY <1>3, <1>5 DEF Request
<1>8. x \in Request
  BY <1>3, <1>4, <1>5 DEF Request, PCs, OneDocument
<1>9. Knows(x)
  BY <1>3, <1>4, <1>7
     DEF Knows, Shape, RowKnows, ChargeKnows, TagKnows, PatchKnows, Old, Doc
<1> QED
  BY <1>1, <1>2, <1>6, <1>7, <1>8, <1>9, GoesOn

LEMMA BulkEndsStep == ASSUME Inv, NEW r \in Requests, BulkEnds(r) PROVE Inv'
<1>1. PICK q : q = req[r]
  OBVIOUS
<1>2. Open(r)
  BY DEF BulkEnds, Runs, Open
<1>3. q \in Request /\ Knows(q) /\ q.op \in DOMAIN Kinds /\ q.pc \in Places[q.op]
  BY <1>1, <1>2, WhatIsOpen
<1>4. q.op \in {"bulk_delete", "bulk_tag"} /\ "commit" \in Places[q.op]
  BY <1>1, <1>3, PlaceTellsOp DEF BulkEnds, Runs
<1>5. PICK x : x = [q EXCEPT !.pc = "commit"]
  OBVIOUS
<1>6. Becomes(r, x) /\ Unchanged
  BY <1>1, <1>5 DEF BulkEnds, Goto
<1>7. /\ x.pc = "commit" /\ x.op = q.op /\ x.docs = q.docs /\ x.want = q.want
      /\ x.read = q.read /\ x.rows = q.rows /\ x.bytes = q.bytes /\ x.found = q.found
      /\ x.cleared = q.cleared /\ x.added = q.added /\ x.created = q.created
      /\ x.dropped = q.dropped
  BY <1>3, <1>5 DEF Request
<1>8. x \in Request
  BY <1>3, <1>5 DEF Request, PCs
<1>9. Knows(x)
  BY <1>3, <1>4, <1>7
     DEF Knows, Shape, RowKnows, ChargeKnows, TagKnows, PatchKnows, OneDocument
<1> QED
  BY <1>1, <1>2, <1>6, <1>7, <1>8, <1>9, GoesOn

LEMMA MaxWithZero == ASSUME NEW n \in Int PROVE Max({0, n}) = IF n > 0 THEN n ELSE 0
<1>1. PICK m : m = IF n > 0 THEN n ELSE 0
  OBVIOUS
<1>2. m \in {0, n} /\ m >= 0 /\ m >= n /\ m \in Int
  BY <1>1
<1>3. \A k \in {0, n} : k >= 0 /\ k >= n => k = m
  BY <1>1
<1>4. \E k \in {0, n} : \A j \in {0, n} : k >= j
  BY <1>2
<1> QED
  BY <1>1, <1>3, <1>4 DEF Max

LEMMA UpdateUserStep == ASSUME Inv, NEW r \in Requests, UpdateUser(r) PROVE Inv'
<1>1. PICK q : q = req[r]
  OBVIOUS
<1>2. Open(r)
  BY DEF UpdateUser, Charge, Runs, Open
<1>3. /\ q \in Request /\ Knows(q)
      /\ q.op \in DOMAIN Kinds /\ q.pc \in Places[q.op]
      /\ q.op \in OneDocument => Doc(q) \in Docs /\ Doc(q) = Target(r)
  BY <1>1, <1>2, WhatIsOpen
<1>4. q.pc = "write_user" /\ q.op \in {"confirm", "delete"} /\ "commit" \in Places[q.op]
  BY <1>1, <1>3, PlaceTellsOp DEF UpdateUser, Charge, Runs
<1>5. Doc(q) \in Docs /\ Doc(q) = Target(r)
  BY <1>3, <1>4 DEF OneDocument
<1>6. Size[Doc(q)] \in Nat \ {0} /\ q.read \in Nat
  BY <1>3, <1>5 DEF Request
<1>7. PICK t : t = NewTotal(r)
  OBVIOUS
<1>8. /\ q.op = "confirm" => t = q.read + Size[Doc(q)]
      /\ q.op = "delete" => t = Max({0, q.read - Size[Doc(q)]})
  BY <1>1, <1>5, <1>7 DEF NewTotal
<1>9. t \in Nat /\ t # None
  BY <1>4, <1>6, <1>8, MaxWithZero
<1>10. PICK bytes : bytes = IF t = q.read THEN None ELSE t
  OBVIOUS
<1>11. PICK x : x = [q EXCEPT !.pc = "commit", !.bytes = bytes]
  OBVIOUS
<1>12. Becomes(r, x) /\ Unchanged
  BY <1>1, <1>7, <1>10, <1>11 DEF UpdateUser, Charge
<1>13. /\ x.pc = "commit" /\ x.bytes = bytes /\ x.op = q.op /\ x.docs = q.docs
       /\ x.want = q.want /\ x.read = q.read /\ x.rows = q.rows /\ x.found = q.found
       /\ x.cleared = q.cleared /\ x.added = q.added /\ x.created = q.created
       /\ x.dropped = q.dropped
  BY <1>3, <1>11 DEF Request
<1>14. x \in Request
  BY ZenonT(60), <1>3, <1>9, <1>10, <1>11 DEF Request, PCs
<1>15. q.op = "confirm" => t # q.read /\ bytes = q.read + Size[Doc(q)]
  BY <1>6, <1>8, <1>10
<1>16. q.op = "delete" =>
         (IF bytes = None THEN q.read ELSE bytes) = Max({0, q.read - Size[Doc(q)]})
  BY <1>8, <1>9, <1>10
<1>17. Knows(x)
  <2>1. Shape(x) /\ RowKnows(x) /\ TagKnows(x) /\ PatchKnows(x)
    BY <1>3, <1>4, <1>13 DEF Knows, Shape, RowKnows, TagKnows, PatchKnows, Doc
  <2>2. "charge" \notin overlapped /\ q.op = "confirm" => ConfirmKnows(x)
    BY <1>3, <1>4, <1>13, <1>15 DEF Knows, ChargeKnows, ConfirmKnows, Mine, Doc
  <2>3. "charge" \notin overlapped /\ q.op = "delete" => DeleteKnows(x)
    BY <1>3, <1>4, <1>13, <1>16 DEF Knows, ChargeKnows, DeleteKnows, Doc
  <2> QED
    BY <1>4, <1>13, <2>1, <2>2, <2>3 DEF Knows, ChargeKnows
<1> QED
  BY <1>1, <1>2, <1>12, <1>13, <1>14, <1>17, GoesOn

(* A statement that writes tags, which no other open request is in the way *)
(* of.                                                                     *)
LEMMA WritesTags ==
  ASSUME Inv, NEW r \in Requests, Open(r), NEW q, q = req[r],
         NEW x \in Request, Becomes(r, x), Unchanged, Knows(x),
         x.op = q.op, x.op # "presign",
         \A s \in Requests \ {r} : Open(s) =>
           /\ NamesDiffer(x.created \cup req[s].created)
           /\ \A p \in x.added : p[2] \notin req[s].dropped
           /\ \A p \in req[s].added : p[2] \notin x.dropped
  PROVE  Inv'
<1>1. ASSUME NEW s \in Requests \ {r}, Open(s), NEW y, y = req[s]
      PROVE  Apart(x, y) /\ Apart(y, x)
  <2>1. Apart(q, y) /\ Apart(y, q)
    BY <1>1, WhatIsOpen
  <2>2. x.created \cup y.created = y.created \cup x.created
    OBVIOUS
  <2>3. NamesDiffer(x.created \cup y.created)
    BY <1>1
  <2>4. (\A p \in x.added : p[2] \notin y.dropped) /\ \A p \in y.added : p[2] \notin x.dropped
    BY <1>1
  <2> QED
    BY <2>1, <2>2, <2>3, <2>4 DEF Apart
<1>2. \A s \in Requests \ {r} : Open(s) => Apart(x, req[s]) /\ Apart(req[s], x)
  BY <1>1
<1>3. abortsLeft' \in Nat
  BY DEF Inv, TypeOK, Unchanged
<1> QED
  BY <1>2, <1>3, LocalStep DEF Unchanged

LEMMA NotBlocked ==
  ASSUME NEW r \in Requests, NEW pc, Runs(r, pc), NEW s \in Requests \ {r}, Open(s)
  PROVE  ~Needs(r, s)
  BY DEF Runs, Blockers

(* What keeps two requests apart when the first has written no tags.       *)
LEMMA WhatIsApart ==
  ASSUME Inv, NEW r \in Requests, Open(r), NEW s \in Requests \ {r}, Open(s)
  PROVE  /\ NamesDiffer(req[r].created \cup req[s].created)
         /\ \A p \in req[r].added : p[2] \notin req[s].dropped
         /\ \A p \in req[s].added : p[2] \notin req[r].dropped
  BY DEF Inv, AllApart, Apart

LEMMA BulkEachStep == ASSUME Inv, NEW r \in Requests, BulkEach(r) PROVE Inv'
<1>1. PICK q : q = req[r]
  OBVIOUS
<1>2. Open(r)
  BY DEF BulkEach, Runs, Open
<1>3. /\ q \in Request /\ Knows(q)
      /\ q.op \in DOMAIN Kinds /\ q.pc \in Places[q.op]
      /\ q.op \in OneDocument => Doc(q) \in Docs /\ Doc(q) = Target(r)
  BY <1>1, <1>2, WhatIsOpen
<1>4. q.pc = "each" /\ q.op \in {"bulk_delete", "bulk_tag"} /\ Runs(r, "each")
  BY <1>1, <1>3, PlaceTellsOp DEF BulkEach, Runs
<1>5. q.docs # <<>> /\ Unchanged
  BY <1>1 DEF BulkEach
<1>6. PICK d : d = Target(r)
  OBVIOUS
<1>7. d \in Docs /\ Tail(q.docs) \in Seq(Docs)
  <2>1. q.docs \in Seq(Docs)
    BY <1>3 DEF Request
  <2> QED
    BY <1>1, <1>5, <1>6, <2>1 DEF Target
<1>8. CASE req'= [req EXCEPT ![r] = [q EXCEPT !.docs = Tail(@)]]
  <2>1. PICK x : x = [q EXCEPT !.docs = Tail(@)]
    OBVIOUS
  <2>2. Becomes(r, x)
    BY <1>8, <2>1 DEF Becomes
  <2>3. /\ x.pc = q.pc /\ x.docs = Tail(q.docs) /\ x.op = q.op /\ x.want = q.want
        /\ x.read = q.read /\ x.rows = q.rows /\ x.bytes = q.bytes /\ x.found = q.found
        /\ x.cleared = q.cleared /\ x.added = q.added /\ x.created = q.created
        /\ x.dropped = q.dropped
    BY <1>3, <2>1 DEF Request
  <2>4. x \in Request
    BY <1>3, <1>7, <2>1 DEF Request
  <2>5. Knows(x)
    BY <1>3, <1>4, <2>3
       DEF Knows, Shape, RowKnows, ChargeKnows, TagKnows, PatchKnows, OneDocument
  <2> QED
    BY <1>1, <1>2, <1>4, <1>5, <2>2, <2>3, <2>4, <2>5, GoesOn
<1>9. CASE /\ ~Skipped(r) /\ q.op = "bulk_delete"
           /\ req'= [req EXCEPT ![r] = [q EXCEPT !.docs = Tail(@), !.rows = @ \cup {d}]]
  <2>1. PICK x : x = [q EXCEPT !.docs = Tail(@), !.rows = @ \cup {d}]
    OBVIOUS
  <2>2. Becomes(r, x)
    BY <1>9, <2>1 DEF Becomes
  <2>3. /\ x.pc = q.pc /\ x.docs = Tail(q.docs) /\ x.rows = q.rows \cup {d} /\ x.op = q.op
        /\ x.want = q.want /\ x.read = q.read /\ x.bytes = q.bytes /\ x.found = q.found
        /\ x.cleared = q.cleared /\ x.added = q.added /\ x.created = q.created
        /\ x.dropped = q.dropped
    BY <1>3, <2>1 DEF Request
  <2>4. x \in Request
    BY <1>3, <1>7, <2>1 DEF Request
  <2>5. d \in Present /\ doc[d].phase # "absent"
    BY <1>6, <1>9 DEF Skipped, Present
  <2>6. Knows(x)
    BY <1>3, <1>4, <1>9, <2>3, <2>5
       DEF Knows, Shape, RowKnows, ChargeKnows, TagKnows, PatchKnows, OneDocument
  <2> QED
    BY <1>1, <1>2, <1>5, <1>9, <2>2, <2>3, <2>4, <2>6, GoesOn
<1>10. CASE /\ q.op = "bulk_tag" /\ PairsFit(r)
            /\ req'= [req EXCEPT ![r] = [q EXCEPT !.docs = Tail(@),
                                                 !.added = @ \cup Pairs(d, q.want)]]
  <2>1. PICK x : x = [q EXCEPT !.docs = Tail(@), !.added = @ \cup Pairs(d, q.want)]
    OBVIOUS
  <2>2. Becomes(r, x)
    BY <1>10, <2>1 DEF Becomes
  <2>3. /\ x.pc = q.pc /\ x.docs = Tail(q.docs) /\ x.added = q.added \cup Pairs(d, q.want)
        /\ x.op = q.op /\ x.want = q.want /\ x.read = q.read /\ x.rows = q.rows
        /\ x.bytes = q.bytes /\ x.found = q.found /\ x.cleared = q.cleared
        /\ x.created = q.created /\ x.dropped = q.dropped
    BY <1>3, <2>1 DEF Request
  <2>4. x \in Request
    BY ZenonT(60), <1>3, <1>7, <2>1 DEF Request, Pairs
  <2>5. q.want \subseteq tags
    BY <1>1, <1>10 DEF PairsFit
  <2>6. Knows(x)
    BY <1>3, <1>4, <1>7, <1>10, <2>3, <2>5
       DEF Knows, Shape, RowKnows, ChargeKnows, TagKnows, PatchKnows, OneDocument, Pairs
  <2>7. ASSUME NEW s \in Requests \ {r}, Open(s)
        PROVE  /\ NamesDiffer(x.created \cup req[s].created)
               /\ \A p \in x.added : p[2] \notin req[s].dropped
               /\ \A p \in req[s].added : p[2] \notin x.dropped
    <3>1. ~Needs(r, s)
      BY <1>4, <2>7, NotBlocked
    <3>2. q.want \cap req[s].dropped = {}
      BY <1>1, <1>4, <1>5, <1>10, <3>1 DEF Needs
    <3>3. \A p \in Pairs(d, q.want) : p[2] \notin req[s].dropped
      BY <3>2 DEF Pairs
    <3> QED
      BY <1>1, <1>2, <2>3, <2>7, <3>3, WhatIsApart
  <2>8. x.op # "presign"
    BY <1>10, <2>3
  <2> QED
    BY <1>1, <1>2, <1>5, <2>2, <2>3, <2>4, <2>6, <2>7, <2>8, WritesTags
<1>11. CASE Becomes(r, Idle("done"))
  <2>1. abortsLeft \in Nat
    BY DEF Inv, TypeOK
  <2> QED
    BY <1>5, <1>11, <2>1, Ends DEF Unchanged
<1> QED
  BY <1>1, <1>6, <1>8, <1>9, <1>10, <1>11 DEF BulkEach, Becomes

LEMMA InsertPairsStep == ASSUME Inv, NEW r \in Requests, InsertPairs(r) PROVE Inv'
<1>1. PICK q : q = req[r]
  OBVIOUS
<1>2. Open(r)
  BY DEF InsertPairs, Runs, Open
<1>3. /\ q \in Request /\ Knows(q)
      /\ q.op \in DOMAIN Kinds /\ q.pc \in Places[q.op]
      /\ q.op \in OneDocument => Doc(q) \in Docs /\ Doc(q) = Target(r)
  BY <1>1, <1>2, WhatIsOpen
<1>4. /\ q.pc = "insert" /\ q.op \in {"retag", "update"} /\ Runs(r, "insert")
      /\ "commit" \in Places[q.op]
  BY <1>1, <1>3, PlaceTellsOp DEF InsertPairs, Runs
<1>5. Unchanged
  BY DEF InsertPairs
<1>6. Doc(q) \in Docs /\ Doc(q) = Target(r) /\ q.want \subseteq TagIds
  BY <1>3, <1>4 DEF OneDocument, Request
<1>7. CASE PairsFit(r)
  <2>1. PICK x : x = [q EXCEPT !.pc = "commit", !.added = Pairs(Doc(q), q.want)]
    OBVIOUS
  <2>2. Becomes(r, x)
    BY <1>1, <1>6, <1>7, <2>1 DEF InsertPairs
  <2>3. /\ x.pc = "commit" /\ x.added = Pairs(Doc(q), q.want) /\ x.op = q.op /\ x.docs = q.docs
        /\ x.want = q.want /\ x.read = q.read /\ x.rows = q.rows /\ x.bytes = q.bytes
        /\ x.found = q.found /\ x.cleared = q.cleared /\ x.created = q.created
        /\ x.dropped = q.dropped
    BY <1>3, <2>1 DEF Request
  <2>4. x \in Request
    BY ZenonT(60), <1>3, <1>6, <2>1 DEF Request, Pairs, PCs
  <2>5. q.want \subseteq tags
    BY <1>1, <1>7 DEF PairsFit
  <2>6. Knows(x)
    BY <1>3, <1>4, <1>6, <2>3, <2>5
       DEF Knows, Shape, RowKnows, ChargeKnows, TagKnows, PatchKnows, Pairs, Old, Doc
  <2>7. ASSUME NEW s \in Requests \ {r}, Open(s)
        PROVE  /\ NamesDiffer(x.created \cup req[s].created)
               /\ \A p \in x.added : p[2] \notin req[s].dropped
               /\ \A p \in req[s].added : p[2] \notin x.dropped
    <3>1. ~Needs(r, s)
      BY <1>4, <2>7, NotBlocked
    <3>2. q.want \cap req[s].dropped = {}
      BY <1>1, <1>4, <3>1 DEF Needs
    <3>3. \A p \in x.added : p[2] \notin req[s].dropped
      BY <2>3, <3>2 DEF Pairs
    <3> QED
      BY <1>1, <1>2, <2>3, <2>7, <3>3, WhatIsApart
  <2>8. x.op # "presign"
    BY <1>4, <2>3
  <2> QED
    BY <1>1, <1>2, <1>5, <2>2, <2>3, <2>4, <2>6, <2>7, <2>8, WritesTags
<1>8. CASE ~PairsFit(r)
  <2>1. abortsLeft \in Nat
    BY DEF Inv, TypeOK
  <2>2. Becomes(r, Idle("done"))
    BY <1>8 DEF InsertPairs
  <2> QED
    BY <1>5, <2>1, <2>2, Ends DEF Unchanged
<1> QED
  BY <1>7, <1>8

LEMMA InsertTagStep == ASSUME Inv, NEW r \in Requests, InsertTag(r) PROVE Inv'
<1>1. PICK q : q = req[r]
  OBVIOUS
<1>2. Open(r)
  BY DEF InsertTag, Runs, Open
<1>3. /\ q \in Request /\ Knows(q)
      /\ q.op \in DOMAIN Kinds /\ q.pc \in Places[q.op]
      /\ q.op \in OneDocument => Doc(q) \in Docs /\ Doc(q) = Target(r)
  BY <1>1, <1>2, WhatIsOpen
<1>4. /\ q.pc = "insert_tag" /\ q.op = "create_tag" /\ Runs(r, "insert_tag")
      /\ "commit" \in Places[q.op]
  BY <1>1, <1>3, PlaceTellsOp DEF InsertTag, Runs
<1>5. Unchanged
  BY DEF InsertTag
<1>6. CASE NamesDiffer(tags \cup q.want)
  <2>1. PICK x : x = [q EXCEPT !.pc = "commit", !.created = q.want]
    OBVIOUS
  <2>2. Becomes(r, x)
    BY <1>1, <1>6, <2>1 DEF InsertTag
  <2>3. /\ x.pc = "commit" /\ x.created = q.want /\ x.op = q.op /\ x.docs = q.docs
        /\ x.want = q.want /\ x.read = q.read /\ x.rows = q.rows /\ x.bytes = q.bytes
        /\ x.found = q.found /\ x.cleared = q.cleared /\ x.added = q.added
        /\ x.dropped = q.dropped
    BY <1>3, <2>1 DEF Request
  <2>4. x \in Request
    BY <1>3, <2>1 DEF Request, PCs
  <2>5. Knows(x)
    BY <1>3, <1>4, <1>6, <2>3
       DEF Knows, Shape, RowKnows, ChargeKnows, TagKnows, PatchKnows, OneDocument
  <2>6. ASSUME NEW s \in Requests \ {r}, Open(s)
        PROVE  /\ NamesDiffer(x.created \cup req[s].created)
               /\ \A p \in x.added : p[2] \notin req[s].dropped
               /\ \A p \in req[s].added : p[2] \notin x.dropped
    <3>1. ~Needs(r, s)
      BY <1>4, <2>6, NotBlocked
    <3>2. NamesDiffer(q.want \cup req[s].created)
      BY <1>1, <1>4, <3>1 DEF Needs
    <3> QED
      BY <1>1, <1>2, <2>3, <2>6, <3>2, WhatIsApart
  <2>7. x.op # "presign"
    BY <1>4, <2>3
  <2> QED
    BY <1>1, <1>2, <1>5, <2>2, <2>3, <2>4, <2>5, <2>6, <2>7, WritesTags
<1>7. CASE ~NamesDiffer(tags \cup q.want)
  <2>1. abortsLeft \in Nat
    BY DEF Inv, TypeOK
  <2>2. Becomes(r, Idle("done"))
    BY <1>1, <1>7 DEF InsertTag
  <2> QED
    BY <1>5, <2>1, <2>2, Ends DEF Unchanged
<1> QED
  BY <1>6, <1>7

LEMMA DropTagStep == ASSUME Inv, NEW r \in Requests, DropTag(r) PROVE Inv'
<1>1. PICK q : q = req[r]
  OBVIOUS
<1>2. Open(r)
  BY DEF DropTag, Runs, Open
<1>3. /\ q \in Request /\ Knows(q)
      /\ q.op \in DOMAIN Kinds /\ q.pc \in Places[q.op]
      /\ q.op \in OneDocument => Doc(q) \in Docs /\ Doc(q) = Target(r)
  BY <1>1, <1>2, WhatIsOpen
<1>4. /\ q.pc = "drop_tag" /\ q.op = "delete_tag" /\ Runs(r, "drop_tag")
      /\ "cascade" \in Places[q.op]
  BY <1>1, <1>3, PlaceTellsOp DEF DropTag, Runs
<1>5. PICK v : v = q.want \cap tags
  OBVIOUS
<1>6. PICK x : x = [q EXCEPT !.pc = "cascade", !.dropped = v]
  OBVIOUS
<1>7. Becomes(r, x) /\ Unchanged
  BY <1>1, <1>5, <1>6 DEF DropTag
<1>8. /\ x.pc = "cascade" /\ x.dropped = v /\ x.op = q.op /\ x.docs = q.docs /\ x.want = q.want
      /\ x.read = q.read /\ x.rows = q.rows /\ x.bytes = q.bytes /\ x.found = q.found
      /\ x.cleared = q.cleared /\ x.added = q.added /\ x.created = q.created
  BY <1>3, <1>6 DEF Request
<1>9. x \in Request
  BY ZenonT(60), <1>3, <1>5, <1>6 DEF Request, PCs
<1>10. Knows(x)
  BY <1>3, <1>4, <1>5, <1>8
     DEF Knows, Shape, RowKnows, ChargeKnows, TagKnows, PatchKnows, OneDocument
<1>11. ASSUME NEW s \in Requests \ {r}, Open(s)
       PROVE  /\ NamesDiffer(x.created \cup req[s].created)
              /\ \A p \in x.added : p[2] \notin req[s].dropped
              /\ \A p \in req[s].added : p[2] \notin x.dropped
  <2>1. ~Needs(r, s)
    BY <1>4, <1>11, NotBlocked
  <2>2. \A p \in req[s].added : p[2] \notin q.want
    BY <1>1, <1>4, <2>1 DEF Needs
  <2>3. \A p \in req[s].added : p[2] \notin x.dropped
    BY <1>5, <1>8, <2>2
  <2> QED
    BY <1>1, <1>2, <1>8, <1>11, <2>3, WhatIsApart
<1>12. x.op # "presign"
  BY <1>4, <1>8
<1> QED
  BY <1>1, <1>2, <1>7, <1>8, <1>9, <1>10, <1>11, <1>12, WritesTags

LEMMA CascadeStep == ASSUME Inv, NEW r \in Requests, Cascade(r) PROVE Inv'
<1>1. PICK q : q = req[r]
  OBVIOUS
<1>2. Open(r)
  BY DEF Cascade, Runs, Open
<1>3. /\ q \in Request /\ Knows(q)
      /\ q.op \in DOMAIN Kinds /\ q.pc \in Places[q.op]
      /\ q.op \in OneDocument => Doc(q) \in Docs /\ Doc(q) = Target(r)
  BY <1>1, <1>2, WhatIsOpen
<1>4. q.pc = "cascade" /\ q.op = "delete_tag" /\ "commit" \in Places[q.op]
  BY <1>1, <1>3, PlaceTellsOp DEF Cascade, Runs
<1>5. PICK v : v = tagged \cap (Docs \X q.want)
  OBVIOUS
<1>6. PICK x : x = [q EXCEPT !.pc = "commit", !.cleared = v]
  OBVIOUS
<1>7. Becomes(r, x) /\ Unchanged
  BY <1>1, <1>5, <1>6 DEF Cascade
<1>8. /\ x.pc = "commit" /\ x.cleared = v /\ x.op = q.op /\ x.docs = q.docs /\ x.want = q.want
      /\ x.read = q.read /\ x.rows = q.rows /\ x.bytes = q.bytes /\ x.found = q.found
      /\ x.added = q.added /\ x.created = q.created /\ x.dropped = q.dropped
  BY <1>3, <1>6 DEF Request
<1>9. x \in Request
  BY ZenonT(60), <1>3, <1>5, <1>6 DEF Request, PCs
<1>10. tagged \cap (Docs \X q.dropped) \subseteq v
  BY <1>3, <1>5 DEF Knows, Shape
<1>11. Knows(x)
  BY <1>3, <1>4, <1>8, <1>10
     DEF Knows, Shape, RowKnows, ChargeKnows, TagKnows, PatchKnows, OneDocument
<1> QED
  BY <1>1, <1>2, <1>4, <1>7, <1>8, <1>9, <1>11, GoesOn

(* A request that dies, or is rolled back to break a deadlock.             *)
LEMMA AbortStep == ASSUME Inv, NEW r \in Requests, Abort(r) \/ BreakDeadlock(r) PROVE Inv'
<1>1. abortsLeft' \in Nat
  BY DEF Inv, TypeOK, Abort, BreakDeadlock, End, Unchanged
<1> QED
  BY <1>1, Ends DEF Abort, BreakDeadlock, End, Unchanged

-------------------------------------------------------------------------------
(* The commit.                                                             *)

LEMMA CommittedRow ==
  ASSUME NEW row \in Row,
         NEW op \in {"presign", "confirm", "delete", "bulk_delete", "rename", "update"}
  PROVE  /\ Written(op, row) \in Row
         /\ Written(op, row).phase = IF op = "presign" THEN "presigned"
                                     ELSE IF op = "confirm" THEN "confirmed" ELSE row.phase
         /\ Written(op, row).deleted = IF op = "delete" THEN "alone"
                                       ELSE IF op = "bulk_delete" THEN "in_bulk" ELSE row.deleted
<1>1. CASE op = "presign"
  BY <1>1 DEF Written, Row
<1>2. CASE op = "confirm"
  BY <1>2 DEF Written, Row
<1>3. CASE op = "delete"
  BY <1>3 DEF Written, Row
<1>4. CASE op = "bulk_delete"
  BY <1>4 DEF Written, Row
<1>5. CASE op \in {"rename", "update"}
  BY <1>5 DEF Written, Row
<1> QED
  BY <1>1, <1>2, <1>3, <1>4, <1>5

(* What the commit of r makes of the documents and of everything else.     *)
LEMMA Committed ==
  ASSUME Inv, NEW r \in Requests, Commit(r), NEW q, q = req[r]
  PROVE  /\ Open(r) /\ q.pc = "commit"
         /\ doc' \in [Docs -> Row]
         /\ \A d \in Docs :
              /\ d \notin q.rows => doc'[d] = doc[d]
              /\ d \in q.rows =>
                   /\ doc'[d].phase = IF q.op = "presign" THEN "presigned"
                                      ELSE IF q.op = "confirm" THEN "confirmed" ELSE doc[d].phase
                   /\ doc'[d].deleted = IF q.op = "delete" THEN "alone"
                                        ELSE IF q.op = "bulk_delete" THEN "in_bulk"
                                        ELSE doc[d].deleted
         /\ used' = IF q.bytes = None THEN used ELSE q.bytes
         /\ tags' = (tags \ q.dropped) \cup q.created
         /\ tagged' = (tagged \ q.cleared) \cup q.added
         /\ UNCHANGED <<overlapped, abortsLeft>>
         /\ req' \in [Requests -> Request] /\ req'[r] = Idle("done")
         /\ \A s \in Requests \ {r} : req'[s] = req[s]
<1>1. Open(r) /\ q.pc = "commit"
  BY DEF Commit, Open
<1>2. q \in Request /\ Knows(q) /\ q.op \in DOMAIN Kinds
  BY <1>1, WhatIsOpen
<1>3. doc' = [d \in Docs |-> IF d \in q.rows THEN Written(q.op, doc[d]) ELSE doc[d]]
  BY DEF Commit
<1>4. doc \in [Docs -> Row]
  BY DEF Inv, TypeOK
<1>5. q.rows # {} => q.op \in {"presign", "confirm", "delete", "bulk_delete", "rename", "update"}
  BY <1>2 DEF Knows, Shape, Kinds
<1>6. ASSUME NEW d \in Docs, d \in q.rows
      PROVE  /\ doc'[d] \in Row
             /\ doc'[d].phase = IF q.op = "presign" THEN "presigned"
                                ELSE IF q.op = "confirm" THEN "confirmed" ELSE doc[d].phase
             /\ doc'[d].deleted = IF q.op = "delete" THEN "alone"
                                  ELSE IF q.op = "bulk_delete" THEN "in_bulk" ELSE doc[d].deleted
  <2>1. PICK row \in Row : row = doc[d]
    BY <1>4
  <2>2. q.op \in {"presign", "confirm", "delete", "bulk_delete", "rename", "update"}
    BY <1>5, <1>6
  <2>3. doc'[d] = Written(q.op, row)
    BY <1>3, <1>6, <2>1
  <2> QED
    BY <2>1, <2>2, <2>3, CommittedRow
<1>7. ASSUME NEW d \in Docs, d \notin q.rows PROVE doc'[d] = doc[d]
  BY <1>3, <1>7
<1>8. doc' \in [Docs -> Row]
  <2>1. \A d \in Docs : doc'[d] \in Row
    BY <1>4, <1>6, <1>7
  <2>2. doc' = [d \in Docs |-> doc'[d]]
    BY <1>3
  <2> QED
    BY <2>1, <2>2
<1>9. Idle("done") \in Request
  <2>1. "done" \in PCs /\ "rename" \in DOMAIN Kinds /\ <<>> \in Seq(Docs)
    BY DEF PCs, Kinds
  <2> QED
    BY <2>1, IdleTypes
<1>10. /\ req' \in [Requests -> Request] /\ req'[r] = Idle("done")
       /\ \A s \in Requests \ {r} : req'[s] = req[s]
  BY <1>9 DEF Inv, TypeOK, Commit, Becomes
<1> QED
  BY <1>1, <1>6, <1>7, <1>8, <1>10 DEF Commit

LEMMA CommitTypes == ASSUME Inv, NEW r \in Requests, Commit(r) PROVE TypeOK'
<1>1. PICK q : q = req[r]
  OBVIOUS
<1>2. q \in Request
  BY <1>1 DEF Inv, TypeOK
<1>3. used' \in Nat
  BY <1>1, <1>2, Committed, SMTT(30) DEF Request, Inv, TypeOK
<1>4. tags' \subseteq TagIds
  BY <1>1, <1>2, Committed DEF Request, Inv, TypeOK
<1>5. abortsLeft' \in Nat
  BY <1>1, Committed DEF Inv, TypeOK
<1> QED
  BY <1>1, <1>3, <1>4, <1>5, Committed DEF TypeOK

Confirmed == {d \in Docs : doc[d].phase = "confirmed" /\ doc[d].deleted # "alone"}

LEMMA CommitUsage == ASSUME Inv, NEW r \in Requests, Commit(r) PROVE UsageIsExact'
<1>1. PICK q : q = req[r]
  OBVIOUS
<1>2. /\ q \in Request /\ Knows(q) /\ q.pc = "commit"
      /\ q.op \in DOMAIN Kinds
      /\ q.op \in OneDocument => Doc(q) \in Docs
  BY <1>1, Committed, WhatIsOpen
<1>3. /\ \A d \in Docs : d \notin q.rows => doc'[d] = doc[d]
      /\ \A d \in q.rows : doc'[d].phase = IF q.op = "presign" THEN "presigned"
                                           ELSE IF q.op = "confirm" THEN "confirmed"
                                           ELSE doc[d].phase
      /\ \A d \in q.rows : doc'[d].deleted = IF q.op = "delete" THEN "alone"
                                             ELSE IF q.op = "bulk_delete" THEN "in_bulk"
                                             ELSE doc[d].deleted
      /\ used' = IF q.bytes = None THEN used ELSE q.bytes
      /\ overlapped' = overlapped
      /\ q.rows \subseteq Docs
  BY <1>1, <1>2, Committed DEF Request
<1>4. CASE "charge" \in overlapped
  BY <1>3, <1>4 DEF UsageIsExact
<1>5. SUFFICES ASSUME "charge" \notin overlapped PROVE UsageIsExact'
  BY <1>4
<1>6. /\ q.op = "confirm" => ConfirmKnows(q)
      /\ q.op = "delete" => DeleteKnows(q)
      /\ q.op = "bulk_delete" => q.rows \subseteq Present
  BY <1>2, <1>5 DEF Knows, ChargeKnows
<1>7. ASSUME NEW d \in Docs, doc[d].deleted = "alone", doc[d].phase # "confirmed" PROVE UsageIsExact'
  <2>1. d \notin Present
    BY <1>7 DEF Present
  <2>2. d \in q.rows => q.op \notin {"confirm", "bulk_delete"}
    BY <1>2, <1>6, <2>1 DEF ConfirmKnows, Mine
  <2>3. doc'[d].deleted = "alone" /\ doc'[d].phase # "confirmed"
    BY <1>3, <1>7, <2>2
  <2> QED
    BY <2>3 DEF UsageIsExact
<1>8. CASE used = Total(Confirmed)
  <2>1. PICK C, C2 : C = Confirmed /\ C2 = Confirmed'
    OBVIOUS
  <2>2. C \in SUBSET Docs /\ C2 \in SUBSET Docs
    BY <2>1 DEF Confirmed
  <2>3. SUFFICES used' = Total(C2) \/ \E d \in Docs : doc'[d].deleted = "alone" /\ doc'[d].phase # "confirmed"
    BY <2>1 DEF UsageIsExact, Confirmed
  <2>4. CASE q.op = "confirm" /\ q.rows = {}
    <3>1. C2 = C
      BY <1>3, <2>1, <2>4 DEF Confirmed
    <3>2. q.bytes = None
      BY <1>2, <1>6, <2>4 DEF ConfirmKnows, Mine
    <3> QED
      BY <1>3, <1>8, <2>1, <3>1, <3>2
  <2>5. CASE q.op = "confirm" /\ q.rows # {}
    <3>1. PICK d \in Docs : d = Doc(q)
      BY <1>2, <2>5 DEF OneDocument
    <3>2. d \in Present /\ q.rows = {d} /\ doc[d].phase = "presigned" /\ q.bytes = used + Size[d]
      BY <1>2, <1>6, <2>5, <3>1 DEF ConfirmKnows, Mine
    <3>3. d \notin C /\ C2 = C \cup {d}
      BY <1>3, <2>1, <2>5, <3>2 DEF Confirmed, Present
    <3>4. C2 \ {d} = C /\ d \in C2
      BY <3>3
    <3>5. Total(C2) = Size[d] + Total(C)
      BY <2>2, <3>4, Sums
    <3>6. Total(C) \in Nat /\ Size[d] \in Nat
      BY <2>2, Sums
    <3>7. used' = q.bytes
      <4>1. used + Size[d] \in Nat
        BY <1>8, <2>1, <3>6
      <4> QED
        BY <1>3, <3>2, <4>1
    <3> QED
      BY <1>8, <2>1, <3>2, <3>5, <3>6, <3>7
  <2>6. CASE q.op = "delete"
    <3>1. PICK d \in Docs : d = Doc(q)
      BY <1>2, <2>6 DEF OneDocument
    <3>2. d \in Present /\ q.rows = {d} /\ used' = Max({0, used - Size[d]})
      BY <1>2, <1>3, <1>6, <2>6, <3>1 DEF DeleteKnows
    <3>3. doc'[d].deleted = "alone" /\ doc'[d].phase = doc[d].phase
      BY <1>3, <2>6, <3>2
    <3>4. CASE doc[d].phase # "confirmed"
      BY <3>3, <3>4
    <3>5. CASE doc[d].phase = "confirmed"
      <4>1. d \in C /\ C2 = C \ {d}
        BY <1>3, <2>1, <3>2, <3>3, <3>5 DEF Confirmed, Present
      <4>2. Total(C) = Size[d] + Total(C2) /\ C2 \in SUBSET Docs
        BY <2>2, <4>1, Sums
      <4>3. Total(C2) \in Nat /\ Size[d] \in Nat
        BY <4>2, Sums
      <4>4. used - Size[d] = Total(C2)
        BY <1>8, <2>1, <4>2, <4>3
      <4>5. used - Size[d] \in Int
        BY <4>3, <4>4
      <4>6. used' = Total(C2)
        BY <3>2, <4>3, <4>4, <4>5, MaxWithZero
      <4> QED
        BY <4>6
    <3> QED
      BY <3>4, <3>5
  <2>7. CASE q.op \notin {"confirm", "delete"}
    <3>1. used' = used
      BY <1>2, <1>3, <2>7 DEF Knows, Shape
    <3>2. q.op = "presign" => \A d \in q.rows : doc[d].phase = "absent"
      BY <1>2 DEF Knows, RowKnows
    <3>3. q.op = "bulk_delete" => \A d \in q.rows : doc[d].deleted = "no"
      BY <1>6 DEF Present
    <3>4. ASSUME NEW d \in Docs PROVE d \in C <=> d \in C2
      BY <1>3, <2>1, <2>7, <3>2, <3>3 DEF Confirmed
    <3>5. C = C2
      BY <2>2, <3>4
    <3> QED
      BY <1>8, <2>1, <3>1, <3>5
  <2> QED
    BY <2>4, <2>5, <2>6, <2>7
<1> QED
  BY <1>5, <1>7, <1>8 DEF Inv, UsageIsExact, Confirmed

LEMMA CommitTags == ASSUME Inv, NEW r \in Requests, Commit(r) PROVE TagsAreConsistent'
<1>1. PICK q : q = req[r]
  OBVIOUS
<1>2. q \in Request /\ Knows(q) /\ q.pc = "commit" /\ q.op \in DOMAIN Kinds
  BY <1>1, Committed, WhatIsOpen
<1>3. tags' = (tags \ q.dropped) \cup q.created /\ tagged' = (tagged \ q.cleared) \cup q.added
  BY <1>1, Committed
<1>4. NamesDiffer(tags')
  <2>1. NamesDiffer(tags \cup q.created)
    BY <1>2 DEF Knows, TagKnows
  <2>2. tags' \subseteq tags \cup q.created
    BY <1>3
  <2> QED
    BY <2>1, <2>2 DEF NamesDiffer
<1>5. tagged \subseteq Docs \X tags /\ q.added \subseteq Docs \X tags
  BY <1>2 DEF Inv, TagsAreConsistent, Knows, TagKnows
<1>6. CASE q.op = "delete_tag"
  <2>1. tagged \cap (Docs \X q.dropped) \subseteq q.cleared /\ q.added = {}
    BY <1>2, <1>6 DEF Knows, TagKnows, Shape
  <2>2. tagged' \subseteq Docs \X (tags \ q.dropped)
    BY <1>3, <1>5, <2>1
  <2> QED
    BY <1>3, <1>4, <2>2 DEF TagsAreConsistent
<1>7. CASE q.op # "delete_tag"
  <2>1. tags \subseteq tags'
    BY <1>2, <1>3, <1>7 DEF Knows, Shape
  <2>2. tagged' \subseteq Docs \X tags'
    BY <1>3, <1>5, <2>1
  <2> QED
    BY <1>4, <2>2 DEF TagsAreConsistent
<1> QED
  BY <1>6, <1>7

(* What the commit of r, whose record is q, leaves of what another open    *)
(* request knows: y is its record.                                         *)
LEMMA CommitRowsOfOther ==
  ASSUME Inv, NEW r \in Requests, Commit(r), NEW s \in Requests \ {r}, Open(s),
         NEW q, q = req[r], NEW y, y = req[s]
  PROVE  /\ RowKnows(y)'
         /\ \A d \in Docs : doc[d].phase # "absent" /\ q.op # "confirm" => doc'[d].phase = doc[d].phase
         /\ \A d \in Docs : q.op \notin {"delete", "bulk_delete"} => doc'[d].deleted = doc[d].deleted
<1>1. /\ q \in Request /\ Knows(q) /\ q.pc = "commit" /\ q.op \in DOMAIN Kinds
      /\ q.op \in OneDocument => Doc(q) \in Docs
  BY Committed, WhatIsOpen
<1>2. /\ y \in Request /\ Knows(y) /\ Apart(q, y)
      /\ y.op \in OneDocument => Doc(y) \in Docs
  <2>1. s # r /\ Open(r)
    BY Committed
  <2> QED
    BY <2>1, WhatIsOpen
<1>3. \A d \in Docs :
        /\ d \notin q.rows => doc'[d] = doc[d]
        /\ d \in q.rows =>
             /\ doc'[d].phase = IF q.op = "presign" THEN "presigned"
                                ELSE IF q.op = "confirm" THEN "confirmed" ELSE doc[d].phase
             /\ doc'[d].deleted = IF q.op = "delete" THEN "alone"
                                  ELSE IF q.op = "bulk_delete" THEN "in_bulk"
                                  ELSE doc[d].deleted
  BY Committed
<1>4. /\ q.op = "presign" => doc[Doc(q)].phase = "absent" /\ q.rows \subseteq {Doc(q)}
      /\ q.op # "presign" => \A d \in q.rows : doc[d].phase # "absent"
  BY <1>1 DEF Knows, RowKnows
<1>5. \A d \in Docs : doc[d].phase # "absent" /\ q.op # "confirm" => doc'[d].phase = doc[d].phase
  BY <1>3, <1>4
<1>6. \A d \in Docs : doc[d].phase # "absent" => doc'[d].phase # "absent"
  BY <1>3, <1>4
<1>7. \A d \in Docs : q.op \notin {"delete", "bulk_delete"} => doc'[d].deleted = doc[d].deleted
  BY <1>3
<1>8. y.op = "presign" => doc'[Doc(y)].phase = "absent" /\ y.rows \subseteq {Doc(y)}
  <2> SUFFICES ASSUME y.op = "presign" PROVE doc'[Doc(y)].phase = "absent" /\ y.rows \subseteq {Doc(y)}
    OBVIOUS
  <2>1. doc[Doc(y)].phase = "absent" /\ y.rows \subseteq {Doc(y)} /\ Doc(y) \in Docs
    BY <1>2 DEF Knows, RowKnows, OneDocument
  <2>2. Doc(y) \notin q.rows
    <3>1. CASE q.op = "presign"
      <4>1. PICK d, e : q.docs = <<d>> /\ y.docs = <<e>>
        BY <1>1, <1>2, <3>1 DEF Knows, Shape, OneDocument
      <4>2. d # e
        BY <1>2, <3>1, <4>1 DEF Apart
      <4>3. Doc(q) = d /\ Doc(y) = e
        BY <4>1 DEF Doc
      <4> QED
        BY <1>4, <3>1, <4>2, <4>3
    <3>2. CASE q.op # "presign"
      BY <1>4, <2>1, <3>2
    <3> QED
      BY <3>1, <3>2
  <2> QED
    BY <1>3, <2>1, <2>2
<1>9. y.op \in OneDocument \ {"presign"} => doc'[Doc(y)].phase # "absent"
  BY <1>2, <1>6 DEF Knows, RowKnows
<1>10. y.op # "presign" => \A d \in y.rows : doc'[d].phase # "absent"
  BY <1>2, <1>6 DEF Knows, RowKnows, Request
<1> QED
  BY <1>5, <1>7, <1>8, <1>9, <1>10 DEF RowKnows

LEMMA CommitKnowsOther ==
  ASSUME Inv, NEW r \in Requests, Commit(r), NEW s \in Requests \ {r}, Open(s),
         NEW y, y = req[s]
  PROVE  Knows(y)'
<1>1. PICK q : q = req[r]
  OBVIOUS
<1>2. /\ q \in Request /\ Knows(q) /\ q.pc = "commit" /\ q.op \in DOMAIN Kinds
  BY <1>1, Committed, WhatIsOpen
<1>3. /\ y \in Request /\ Knows(y) /\ Apart(q, y) /\ Apart(y, q)
      /\ y.op \in DOMAIN Kinds
      /\ y.op \in OneDocument => Doc(y) \in Docs
  <2>1. s # r /\ Open(r)
    BY <1>1, Committed
  <2> QED
    BY <1>1, <2>1, WhatIsOpen
<1>4. /\ used' = IF q.bytes = None THEN used ELSE q.bytes
      /\ tags' = (tags \ q.dropped) \cup q.created
      /\ tagged' = (tagged \ q.cleared) \cup q.added
      /\ overlapped' = overlapped
  BY <1>1, Committed
<1>5. RowKnows(y)'
  BY <1>1, CommitRowsOfOther
<1>6. ChargeKnows(y)'
  <2> SUFFICES ASSUME "charge" \notin overlapped, y.op \in {"confirm", "delete", "bulk_delete"}
               PROVE  ChargeKnows(y)'
    BY <1>4 DEF ChargeKnows
  <2>1. q.op \notin {"confirm", "delete", "bulk_delete"}
    BY <1>3 DEF Apart, Kinds
  <2>2. used' = used
    BY <1>2, <1>4, <2>1 DEF Knows, Shape
  <2>3. \A d \in Docs : doc[d].phase # "absent" => doc'[d].phase = doc[d].phase
    BY <1>1, <2>1, CommitRowsOfOther
  <2>4. \A d \in Docs : doc'[d].deleted = doc[d].deleted
    BY <1>1, <2>1, CommitRowsOfOther
  <2>5. \A d \in Present : d \in Present'
    BY <2>3, <2>4 DEF Present
  <2>6. Mine(y) /\ Doc(y) \in Docs => Mine(y)'
    BY <2>3 DEF Mine
  <2>7. CASE y.op = "confirm"
    <3>1. ConfirmKnows(y) /\ Doc(y) \in Docs
      BY <1>3, <2>7 DEF Knows, ChargeKnows, OneDocument
    <3>2. ConfirmKnows(y)'
      BY <2>2, <2>5, <2>6, <3>1 DEF ConfirmKnows
    <3> QED
      BY <2>7, <3>2 DEF ChargeKnows
  <2>8. CASE y.op = "delete"
    <3>1. DeleteKnows(y)
      BY <1>3, <2>8 DEF Knows, ChargeKnows
    <3>2. DeleteKnows(y)'
      BY <2>2, <2>5, <3>1 DEF DeleteKnows
    <3> QED
      BY <2>8, <3>2 DEF ChargeKnows
  <2>9. CASE y.op = "bulk_delete"
    <3>1. y.rows \subseteq Present
      BY <1>3, <2>9 DEF Knows, ChargeKnows
    <3> QED
      BY <2>5, <2>9, <3>1 DEF ChargeKnows
  <2> QED
    BY <2>7, <2>8, <2>9
<1>7. TagKnows(y)'
  <2>1. NamesDiffer(tags' \cup y.created)
    <3>1. NamesDiffer(tags \cup q.created) /\ NamesDiffer(tags \cup y.created)
      BY <1>2, <1>3 DEF Knows, TagKnows
    <3>2. NamesDiffer(q.created \cup y.created)
      BY <1>3 DEF Apart
    <3>3. \A g \in tags' : g \in tags \/ g \in q.created
      BY <1>4
    <3> QED
      BY <3>1, <3>2, <3>3 DEF NamesDiffer
  <2>2. y.added \subseteq Docs \X tags'
    <3>1. y.added \subseteq Docs \X tags
      BY <1>3 DEF Knows, TagKnows
    <3>2. \A p \in y.added : p[2] \notin q.dropped
      BY <1>3 DEF Apart
    <3> QED
      BY <1>4, <3>1, <3>2
  <2>3. y.op = "delete_tag" /\ y.pc = "commit" => tagged' \cap (Docs \X y.dropped) \subseteq y.cleared
    <3>1. y.op = "delete_tag" /\ y.pc = "commit" => tagged \cap (Docs \X y.dropped) \subseteq y.cleared
      BY <1>3 DEF Knows, TagKnows
    <3>2. \A p \in q.added : p[2] \notin y.dropped
      BY <1>3 DEF Apart
    <3> QED
      BY <1>4, <3>1, <3>2
  <2> QED
    BY <2>1, <2>2, <2>3 DEF TagKnows
<1>8. PatchKnows(y)'
  <2> SUFFICES ASSUME "tags" \notin overlapped, y.op \in {"retag", "update"} PROVE PatchKnows(y)'
    BY <1>4 DEF PatchKnows
  <2>1. q.op \notin {"retag", "update", "bulk_tag", "create_tag", "delete_tag"}
    BY <1>3 DEF Apart, Kinds
  <2>2. tags' = tags /\ tagged' = tagged
    BY <1>2, <1>4, <2>1 DEF Knows, Shape
  <2> QED
    BY <1>3, <2>2 DEF Knows, PatchKnows, Old
<1>9. Shape(y)'
  BY <1>3 DEF Knows, Shape
<1> QED
  BY <1>5, <1>6, <1>7, <1>8, <1>9 DEF Knows

LEMMA CommitStep == ASSUME Inv, NEW r \in Requests, Commit(r) PROVE Inv'
<1>1. PICK q : q = req[r]
  OBVIOUS
<1>2. /\ overlapped' = overlapped
      /\ req'[r] = Idle("done")
      /\ \A s \in Requests \ {r} : req'[s] = req[s]
  BY <1>1, Committed
<1>3. \A s \in Requests : Open(s)' => s # r /\ Open(s) /\ req'[s] = req[s]
  BY <1>2 DEF Open, Idle
<1>4. AllKnow'
  <2> SUFFICES ASSUME NEW s \in Requests, Open(s)' PROVE Knows(req[s])'
    BY DEF AllKnow
  <2>1. PICK y : y = req[s]
    OBVIOUS
  <2>2. Knows(y)'
    BY <1>3, <2>1, CommitKnowsOther
  <2> QED
    BY <1>3, <2>1, <2>2
<1>5. AllApart'
  <2> SUFFICES ASSUME NEW t \in Requests, NEW s \in Requests, t # s, Open(t)', Open(s)'
               PROVE  Apart(req[t], req[s])'
    BY DEF AllApart
  <2>1. PICK y, z : y = req[t] /\ z = req[s]
    OBVIOUS
  <2>2. Apart(y, z)
    BY <1>3, <2>1 DEF Inv, AllApart
  <2>3. Apart(y, z)'
    BY <1>2, <2>2 DEF Apart
  <2> QED
    BY <1>3, <2>1, <2>3
<1> QED
  BY <1>4, <1>5, CommitTypes, CommitUsage, CommitTags DEF Inv

LEMMA NextStep == Inv /\ [Next]_vars => Inv'
<1> SUFFICES ASSUME Inv, [Next]_vars PROVE Inv'
  OBVIOUS
<1>1. CASE UNCHANGED vars
  <2>1. UNCHANGED <<doc, used, tags, tagged, req, overlapped, abortsLeft>>
    BY <1>1 DEF vars
  <2>2. TypeOK' /\ UsageIsExact' /\ TagsAreConsistent'
    BY <2>1 DEF Inv, TypeOK, UsageIsExact, TagsAreConsistent
  <2>3. \A y : Knows(y) => Knows(y)'
    BY <2>1 DEF Knows, Shape, RowKnows, ChargeKnows, ConfirmKnows, Mine, DeleteKnows, TagKnows,
                PatchKnows, Old, Present
  <2>4. \A y, z : Apart(y, z) => Apart(y, z)'
    BY <2>1 DEF Apart
  <2>5. AllKnow'
    BY <2>1, <2>3 DEF Inv, AllKnow, Open
  <2>6. AllApart'
    BY <2>1, <2>4 DEF Inv, AllApart, Open
  <2> QED
    BY <2>2, <2>5, <2>6 DEF Inv
<1>2. ASSUME NEW r \in Requests, Call(r) PROVE Inv'
  BY <1>2, CallStep
<1>3. ASSUME NEW r \in Requests, Step(r) PROVE Inv'
  BY <1>3, CountDocumentsStep, ConfirmIfUnconfirmedStep, ReadUserStep, UpdateUserStep,
     SoftDeleteStep, BulkEachStep, BulkEndsStep, RenameStep, CheckTagsStep, FindPairsStep,
     ClearPairsStep, InsertPairsStep, InsertTagStep, DropTagStep, CascadeStep, CommitStep, AbortStep
     DEF Step
<1>4. ASSUME NEW r \in Requests, Abort(r) PROVE Inv'
  BY <1>4, AbortStep
<1> QED
  BY <1>1, <1>2, <1>3, <1>4 DEF Next

LEMMA Invariant == Spec => []Inv
  BY Initially, NextStep, PTL DEF Spec

-------------------------------------------------------------------------------
(* The theorems.                                                           *)

(* Committed rows, the counter and what open requests hold stay of their   *)
(* types; storage_used_bytes never falls below zero.                       *)
THEOREM LibraryTypeCorrect == Spec => []TypeOK
  BY Invariant, PTL DEF Inv

(* Confirms and deletes that do not overlap keep storage_used_bytes equal  *)
(* to the size of the confirmed documents, whatever dies in between.       *)
THEOREM UsageIsExactCorrect == Spec => []UsageIsExact
  BY Invariant, PTL DEF Inv

(* However tags are created, deleted and assigned, tag names differ and    *)
(* documents have tags that exist.                                         *)
THEOREM TagsAreConsistentCorrect == Spec => []TagsAreConsistent
  BY Invariant, PTL DEF Inv

(* A call that uploads, renames or deletes one document is never rolled    *)
(* back to break a deadlock: everyone in a least deadlock holds what       *)
(* another waits for, and such a call holds something only while it waits  *)
(* for the user's row, whose holder is about to commit.                    *)
LEMMA EveryoneBlocks ==
  ASSUME NEW r \in Requests, InDeadlock(r)
  PROVE  \E t, s \in Requests \ {r} : /\ Open(s) /\ Needs(r, s) /\ Blockers(s) # {}
                                    /\ Open(r) /\ Needs(t, r)
<1>1. PICK S \in SUBSET Requests : /\ r \in S
                                   /\ Deadlocked(S)
                                   /\ \A T \in (SUBSET S) \ {S} : ~Deadlocked(T)
  BY DEF InDeadlock
<1>2. PICK s \in S : s \in Blockers(r)
  BY <1>1 DEF Deadlocked
<1>3. s # r /\ Open(s) /\ Needs(r, s) /\ Blockers(s) # {}
  BY <1>1, <1>2 DEF Blockers, Deadlocked
<1>4. ~Deadlocked(S \ {r})
  BY <1>1
<1>5. PICK t \in S \ {r} : Blockers(t) \cap (S \ {r}) = {}
  BY <1>2, <1>3, <1>4 DEF Deadlocked
<1>6. Blockers(t) \cap S # {}
  BY <1>1 DEF Deadlocked
<1>7. r \in Blockers(t)
  BY <1>5, <1>6
<1>8. Open(r) /\ Needs(t, r)
  BY <1>7 DEF Blockers
<1> QED
  BY <1>2, <1>3, <1>5, <1>8

LEMMA DeadlockHolds == Inv => NoDeadlockedUpload
<1> SUFFICES ASSUME Inv, NEW r \in Requests, Open(r), InDeadlock(r),
                    Kinds[req[r].op] # "tags", req[r].op # "bulk_delete"
             PROVE  FALSE
  BY DEF NoDeadlockedUpload
<1>1. PICK t, s \in Requests \ {r} : /\ Open(s) /\ Needs(r, s) /\ Blockers(s) # {}
                                     /\ Needs(t, r)
  BY EveryoneBlocks
<1>2. PICK q : q = req[r]
  OBVIOUS
<1>3. Shape(q) /\ q.op \in {"presign", "confirm", "delete", "rename"}
  BY <1>2, WhatIsOpen DEF Knows, Kinds
<1>4. /\ q.found = {} /\ q.cleared = {} /\ q.added = {} /\ q.created = {} /\ q.dropped = {}
  BY <1>3 DEF Shape
<1>5. q.pc \in {"confirm", "soft_delete", "rename", "write_user"}
  BY <1>1, <1>2, <1>3, <1>4 DEF Needs, Shape, Places
<1>6. CASE q.pc \in {"confirm", "soft_delete", "rename"}
  <2>1. q.rows = {} /\ q.bytes = None
    BY <1>3, <1>6 DEF Shape
  <2>2. req[t].pc = "insert_tag" =>
          NamesDiffer(req[t].want \cup q.created) /\ NamesDiffer(req[t].want \cup q.dropped)
    <3> SUFFICES ASSUME req[t].pc = "insert_tag"
                 PROVE  NamesDiffer(req[t].want \cup q.created) /\ NamesDiffer(req[t].want \cup q.dropped)
      OBVIOUS
    <3>1. PICK y : y = req[t]
      OBVIOUS
    <3>2. Shape(y) /\ y.op = "create_tag"
      <4>1. Open(t)
        BY DEF Open
      <4>2. Knows(y) /\ y.op \in DOMAIN Kinds /\ y.pc \in Places[y.op]
        BY <3>1, <4>1, WhatIsOpen
      <4> QED
        BY <3>1, <4>2, PlaceTellsOp DEF Knows
    <3>3. PICK g \in TagIds : y.want = {g}
      BY <3>2 DEF Shape
    <3>4. y.want \cup q.created = {g} /\ y.want \cup q.dropped = {g}
      BY <1>4, <3>3
    <3>5. NamesDiffer({g})
      BY DEF NamesDiffer
    <3> QED
      BY <3>1, <3>4, <3>5
  <2> QED
    BY <1>1, <1>2, <1>4, <2>1, <2>2 DEF Needs
<1>7. CASE q.pc = "write_user"
  <2>1. req[s].bytes # None
    BY <1>1, <1>2, <1>7 DEF Needs
  <2>2. PICK y : y = req[s]
    OBVIOUS
  <2>3. Shape(y)
    BY <1>1, <2>2, WhatIsOpen DEF Knows
  <2>4. y.pc = "commit"
    BY <2>1, <2>2, <2>3 DEF Shape
  <2>5. PICK u \in Requests : Needs(s, u)
    BY <1>1 DEF Blockers
  <2> QED
    BY <2>2, <2>4, <2>5 DEF Needs
<1> QED
  BY <1>5, <1>6, <1>7

THEOREM NoDeadlockedUploadCorrect == Spec => []NoDeadlockedUpload
  BY Invariant, DeadlockHolds, PTL

(* A PATCH with tag_ids that no other tag request overlaps replaces the    *)
(* whole set.                                                              *)
LEMMA PatchReplaces ==
  ASSUME Inv, NEW r \in Requests, req[r].op \in {"retag", "update"}, Commit(r),
         req[r].want \subseteq tags, "tags" \notin overlapped
  PROVE  tagged' \cap Pairs(Target(r), TagIds) = Pairs(Target(r), req[r].want)
<1>1. PICK q : q = req[r]
  OBVIOUS
<1>2. /\ q \in Request /\ Knows(q) /\ q.pc = "commit"
      /\ q.op \in OneDocument => Doc(q) \in Docs /\ Doc(q) = Target(r)
  BY <1>1, Committed, WhatIsOpen
<1>3. q.cleared = tagged \cap Pairs(Doc(q), TagIds) /\ q.added = Pairs(Doc(q), q.want)
  BY <1>1, <1>2 DEF Knows, PatchKnows, Old
<1>4. tagged' = (tagged \ q.cleared) \cup q.added
  BY <1>1, Committed
<1>5. q.want \subseteq TagIds /\ Doc(q) = Target(r)
  BY <1>1, <1>2 DEF Request, OneDocument
<1> QED
  BY <1>1, <1>3, <1>4, <1>5 DEF Pairs

THEOREM PatchReplacesTagsCorrect == Spec => PatchReplacesTags
<1>1. Inv /\ [Next]_vars =>
        [\A r \in Requests :
           /\ req[r].op \in {"retag", "update"} /\ Commit(r)
           /\ req[r].want \subseteq tags /\ "tags" \notin overlapped
           => tagged' \cap Pairs(Target(r), TagIds) = Pairs(Target(r), req[r].want)]_vars
  BY PatchReplaces
<1> QED
  BY <1>1, Invariant, PTL DEF Spec, PatchReplacesTags
===============================================================================

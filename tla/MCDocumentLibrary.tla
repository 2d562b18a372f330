--------------------------- MODULE MCDocumentLibrary ---------------------------
(* Instances of DocumentLibrary for TLC. *)
EXTENDS DocumentLibrary, TLC

CONSTANTS d1, d2, g1, g2, g3, r1, r2

SizeValues == d1 :> 2 @@ d2 :> 2

(* Both orders, and a document named twice.                                *)
ListValues == {<<d1, d2>>, <<d2, d1>>, <<d1, d1>>, <<d2, d2>>}

TagSetValues == {{}, {g1}, {g2}}

(* Two rows of one name: the unique index lets one of them in.             *)
NameValues == g1 :> "one" @@ g2 :> "two" @@ g3 :> "two"

Symmetry == Permutations(Requests) \cup Permutations(Docs)
===============================================================================

--------------------------- MODULE MCDocumentReaders ---------------------------
(* Instances of DocumentReaders for TLC. *)
EXTENDS DocumentReaders

CONSTANTS d1, d2, d3, r1
===============================================================================

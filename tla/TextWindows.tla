------------------------------ MODULE TextWindows ------------------------------
(***************************************************************************)
(* How text is cut and packed: the chunks of a document (chunking.py), the *)
(* context of an answer (retrieval_service.py), the history of a           *)
(* conversation (chat_service.py).  All of it is greedy packing of pieces  *)
(* under a budget of tokens.                                               *)
(*                                                                         *)
(* A text is the sequence of the token counts of its pieces: what a piece  *)
(* says does not matter, and counts are taken to add up (the white space   *)
(* between pieces is not counted).  Offsets are positions of pieces.       *)
(***************************************************************************)
EXTENDS Integers, Sequences, FiniteSets, SequencesExt

CONSTANTS
  TargetMax,     (* TARGET_MAX_TOKENS                                      *)
  OverlapMax,    (* OVERLAP_TOKENS                                         *)
  CharsPerToken, (* _hard_split's approx_chars_per_token                   *)
  TokenBudget    (* the budget of a context, or of a history               *)

ASSUME TextWindowsAssumption ==
  /\ {TargetMax, OverlapMax, CharsPerToken, TokenBudget} \subseteq Nat \ {0}
  /\ OverlapMax < TargetMax

-------------------------------------------------------------------------------
(* The tokens of the first n pieces, for each n.                           *)
Sums(pieces) ==
  LET sums[n \in 0..Len(pieces)] == IF n = 0 THEN 0 ELSE sums[n - 1] + pieces[n]
  IN  sums

(* The tokens of the pieces from first to last.                            *)
Tokens(pieces, first, last) == Sums(pieces)[last] - Sums(pieces)[first - 1]

(* A chunk holds the pieces from first to last.                            *)
Chunk(first, last) == [first |-> first, last |-> last]

Holds(chunk, i) == chunk.first <= i /\ i <= chunk.last

Size(pieces, chunk) == Tokens(pieces, chunk.first, chunk.last)

-------------------------------------------------------------------------------
(* _hard_split cuts a sentence of characters, whose tokens are given one   *)
(* by one, into spans: a guess by length, shrunk by a tenth until it fits. *)

Shrink(chars, start, end) ==
  LET shrink[e \in start + 1..end] ==
        IF e > start + 1 /\ Tokens(chars, start + 1, e) > TargetMax
        THEN shrink[e - Max({1, (e - start) \div 10})] ELSE e
  IN  shrink[end]

(* A span holds the characters after start and up to end.                  *)
HardSplit(chars) ==
  LET split[start \in 0..Len(chars)] ==
        IF start = Len(chars) THEN <<>>
        ELSE LET end == Shrink(chars, start, Min({start + TargetMax * CharsPerToken, Len(chars)}))
             IN  <<Chunk(start + 1, end)>> \o split[end]
  IN  split[0]

(* A sentence whose tokens are as long as the guess says.                  *)
CutSentence(tokens) ==
  LET chars == [i \in 1..tokens * CharsPerToken |-> IF i % CharsPerToken = 0 THEN 1 ELSE 0]
      spans == HardSplit(chars)
  IN  [k \in DOMAIN spans |-> Size(chars, spans[k])]

-------------------------------------------------------------------------------
(* Prose: _flatten_to_atoms and _pack_atoms.                               *)

(* A paragraph is a sequence of sentences: whole if it fits, else its      *)
(* sentences, each of them cut if it does not fit.                         *)
FlattenToAtoms(paragraphs) ==
  LET Total(p) == Tokens(p, 1, Len(p))
      Sentences(p) == FlattenSeq([i \in DOMAIN p |->
                        IF p[i] <= TargetMax THEN <<p[i]>> ELSE CutSentence(p[i])])
  IN  FlattenSeq([k \in DOMAIN paragraphs |->
        LET p == paragraphs[k] IN IF Total(p) <= TargetMax THEN <<Total(p)>> ELSE Sentences(p)])

(* _trailing_overlap: the first of the whole atoms, counted from the end,  *)
(* that fit the overlap together; last + 1 when none does.                 *)
TrailingOverlap(atoms, first, last) ==
  CHOOSE i \in first..last + 1 :
    /\ Tokens(atoms, i, last) <= OverlapMax
    /\ i > first => Tokens(atoms, i - 1, last) > OverlapMax

(* Mutant: the atom that overflows a chunk is dropped. *)
PackAtom_Drops(atoms, s, i) ==
  IF s.first < i /\ Tokens(atoms, s.first, i) > TargetMax
  THEN [chunks |-> Append(s.chunks, Chunk(s.first, i - 1)), first |-> i + 1]
  ELSE s

(* "first" is where the window that is being filled begins; it holds the   *)
(* atoms up to the one before i.  A full window is flushed before i enters.*)
PackAtom(atoms, s, i) ==
  IF s.first < i /\ Tokens(atoms, s.first, i) > TargetMax
  THEN [chunks |-> Append(s.chunks, Chunk(s.first, i - 1)),
        first  |-> TrailingOverlap(atoms, s.first, i - 1)]
  ELSE s

(* What has been packed when n atoms have entered, for each n.             *)
Packed(atoms) ==
  LET packed[n \in 0..Len(atoms)] ==
        IF n = 0 THEN [chunks |-> <<>>, first |-> 1] ELSE PackAtom(atoms, packed[n - 1], n)
  IN  packed

PackAtoms(atoms) ==
  LET packed == Packed(atoms)[Len(atoms)]
  IN  IF packed.first > Len(atoms) THEN packed.chunks
      ELSE Append(packed.chunks, Chunk(packed.first, Len(atoms)))

Ascending(breaks) == \A j, k \in DOMAIN breaks : j < k => breaks[j] < breaks[k]

(* _page_number_at: pages begin at the ascending breaks.                   *)
PageNumberAt(offset, breaks) ==
  LET later == {k \in DOMAIN breaks : offset < breaks[k]}
  IN  IF later = {} THEN Len(breaks) + 1 ELSE Min(later)

-------------------------------------------------------------------------------
(* Rows: chunk_csv_rows packs whole rows under a repeated header.          *)

(* Mutant: the header is not counted again. *)
PackRow_HeaderOnce(header, rows, s, i) ==
  IF i > s.first /\ s.tokens + rows[i] > TargetMax
  THEN [chunks |-> Append(s.chunks, Chunk(s.first, i - 1)), first |-> i, tokens |-> rows[i]]
  ELSE [s EXCEPT !.tokens = @ + rows[i]]

PackRow(header, rows, s, i) ==
  IF i > s.first /\ s.tokens + rows[i] > TargetMax
  THEN [chunks |-> Append(s.chunks, Chunk(s.first, i - 1)), first |-> i, tokens |-> header + rows[i]]
  ELSE [s EXCEPT !.tokens = @ + rows[i]]

(* What has been packed when n rows have entered, for each n.              *)
Grouped(header, rows) ==
  LET grouped[n \in 0..Len(rows)] ==
        IF n = 0 THEN [chunks |-> <<>>, first |-> 1, tokens |-> header]
        ELSE PackRow(header, rows, grouped[n - 1], n)
  IN  grouped

ChunkCsvRows(header, rows) ==
  LET grouped == Grouped(header, rows)[Len(rows)]
  IN  IF rows = <<>> THEN <<>> ELSE Append(grouped.chunks, Chunk(grouped.first, Len(rows)))

-------------------------------------------------------------------------------
(* The context of an answer.  Results are numbered by falling similarity;  *)
(* "near" is the set of pairs of them whose contents overlap by more than  *)
(* the threshold.                                                          *)

(* Mutant: a result is compared with the last that was kept. *)
KeepResult_Last(near, kept, r) ==
  IF kept # <<>> /\ {Last(kept), r} \in near THEN kept ELSE Append(kept, r)

(* A result goes when it is near one that is kept.                         *)
KeepResult(near, kept, r) ==
  IF \E k \in DOMAIN kept : {kept[k], r} \in near THEN kept ELSE Append(kept, r)

(* _dedupe: what is kept of the first n results, for each n.               *)
Dedupe(count, near) ==
  LET kept[n \in 0..count] == IF n = 0 THEN <<>> ELSE KeepResult(near, kept[n - 1], n)
  IN  kept

(* How many pieces fit, from the first on, stopping at the one that does   *)
(* not; the first is always taken.                                         *)
Fitting(tokens) ==
  LET fits(n) == n = 1 \/ Tokens(tokens, 1, n) <= TokenBudget
  IN  Max({n \in 0..Len(tokens) : \A k \in 1..n : fits(k)})

(* retrieve, and _trim_to_budget: the kept results, in their order.        *)
Retrieve(tokens, near) ==
  LET kept == Dedupe(Len(tokens), near)[Len(tokens)]
  IN  SubSeq(kept, 1, Fitting([k \in DOMAIN kept |-> tokens[kept[k]]]))

(* Mutant: a message that does not fit is passed over. *)
TakeMessage_Skips(messages, s, i) ==
  IF \/ messages[i].role \notin {"user", "assistant"}
     \/ s.history # <<>> /\ s.tokens + messages[i].tokens > TokenBudget
  THEN s
  ELSE [s EXCEPT !.history = <<i>> \o @, !.tokens = @ + messages[i].tokens]

(* Of what was said, a message is taken until one does not fit; the first  *)
(* is always taken.                                                        *)
TakeMessage(messages, s, i) ==
  IF s.full \/ messages[i].role \notin {"user", "assistant"} THEN s
  ELSE IF s.history # <<>> /\ s.tokens + messages[i].tokens > TokenBudget
  THEN [s EXCEPT !.full = TRUE]
  ELSE [s EXCEPT !.history = <<i>> \o @, !.tokens = @ + messages[i].tokens]

(* What has been taken when the n messages before this one have been seen, *)
(* the newest first, for each n.                                           *)
Assembled(messages, before) ==
  LET assembled[n \in 0..before - 1] ==
        IF n = 0 THEN [history |-> <<>>, tokens |-> 0, full |-> FALSE]
        ELSE TakeMessage(messages, assembled[n - 1], before - n)
  IN  assembled

AssembleHistory(messages, before) == Assembled(messages, before)[before - 1].history

-------------------------------------------------------------------------------
(* Spans that follow each other without a gap from the first to the last.  *)
Partitions(spans, n) ==
  /\ n > 0 => spans # <<>> /\ spans[1].first = 1 /\ Last(spans).last = n
  /\ \A k \in DOMAIN spans : spans[k].first <= spans[k].last
  /\ \A k \in 1..Len(spans) - 1 : spans[k + 1].first = spans[k].last + 1

(* A cut sentence is all there, and a span is over the target only when it *)
(* is a single character.                                                  *)
SpansFit(chars) ==
  LET spans == HardSplit(chars) IN
  /\ Partitions(spans, Len(chars))
  /\ \A k \in DOMAIN spans :
       Size(chars, spans[k]) <= TargetMax \/ spans[k].first = spans[k].last

(* No text is lost between chunks, and each chunk ends with new text.      *)
ChunksCover(atoms) ==
  LET chunks == PackAtoms(atoms) IN
  /\ \A i \in DOMAIN atoms : \E k \in DOMAIN chunks : Holds(chunks[k], i)
  /\ \A k \in 1..Len(chunks) - 1 : /\ chunks[k].last < chunks[k + 1].last
                                    /\ chunks[k].first <= chunks[k + 1].first

(* A chunk exceeds the target by what it repeats of the one before, which  *)
(* is at most the overlap, and it does so only before a single atom.       *)
ChunksFit(atoms) ==
  LET chunks == PackAtoms(atoms) IN
  \A k \in DOMAIN chunks :
    LET shared == IF k = 1 THEN 0 ELSE Tokens(atoms, chunks[k].first, chunks[k - 1].last)
    IN  /\ shared <= OverlapMax
        /\ Size(atoms, chunks[k]) > TargetMax
             => Size(atoms, chunks[k]) = shared + atoms[chunks[k].last]

(* Every sentence of a document is in its atoms, none of them over target. *)
AtomsFit(paragraphs) ==
  LET atoms == FlattenToAtoms(paragraphs) IN
  /\ \A i \in DOMAIN atoms : atoms[i] <= TargetMax
  /\ Tokens(atoms, 1, Len(atoms)) =
       Tokens(FlattenSeq(paragraphs), 1, Len(FlattenSeq(paragraphs)))

(* The page of an offset is that of the last break before or at it.        *)
PageOfOffset(offset, breaks) ==
  PageNumberAt(offset, breaks) = Cardinality({k \in DOMAIN breaks : breaks[k] <= offset}) + 1

(* Groups are whole rows, in order and without repetition; only a group of *)
(* one row is over the target, and no group could take the next row.       *)
RowGroupsFit(header, rows) ==
  LET groups == ChunkCsvRows(header, rows)
      Cost(k) == header + Size(rows, groups[k])
  IN  /\ Partitions(groups, Len(rows))
      /\ \A k \in DOMAIN groups :
           /\ Cost(k) <= TargetMax \/ groups[k].first = groups[k].last
           /\ k < Len(groups) => Cost(k) + rows[groups[k].last + 1] > TargetMax

(* No two results of a context are near each other, one that was dropped   *)
(* before the last is near a more similar one, and the context fits,       *)
(* unless it is a single result.                                           *)
ContextFits(tokens, near) ==
  LET context == Retrieve(tokens, near)
      taken == {context[k] : k \in DOMAIN context}
  IN  /\ Len(tokens) > 0 => context # <<>>
      /\ \A r, s \in taken : {r, s} \notin near
      /\ \A r \in DOMAIN tokens \ taken :
           (\E s \in taken : r < s) => \E s \in taken : s < r /\ {s, r} \in near
      /\ Len(context) = 1 \/ Tokens([k \in DOMAIN context |-> tokens[context[k]]], 1, Len(context))
                                <= TokenBudget

(* A history has the newest messages before the question in their order,   *)
(* without a gap, as many as fit, and one in any case.                     *)
HistoryFits(messages, before) ==
  LET history == AssembleHistory(messages, before)
      said == {i \in 1..before - 1 : messages[i].role \in {"user", "assistant"}}
      taken == {history[k] : k \in DOMAIN history}
      Cost(S) == Tokens([i \in 1..before - 1 |-> IF i \in S THEN messages[i].tokens ELSE 0],
                        1, before - 1)
  IN  /\ taken \subseteq said
      /\ \A j, k \in DOMAIN history : j < k => history[j] < history[k]
      /\ \A i \in taken, j \in said : i < j => j \in taken
      /\ said # {} => history # <<>>
      /\ Len(history) > 1 => Cost(taken) <= TokenBudget
      /\ said # taken => Cost(taken) + messages[Max(said \ taken)].tokens > TokenBudget
===============================================================================

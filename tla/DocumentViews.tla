----------------------------- MODULE DocumentViews -----------------------------
(***************************************************************************)
(* What a user is shown of the chunks of documents: the pages of a PDF and *)
(* the rows of a table, put together from chunks by get_content            *)
(* (document_service.py), and the hits of a search, ranked by              *)
(* search_repository.py and excerpted by search_service.py.                *)
(***************************************************************************)
EXTENDS TextWindows, Selections

CONSTANTS
  RrfK,          (* RRF_K                                                  *)
  CandidatePool, (* CANDIDATE_POOL                                         *)
  SnippetWindow  (* SNIPPET_WINDOW                                         *)

ASSUME DocumentViewsAssumption == {RrfK, CandidatePool, SnippetWindow} \subseteq Nat \ {0}

-------------------------------------------------------------------------------
(* Pages, given by their lengths; the parser puts a line break between     *)
(* them.  An atom is as long as its tokens.                                *)

(* Mutant: the line breaks are not counted. *)
PageBreaks_NoSeparator(pages) ==
  [k \in 1..Len(pages) - 1 |-> Tokens(pages, 1, k)]

(* PdfParser.parse: the offsets at which the second page and the following *)
(* ones begin; "cursor" after each page and the line break that follows it.*)
PageBreaks(pages) ==
  LET cursor[k \in 0..Len(pages) - 1] == IF k = 0 THEN 0 ELSE cursor[k - 1] + pages[k] + 1
  IN  [k \in 1..Len(pages) - 1 |-> cursor[k]]

(* The page that each chunk begins on.                                     *)
PageNumbers(atoms, pages) ==
  LET chunks == PackAtoms(atoms)
  IN  [k \in DOMAIN chunks |->
        PageNumberAt(Tokens(atoms, 1, chunks[k].first - 1), PageBreaks(pages))]

(* get_content, by page: the chunks that begin on it.                      *)
PagesView(atoms, pages) ==
  LET number == PageNumbers(atoms, pages)
      numbers == Select([n \in DOMAIN pages |-> n], {number[k] : k \in DOMAIN number})
  IN  [n \in DOMAIN numbers |->
        [page_number |-> numbers[n],
         chunks |-> Select([k \in DOMAIN number |-> k],
                           {k \in DOMAIN number : number[k] = numbers[n]})]]

-------------------------------------------------------------------------------
(* A table.  A line of it is [tokens, cells], a cell is a sequence of      *)
(* symbols: "comma", "quote", "break" for the end of a line, and others.   *)

(* str.join, as far as the loop has got.                                   *)
JoinedTo(parts, separator) ==
  LET joined[n \in 0..Len(parts)] ==
        IF n = 0 THEN <<>>
        ELSE IF n = 1 THEN parts[n] ELSE Append(joined[n - 1], separator) \o parts[n]
  IN  joined

Joined(parts, separator) == JoinedTo(parts, separator)[Len(parts)]

Line(line) == Joined(line.cells, "comma")

TableGroups(header, rows) == ChunkCsvRows(header.tokens, [i \in DOMAIN rows |-> rows[i].tokens])

(* _flush_csv_group: what a chunk holds, the header and the rows of its    *)
(* group, no cell of which is quoted.                                      *)
ChunkContent(header, rows, group) ==
  Joined(<<Line(header)>> \o [i \in 1..group.last - group.first + 1 |-> Line(rows[group.first + i - 1])],
         "break")

(* csv.reader, as it is used: the records that are complete, the cells of  *)
(* the one that is open, the cell that is being read, and where the reader *)
(* is: before a record, before a cell, in one, in a quoted one, or behind  *)
(* a quote in a quoted one.                                                *)
Unread == [rows |-> <<>>, row |-> <<>>, cell |-> <<>>, at |-> "record"]

EndRecord(s) ==
  [Unread EXCEPT !.rows = Append(s.rows, IF s.at = "record" THEN <<>> ELSE Append(s.row, s.cell))]

ReadSymbol(s, x) ==
  CASE s.at = "quoted" /\ x = "quote" -> [s EXCEPT !.at = "quote"]
    [] s.at = "quoted" /\ x # "quote" -> [s EXCEPT !.cell = Append(@, x)]
    [] s.at # "quoted" /\ x = "break" -> EndRecord(s)
    [] s.at # "quoted" /\ x = "comma" -> [s EXCEPT !.row = Append(@, s.cell), !.cell = <<>>, !.at = "cell"]
    [] s.at \in {"record", "cell"} /\ x = "quote" -> [s EXCEPT !.at = "quoted"]
    [] s.at = "quote" /\ x = "quote" -> [s EXCEPT !.cell = Append(@, x), !.at = "quoted"]
    [] OTHER -> [s EXCEPT !.cell = Append(@, x), !.at = "in"]

Reading(content) ==
  LET read[n \in 0..Len(content)] == IF n = 0 THEN Unread ELSE ReadSymbol(read[n - 1], content[n])
  IN  read

(* The end of the content ends the record that is open, quoted or not.     *)
CsvReader(content) ==
  LET read == Reading(content)[Len(content)]
  IN  IF read.at = "record" THEN read.rows ELSE EndRecord(read).rows

(* dict(zip(columns, row)): of columns of one name the last one counts.    *)
AsDictionary(columns, row) ==
  LET zipped == 1..Min({Len(columns), Len(row)})
  IN  [name \in {columns[c] : c \in zipped} |-> row[Max({c \in zipped : columns[c] = name})]]

(* What each chunk is read back as.                                        *)
ChunksRead(header, rows) ==
  LET groups == TableGroups(header, rows)
  IN  [k \in DOMAIN groups |-> CsvReader(ChunkContent(header, rows, groups[k]))]

(* The columns after each chunk: the first header that is not empty.       *)
ColumnsTo(read) ==
  LET columns[k \in 0..Len(read)] ==
        IF k = 0 THEN <<>>
        ELSE IF columns[k - 1] # <<>> \/ read[k] = <<>> THEN columns[k - 1] ELSE Head(read[k])
  IN  columns

(* Mutant: the chunks are joined into one text and read once. *)
TableView_OneText(header, rows) ==
  LET groups == TableGroups(header, rows)
      read == CsvReader(Joined([k \in DOMAIN groups |-> ChunkContent(header, rows, groups[k])], "break"))
      columns == IF read = <<>> THEN <<>> ELSE Head(read)
  IN  [columns |-> columns, rows |-> [i \in 1..Len(read) - 1 |-> AsDictionary(columns, read[i + 1])]]

(* get_content, of a table: every chunk is read by itself, without its     *)
(* header.                                                                 *)
TableView(header, rows) ==
  LET read == ChunksRead(header, rows)
      columns == ColumnsTo(read)
  IN  [columns |-> columns[Len(read)],
       rows |-> FlattenSeq([k \in DOMAIN read |->
                  [i \in 1..Len(read[k]) - 1 |-> AsDictionary(columns[k], read[k][i + 1])]])]

-------------------------------------------------------------------------------
(* Search.  The two rankings are sequences of match keys, best first; a    *)
(* match is found by its meaning, its words or both.                       *)

Rank(ranking, key) ==
  LET found == {r \in 1..Min({Len(ranking), CandidatePool}) : ranking[r] = key}
  IN  IF found = {} THEN 0 ELSE Min(found)

(* The reciprocal rank fusion of two ranks, as a fraction: the sum of what *)
(* each adds, which is nothing where there is none.                        *)
Reciprocal(rank) == IF rank = 0 THEN [num |-> 0, den |-> 1] ELSE [num |-> 1, den |-> RrfK + rank]

Score(v, t) ==
  [num |-> Reciprocal(v).num * Reciprocal(t).den + Reciprocal(t).num * Reciprocal(v).den,
   den |-> Reciprocal(v).den * Reciprocal(t).den]

Candidates(ranking) == {ranking[r] : r \in 1..Min({Len(ranking), CandidatePool})}

(* ORDER BY falling score, then by key.                                    *)
Before(x, y, j, k) ==
  \/ x.num * y.den > y.num * x.den
  \/ x.num * y.den = y.num * x.den /\ j < k

Ordered(vector, fulltext, found) ==
  LET score == [k \in found |-> Score(Rank(vector, k), Rank(fulltext, k))]
      place == [k \in found |-> Cardinality({j \in found : Before(score[j], score[k], j, k)}) + 1]
  IN  [r \in 1..Cardinality(found) |-> CHOOSE k \in found : place[k] = r]

(* Mutant: an inner join of the two rankings. *)
Fuse_InnerJoin(vector, fulltext) ==
  Ordered(vector, fulltext, Candidates(vector) \cap Candidates(fulltext))

(* The full outer join of the candidates.                                  *)
Fuse(vector, fulltext) ==
  Ordered(vector, fulltext, Candidates(vector) \cup Candidates(fulltext))

(* Mutant: an excerpt near the end of the content is cut short. *)
BuildSnippet_CutShort(length, match) ==
  LET first == Max({0, match.start - SnippetWindow \div 2})
  IN  [start |-> first, end |-> Min({length, first + SnippetWindow})]

(* build_snippet: the excerpt of a content around the first match in it.   *)
BuildSnippet(length, match) ==
  LET first == Max({0, match.start - SnippetWindow \div 2})
      end == Min({length, first + SnippetWindow})
  IN  [start |-> Max({0, end - SnippetWindow}), end |-> end]

-------------------------------------------------------------------------------
(* The offset at which a page begins.                                      *)
Begins(pages, page) == Tokens(pages, 1, page - 1) + page - 1

(* The page that the i-th atom begins on.                                  *)
PageOf(atoms, pages, i) ==
  CHOOSE page \in DOMAIN pages :
    /\ Begins(pages, page) <= Tokens(atoms, 1, i - 1)
    /\ page < Len(pages) => Tokens(atoms, 1, i - 1) < Begins(pages, page + 1)

(* The viewer shows every chunk once, in the order of the text; a page     *)
(* begins with text of its own, and shows none of an earlier page.  (The   *)
(* text of a page on which no chunk begins is shown with an earlier one.)  *)
PagesAreShown(atoms, pages) ==
  LET view == PagesView(atoms, pages)
      chunks == PackAtoms(atoms)
  IN  /\ FlattenSeq([n \in DOMAIN view |-> view[n].chunks]) = [k \in DOMAIN chunks |-> k]
      /\ \A n \in DOMAIN view : \A c \in DOMAIN view[n].chunks :
           LET chunk == chunks[view[n].chunks[c]] IN
           /\ PageOf(atoms, pages, chunk.first) = view[n].page_number
           /\ \A i \in chunk.first..chunk.last : PageOf(atoms, pages, i) >= view[n].page_number

(* A cell that csv.reader gives back as it is, and a line that it takes    *)
(* for one record: no line break, no quote where a cell may begin.         *)
Plain(cell) ==
  /\ \A i \in DOMAIN cell : cell[i] \notin {"comma", "break"}
  /\ cell # <<>> => cell[1] # "quote"

Tame(line) ==
  LET text == Line(line) IN
  /\ text # <<>>
  /\ \A i \in DOMAIN text : /\ text[i] # "break"
                            /\ text[i] = "quote" => i > 1 /\ text[i - 1] # "comma"

PlainHeader(header) ==
  /\ Tame(header) /\ \A c \in DOMAIN header.cells : Plain(header.cells[c])
  /\ \A c, d \in DOMAIN header.cells : header.cells[c] = header.cells[d] => c = d

(* A row is shown with every column, and what comes before its first cell  *)
(* with a comma is in the columns it was read in.                          *)
ShowsLine(shown, header, line) ==
  /\ DOMAIN shown = {header.cells[c] : c \in DOMAIN header.cells}
  /\ \A c \in DOMAIN line.cells :
       (\A b \in 1..c : Plain(line.cells[b])) => shown[header.cells[c]] = line.cells[c]

(* A cell with a line break or a leading quote upsets the rows of its own  *)
(* chunk only: a chunk without one is shown row by row, in its place,      *)
(* whatever the other chunks hold; and if no chunk has one, there are as   *)
(* many rows as were read.                                                 *)
TableIsShown(header, rows) ==
  LET view == TableView(header, rows)
      groups == TableGroups(header, rows)
      Height(k) == groups[k].last - groups[k].first + 1
      TameChunk(k) == \A i \in groups[k].first..groups[k].last : Tame(rows[i])
  IN  PlainHeader(header) =>
        /\ rows # <<>> => view.columns = header.cells
        /\ \E before \in [DOMAIN groups -> 0..Len(view.rows)] :
             \A k \in DOMAIN groups : TameChunk(k) =>
               /\ before[k] + Height(k) <= Len(view.rows)
               /\ \A j \in DOMAIN groups : j > k => before[k] + Height(k) <= before[j]
               /\ \A i \in 1..Height(k) :
                    ShowsLine(view.rows[before[k] + i], header, rows[groups[k].first + i - 1])
        /\ (\A k \in DOMAIN groups : TameChunk(k)) => Len(view.rows) = Len(rows)

(* Every candidate is ranked, once, and one that no ranking puts behind    *)
(* another, and one puts before it, comes before it.                       *)
RankingIsFair(vector, fulltext) ==
  LET ranked == Fuse(vector, fulltext)
      all == Candidates(vector) \cup Candidates(fulltext)
      NoWorse(ranking, j, k) == \/ Rank(ranking, k) = 0
                                \/ Rank(ranking, j) # 0 /\ Rank(ranking, j) <= Rank(ranking, k)
  IN  /\ Len(ranked) = Cardinality(all) /\ {ranked[r] : r \in DOMAIN ranked} = all
      /\ \A r, s \in DOMAIN ranked :
           LET j == ranked[r]
               k == ranked[s]
           IN  (/\ NoWorse(vector, j, k) /\ NoWorse(fulltext, j, k)
                /\ ~NoWorse(vector, k, j) \/ ~NoWorse(fulltext, k, j)) => r < s

(* An excerpt is as long as the window or the content, and has the first   *)
(* match in it, unless that is longer than half a window.                  *)
SnippetHasMatch(length, match) ==
  LET excerpt == BuildSnippet(length, match) IN
  /\ excerpt.start >= 0 /\ excerpt.end <= length
  /\ excerpt.end - excerpt.start = Min({length, SnippetWindow})
  /\ 2 * (match.end - match.start) <= SnippetWindow =>
       excerpt.start <= match.start /\ match.end <= excerpt.end
===============================================================================

------------------------------ MODULE MCAlgorithms ------------------------------
(***************************************************************************)
(* Every input up to a bound of the functions of TextWindows,              *)
(* DocumentViews and AnalysisGraphs: a state is an input, and nothing      *)
(* happens to it.                                                          *)
(***************************************************************************)
EXTENDS DocumentViews, AnalysisGraphs, TLC

CONSTANTS
  MaxAtoms,     (* atoms of a text, and rows of a table                    *)
  MaxParagraph, (* sentences of a paragraph, paragraphs of a text          *)
  MaxResults,   (* results of a search, messages of a conversation         *)
  MaxSegments   (* segments of a document that is compared                 *)

VARIABLE input

-------------------------------------------------------------------------------
(* The instance: sizes on both sides of each budget, a sentence that has   *)
(* to be cut, characters of several tokens.                                *)
Sizes == {1, 2, 3, TargetMax}

Sentences == {1, TargetMax - 1, TargetMax + 1, 2 * TargetMax + 1}

Contents == {"blank", "x", "y", "z"}

(* x and y are versions of each other, z has nothing to do with either.    *)
SimilarityValue(x, y) ==
  CASE x = y -> 100
    [] {x, y} = {"x", "y"} -> 80
    [] {x, y} = {"x", "z"} -> 10
    [] {x, y} = {"y", "z"} -> -100
    [] OTHER -> 0

(* A similarity is a cosine, and 1 for what is the same.                   *)
ASSUME SimilarityAssumption ==
  \A x, y \in Contents : Similarity(x, y) \in -100..100 /\ Similarity(x, x) = 100

SeqsUpTo(S, n) == UNION {[1..k -> S] : k \in 0..n}

Generic == <<"summary", "key_facts">>

Presets == [invoice |-> <<"number", "total">>, resume |-> <<"name">>]

-------------------------------------------------------------------------------
Sentence == \E n \in {1, 7, 23, 24, 25, 30}, a, b \in {0, 1, 3, 7}, k \in {0, 4, 12} :
  input = [kind |-> "sentence", chars |-> [i \in 1..n |-> IF i <= k THEN a ELSE b]]

Atoms == \E atoms \in SeqsUpTo(Sizes, MaxAtoms) : input = [kind |-> "atoms", atoms |-> atoms]

Paragraphs ==
  \E paragraphs \in SeqsUpTo(SeqsUpTo(Sentences, MaxParagraph), MaxParagraph) :
    input = [kind |-> "paragraphs", paragraphs |-> paragraphs]

Pages == \E offset \in 0..4, breaks \in SeqsUpTo(1..4, 4) :
  /\ Ascending(breaks)
  /\ input = [kind |-> "pages", offset |-> offset, breaks |-> breaks]

Rows == \E header \in Sizes, rows \in SeqsUpTo(Sizes, MaxAtoms) :
  input = [kind |-> "rows", header |-> header, rows |-> rows]

Results == \E tokens \in SeqsUpTo({1, 2, TokenBudget + 1}, MaxResults) :
  \E near \in SUBSET {p \in SUBSET DOMAIN tokens : Cardinality(p) = 2} :
    input = [kind |-> "results", tokens |-> tokens, near |-> near]

Message == {[role |-> "user", tokens |-> 1], [role |-> "user", tokens |-> 3],
            [role |-> "assistant", tokens |-> 2], [role |-> "system", tokens |-> 1],
            [role |-> "assistant", tokens |-> TokenBudget + 1]}

Conversation ==
  \E messages \in SeqsUpTo(Message, MaxResults) : \E before \in 1..Len(messages) + 1 :
    input = [kind |-> "conversation", messages |-> messages, before |-> before]

(* Pages that are cut where breaks says, in a text of atoms.                *)
Between(cuts) == [k \in 1..Len(cuts) - 1 |-> cuts[k + 1] - cuts[k] - 1]

PdfPages ==
  \E atoms \in SeqsUpTo(Sizes, MaxAtoms - 1) :
    LET length == Tokens(atoms, 1, Len(atoms)) IN
    \E breaks \in SeqsUpTo(1..length, 2) :
      /\ Ascending(breaks)
      /\ input = [kind |-> "pdf", atoms |-> atoms, pages |-> Between(<<0>> \o breaks \o <<length + 1>>)]

(* A cell may be empty, have a comma, a line break, a quote in it or first. *)
Cells == {<<"x">>, <<>>, <<"x", "comma", "quote">>, <<"y", "break", "z">>, <<"y", "quote">>, <<"quote", "z">>}

Headings == {<<<<"a">>, <<"b">>>>, <<<<"a", "comma", "b">>, <<"c">>>>, <<<<"quote", "a">>, <<"b">>>>}

Table ==
  \E heading \in Headings, tokens \in {1, 3},
     rows \in SeqsUpTo([tokens : {1, TargetMax}, cells : [1..2 -> Cells]], 2) :
    input = [kind |-> "table", header |-> [tokens |-> tokens, cells |-> heading], rows |-> rows]

(* Rankings of up to four of five matches.                                 *)
Ranking == UNION {{s \in [1..n -> 1..5] : \A i, j \in 1..n : i # j => s[i] # s[j]} : n \in 0..4}

Matches == \E vector \in {s \in Ranking : \A i, j \in DOMAIN s : i < j => s[i] < s[j]}, fulltext \in Ranking :
  input = [kind |-> "matches", vector |-> vector, fulltext |-> fulltext]

Excerpt == \E length \in 1..20 : \E start \in 0..length - 1 : \E end \in start + 1..length :
  input = [kind |-> "excerpt", length |-> length, match |-> [start |-> start, end |-> end]]

Documents ==
  \E a, b \in SeqsUpTo(Contents, MaxSegments) \ {<<>>}, describing \in 0..1 :
  \E labels \in {[end |-> "ok", categories |-> <<"factual">>], [end |-> "invalid"], [end |-> "error"]} :
    input = [kind |-> "documents", a |-> a, b |-> b, describing |-> describing, labels |-> labels]

Summary ==
  \E parts \in 0..2, verdicts \in SeqsUpTo({"passed", "rejected", "invalid", "error", "undrafted"}, QualityRetries + 2) :
    input = [kind |-> "summary", parts |-> parts, verdicts |-> verdicts]

Extraction ==
  \E classified \in {"ok", "error"}, responses \in SeqsUpTo(Responses, StructureRetries + 2) :
    input = [kind |-> "extraction", classified |-> classified,
             answers |-> [k \in DOMAIN responses |-> GenerateStructured(responses[k])]]

Schema == \E requested \in {<<>>, <<"total">>}, picked \in DOMAIN Presets \cup {"none"} :
  input = [kind |-> "schema", requested |-> requested, picked |-> picked]

Init == \/ Sentence \/ Atoms \/ Paragraphs \/ Pages \/ Rows
        \/ Results \/ Conversation
        \/ PdfPages \/ Table \/ Matches \/ Excerpt
        \/ Documents \/ Summary \/ Schema \/ Extraction

Next == UNCHANGED input

Spec == Init /\ [][Next]_input

-------------------------------------------------------------------------------
(* Chunking loses no text and repeats none but the overlap; what exceeds   *)
(* the target does so by the overlap or by a single piece; a chunk's page  *)
(* is the page that it begins on (chunking.py).                            *)
ChunksAreSound ==
  CASE input.kind = "sentence"   -> SpansFit(input.chars)
    [] input.kind = "atoms"      -> ChunksCover(input.atoms) /\ ChunksFit(input.atoms)
    [] input.kind = "paragraphs" -> AtomsFit(input.paragraphs)
    [] input.kind = "pages"      -> PageOfOffset(input.offset, input.breaks)
    [] input.kind = "rows"       -> RowGroupsFit(input.header, input.rows)
    [] OTHER                     -> TRUE

(* What goes to the model fits its budget, has no two excerpts that say    *)
(* the same, and no gap: nothing better was left out for what is there     *)
(* (retrieval_service.py, chat_service.py).                                *)
ContextsAreSound ==
  CASE input.kind = "results"      -> ContextFits(input.tokens, input.near)
    [] input.kind = "conversation" -> HistoryFits(input.messages, input.before)
    [] OTHER                       -> TRUE

(* A viewer shows the pages of a document in their order and the rows of a *)
(* table, as far as csv.reader takes the unquoted lines of a chunk for     *)
(* rows; a search ranks and excerpts what it has found (document_service,  *)
(* search_repository, search_service).                                     *)
ViewsAreSound ==
  CASE input.kind = "pdf"     -> PagesAreShown(input.atoms, input.pages)
    [] input.kind = "table"   -> TableIsShown(input.header, input.rows)
    [] input.kind = "matches" -> RankingIsFair(input.vector, input.fulltext)
    [] input.kind = "excerpt" -> SnippetHasMatch(input.length, input.match)
    [] OTHER                  -> TRUE

(* A comparison accounts for every segment of both documents once, loops   *)
(* over a model's answers end, and a provider call leaves its row, unless  *)
(* it is the one whose error ends the run (app/ai/graphs).                 *)
GraphsAreSound ==
  CASE input.kind = "documents" ->
         /\ SegmentsAreAccountedFor(input.a, input.b)
         /\ ItselfIsUnchanged(input.a)
         /\ CallsLeaveRows(Compare(input.a, input.b, input.describing, input.labels))
    [] input.kind = "summary" ->
         /\ SummaryIsBounded(input.parts, input.verdicts)
         /\ CallsLeaveRows(Summarize(input.parts, input.verdicts))
    [] input.kind = "schema" ->
         SchemaIsChosen(input.requested, input.picked, DOMAIN Presets \cup {"other"}, Presets, Generic)
    [] input.kind = "extraction" -> ExtractionIsBounded(input.classified, input.answers)
    [] OTHER -> TRUE
===============================================================================

----------------------------- MODULE AnalysisGraphs -----------------------------
(***************************************************************************)
(* The LangGraph graphs that the analysis workers run, as functions of     *)
(* their input and of what the providers answer: comparison.py,            *)
(* summarization.py and extraction.py, with the report that a comparison   *)
(* stores and the ai_requests rows that a run leaves.                      *)
(*                                                                         *)
(* A graph ends "completed", "degraded" or "failed", or a provider's error *)
(* escapes from it ("raised").  A provider's answer is "ok", "invalid"     *)
(* (StructuredOutputError) or "error" (any other exception).               *)
(***************************************************************************)
EXTENDS Selections, FiniteSets, SequencesExt

CONSTANTS
  Blank,            (* the content of a segment that is white space        *)
  Similarity(_, _), (* of two contents, in hundredths                      *)
  Threshold,        (* ALIGNMENT_CONFIDENCE_THRESHOLD, in hundredths       *)
  QualityRetries,   (* MAX_QUALITY_RETRIES                                 *)
  StructureRetries  (* MAX_STRUCTURAL_RETRIES                              *)

ASSUME AnalysisGraphsAssumption ==
  /\ Threshold \in 0..100
  /\ {QualityRetries, StructureRetries} \subseteq Nat

-------------------------------------------------------------------------------
(* generate_structured: no response at all is an HTTP error; a response    *)
(* has to call the tool, with an input that fits the schema.               *)
Responses == {"none", "prose", "unfit", "fits"}

GenerateStructured(response) ==
  CASE response = "none" -> "error"
    [] response \in {"prose", "unfit"} -> "invalid"
    [] response = "fits" -> "ok"

(* A provider call, and whether its wrapper writes a row of ai_requests.   *)
Call(kind, end) == [kind |-> kind, end |-> end]

(* generate logs every exception; generate_structured only a structured    *)
(* output that does not parse.                                             *)
Recorded(call) == call.kind = "structured" => call.end # "error"

-------------------------------------------------------------------------------
(* Comparison of a and b, sequences of contents.  A pair is [a, b], two    *)
(* segments, with 0 for none.                                              *)

(* Mutant: a segment of b may be matched again. *)
AlignSegment_Reuses(a, b, s, i) ==
  LET free == {j \in DOMAIN b : Similarity(a[i], b[j]) > -100}
      best == CHOOSE j \in free : \A k \in free :
                \/ Similarity(a[i], b[j]) > Similarity(a[i], b[k])
                \/ Similarity(a[i], b[j]) = Similarity(a[i], b[k]) /\ j <= k
  IN  IF free = {} THEN [s EXCEPT !.pairs = Append(@, [a |-> i, b |-> 0])]
      ELSE [pairs |-> Append(s.pairs, [a |-> i, b |-> best]), used |-> s.used \cup {best},
            total |-> s.total + Similarity(a[i], b[best])]

(* The first of the most similar segments of b that are not yet used.      *)
AlignSegment(a, b, s, i) ==
  LET free == {j \in DOMAIN b \ s.used : Similarity(a[i], b[j]) > -100}
      best == CHOOSE j \in free : \A k \in free :
                \/ Similarity(a[i], b[j]) > Similarity(a[i], b[k])
                \/ Similarity(a[i], b[j]) = Similarity(a[i], b[k]) /\ j <= k
  IN  IF free = {} THEN [s EXCEPT !.pairs = Append(@, [a |-> i, b |-> 0])]
      ELSE [pairs |-> Append(s.pairs, [a |-> i, b |-> best]), used |-> s.used \cup {best},
            total |-> s.total + Similarity(a[i], b[best])]

(* The loop over the segments of a, after each of them.                    *)
Matched(a, b) ==
  LET matched[i \in 0..Len(a)] ==
        IF i = 0 THEN [pairs |-> <<>>, used |-> {}, total |-> 0]
        ELSE AlignSegment(a, b, matched[i - 1], i)
  IN  matched

(* semantic_alignment_node: the pairs, then what is left of b; "confident" *)
(* when the matched pairs are, on average.                                 *)
Align(a, b) ==
  LET matched == Matched(a, b)[Len(a)]
      added == Select([j \in DOMAIN b |-> j], DOMAIN b \ matched.used)
  IN  [pairs |-> matched.pairs \o [k \in DOMAIN added |-> [a |-> 0, b |-> added[k]]],
       confident |-> IF matched.used = {} THEN Threshold = 0
                     ELSE matched.total >= Threshold * Cardinality(matched.used)]

(* difference_detection_node: what differs in a pair of segments.          *)
TypeOf(pair) ==
  IF pair.a = 0 THEN "addition" ELSE IF pair.b = 0 THEN "deletion" ELSE "modification"

Differs(a, b, pair) == pair.a = 0 \/ pair.b = 0 \/ a[pair.a] # b[pair.b]

Differences(a, b, pairs) ==
  LET different == Select(pairs, {k \in DOMAIN pairs : Differs(a, b, pairs[k])})
  IN  [k \in DOMAIN different |-> [type |-> TypeOf(different[k]), a |-> different[k].a,
                                   b |-> different[k].b]]

(* change_classification_node: categories that are missing are "wording",  *)
(* those beyond the last difference are dropped.                           *)
Classify(differences, categories) ==
  [k \in DOMAIN differences |->
    [type |-> differences[k].type, a |-> differences[k].a, b |-> differences[k].b,
     category |-> IF k \in DOMAIN categories THEN categories[k] ELSE "wording"]]

(* _to_result_json: three lists; only modifications keep their category.   *)
ToResultJson(changes) ==
  LET OfType(type) == Select(changes, {k \in DOMAIN changes : changes[k].type = type})
  IN  [additions |-> OfType("addition"), deletions |-> OfType("deletion"),
       modifications |-> OfType("modification")]

NoReport == [additions |-> <<>>, deletions |-> <<>>, modifications |-> <<>>]

(* run_comparison.  "describing" is the number of modifications that are   *)
(* described before a call fails; "labels" the answer of the classifier.   *)
Compare(a, b, describing, labels) ==
  LET Ends(end, report, calls) == [end |-> end, report |-> report, calls |-> calls]
      HasText(segments) == \E i \in DOMAIN segments : segments[i] # Blank
      alignment == Align(a, b)
      differences == Differences(a, b, alignment.pairs)
      asked == Cardinality({k \in DOMAIN differences : differences[k].type = "modification"})
      described == [k \in 1..(IF asked <= describing THEN asked ELSE describing + 1) |->
                      Call("generate", IF k <= describing THEN "ok" ELSE "error")]
      classified == IF differences = <<>> THEN <<>> ELSE <<Call("structured", labels.end)>>
      categories == IF labels.end = "ok" THEN labels.categories ELSE <<>>
  IN
  IF ~HasText(a) \/ ~HasText(b) THEN Ends("failed", NoReport, <<>>)
  ELSE IF ~alignment.confident THEN Ends("degraded", NoReport, <<>>)
  ELSE IF asked > describing THEN Ends("raised", NoReport, described)
  ELSE IF differences # <<>> /\ labels.end = "error"
       THEN Ends("raised", NoReport, described \o classified)
  ELSE Ends("completed", ToResultJson(Classify(differences, categories)), described \o classified)

-------------------------------------------------------------------------------
(* Summarization.  "parts" is the number of chunks that are summarized one *)
(* by one, 0 in a single pass; "verdicts" what the quality check says of   *)
(* each draft in turn, as long as it is asked, or "undrafted" when a call  *)
(* for the draft fails (the last one stands for any of them).              *)

(* Mutant: a draft may be rejected once more. *)
QualityRouter_OneMore(verdict, retries) ==
  IF verdict = "passed" THEN "pass" ELSE IF retries <= QualityRetries + 1 THEN "retry" ELSE "fail"

(* _quality_router, after quality_checker_node has counted a rejection.    *)
QualityRouter(verdict, retries) ==
  IF verdict = "passed" THEN "pass" ELSE IF retries <= QualityRetries THEN "retry" ELSE "fail"

(* The calls for a draft and for the verdict on it.                        *)
DraftCalls(parts, verdict) ==
  [k \in 1..(IF verdict = "undrafted" THEN parts + 1 ELSE parts + 2) |->
    IF k = parts + 1 /\ verdict = "undrafted" THEN Call("generate", "error")
    ELSE IF k <= parts + 1 THEN Call("generate", "ok")
    ELSE Call("structured", IF verdict \in {"invalid", "error"} THEN verdict ELSE "ok")]

(* What is still to come after so many drafts that were rejected.          *)
Drafting(parts, verdicts) ==
  LET graph[retries \in 0..Len(verdicts)] ==
        IF retries = Len(verdicts) THEN [end |-> "asking", calls |-> <<>>]
        ELSE LET verdict == verdicts[retries + 1]
                 calls == DraftCalls(parts, verdict)
                 route == QualityRouter(verdict, retries + 1)
             IN  IF verdict \in {"undrafted", "error"} THEN [end |-> "raised", calls |-> calls]
                 ELSE IF route = "retry"
                 THEN [end |-> graph[retries + 1].end, calls |-> calls \o graph[retries + 1].calls]
                 ELSE [end |-> IF route = "pass" THEN "completed" ELSE "failed", calls |-> calls]
  IN  graph

Summarize(parts, verdicts) == Drafting(parts, verdicts)[0]

-------------------------------------------------------------------------------
(* Extraction.  A schema is a sequence of fields; "picked" is the template *)
(* that the user chose, "guess" what the classifier says.                  *)

(* schema_generator_node: an empty schema is as good as none.              *)
ResolveSchema(requested, picked, guess, presets, generic) ==
  IF requested # <<>> THEN requested
  ELSE LET key == IF picked # "none" THEN picked ELSE guess
       IN  IF key \in DOMAIN presets THEN presets[key] ELSE generic

(* extraction_agent_node and _validation_router; "answers" what the agent  *)
(* is answered in turn.  Neither the classifier's call nor a call that is  *)
(* tried again has a row of its own: a run that ends leaves one.           *)
EndsOn(answer) ==
  IF answer = "ok" THEN "completed" ELSE IF answer = "error" THEN "raised" ELSE "failed"

(* What is still to come after so many answers that did not parse.         *)
Asking(answers) ==
  LET graph[retries \in 0..Len(answers)] ==
        IF retries = Len(answers) THEN [end |-> "asking", asked |-> retries]
        ELSE LET answer == answers[retries + 1] IN
             IF answer = "invalid" /\ retries + 1 <= StructureRetries THEN graph[retries + 1]
             ELSE [end |-> EndsOn(answer), asked |-> retries + 1]
  IN  graph

Extract(classified, answers) ==
  IF classified = "error" THEN [end |-> "raised", asked |-> 0] ELSE Asking(answers)[0]

-------------------------------------------------------------------------------
(* Every segment of both documents is in the report once, or matched with  *)
(* a segment of the same content: nothing is lost, and nothing reported    *)
(* twice, however the greedy alignment goes; what is reported as added and *)
(* what as removed could not have been matched.                            *)
SegmentsAreAccountedFor(a, b) ==
  LET pairs == Align(a, b).pairs
      report == ToResultJson(Classify(Differences(a, b, pairs), <<>>))
      changes == report.additions \o report.deletions \o report.modifications
      Reports(side, i) == Cardinality({k \in DOMAIN changes : changes[k][side] = i})
      Unchanged(side, i) == Cardinality({k \in DOMAIN pairs :
                              pairs[k][side] = i /\ ~Differs(a, b, pairs[k])})
  IN  /\ \A i \in DOMAIN a : Reports("a", i) + Unchanged("a", i) = 1
      /\ \A j \in DOMAIN b : Reports("b", j) + Unchanged("b", j) = 1
      /\ \A k \in DOMAIN report.additions, i \in DOMAIN report.deletions :
           Similarity(a[report.deletions[i].a], b[report.additions[k].b]) = -100

(* A document compared with itself has no changes, and asks no model, even *)
(* if its contents are as similar to each other as to themselves.          *)
ItselfIsUnchanged(a) ==
  LET outcome == Compare(a, a, 0, [end |-> "error"]) IN
  (\E i \in DOMAIN a : a[i] # Blank) => outcome = [end |-> "completed", report |-> NoReport, calls |-> <<>>]

(* An escaping error is that of the last call, every other call has its    *)
(* row, and so has the last one but for a structured call that did not     *)
(* come back ("written for every provider call", observability.md 4, does  *)
(* not hold of it).                                                        *)
CallsLeaveRows(outcome) ==
  \A k \in DOMAIN outcome.calls :
    /\ outcome.calls[k].end = "error" => k = Len(outcome.calls) /\ outcome.end = "raised"
    /\ ~Recorded(outcome.calls[k]) => k = Len(outcome.calls) /\ outcome.end = "raised"

(* A summary that completes passed on its last draft; one that fails was   *)
(* rejected once more than there are retries; no draft is made after.      *)
SummaryIsBounded(parts, verdicts) ==
  LET outcome == Summarize(parts, verdicts)
      drafts == Len(outcome.calls) \div (parts + 2)
      rejected == {k \in DOMAIN verdicts : verdicts[k] \in {"rejected", "invalid"}}
  IN  /\ drafts <= QualityRetries + 1
      /\ outcome.end = "completed" => verdicts[drafts] = "passed"
      /\ outcome.end = "failed" => drafts = QualityRetries + 1
      /\ outcome.end \in {"completed", "failed", "raised"} => 1..drafts - 1 \subseteq rejected

(* There are always fields to ask for, and what the classifier makes of a  *)
(* document never overrules what the user asked for.                       *)
SchemaIsChosen(requested, picked, guesses, presets, generic) ==
  \A guess, other \in guesses :
    LET fields == ResolveSchema(requested, picked, guess, presets, generic) IN
    /\ fields # <<>>
    /\ fields # ResolveSchema(requested, picked, other, presets, generic)
         => requested = <<>> /\ picked = "none"

(* An extraction asks the agent once more after an answer that does not    *)
(* parse, and never again.                                                 *)
ExtractionIsBounded(classified, answers) ==
  LET outcome == Extract(classified, answers) IN
  /\ outcome.asked <= StructureRetries + 1
  /\ outcome.end = "completed" <=>
       classified # "error" /\ outcome.asked > 0 /\ answers[outcome.asked] = "ok"
  /\ outcome.end = "failed" => \A k \in 1..StructureRetries + 1 : answers[k] = "invalid"
===============================================================================

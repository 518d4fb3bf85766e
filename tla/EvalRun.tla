------------------------------- MODULE EvalRun ------------------------------
(***************************************************************************)
(* One evaluation of a data set (crates/application/src/eval_service.rs,   *)
(* run()): each case is answered by the pipeline, scored by rules, perhaps *)
(* by a judging model, and its result is written; a summary ends the run.  *)
(* Scores are in thousandths, as the code rounds them; costs in units.     *)
(***************************************************************************)
EXTENDS Integers, Sequences, FiniteSets

CONSTANTS
  MaxCases,   \* bound of the model: cases of the data set
  Verdicts,   \* scores a judge may name: 1 to 5 are asked for, any number passes
  RunCosts    \* units an answer may cost

NoVerdict == -1

VARIABLES
  at,        \* where the evaluation is
  cases,     \* cases in the data set
  judged,    \* a judging model is configured
  total,     \* cases read at the start; they do not change for the run
  rule,      \* the rules configured: keywords, a pattern
  scores,    \* the loop's locals
  total_cost,
  results,
  rows,      \* the eval_results rows
  summary,   \* the eval_runs row: its status and summary
  evalLost   \* history: the row of a result could not be written

loop == <<total, judged, rule, scores, total_cost, results>>
vars == <<at, cases, loop, rows, summary, evalLost>>

NoSummary == [status |-> "none", cases |-> 0, score |-> 0, cost |-> 0]

Init ==
  /\ at = "idle" /\ cases = 0 /\ total = 0
  /\ judged \in BOOLEAN
  /\ rule \in [keywords : BOOLEAN, pattern : BOOLEAN]
  /\ scores = <<>> /\ total_cost = 0 /\ results = <<>> /\ rows = <<>>
  /\ summary = NoSummary /\ evalLost = FALSE

AddCase ==
  /\ cases < MaxCases /\ cases' = cases + 1
  /\ UNCHANGED <<at, loop, rows, summary, evalLost>>

DeleteCase ==
  /\ cases > 0 /\ cases' = cases - 1
  /\ UNCHANGED <<at, loop, rows, summary, evalLost>>

\* A data set without cases is refused before a row is written.
Begin ==
  /\ at = "idle" /\ cases > 0
  /\ total' = cases
  /\ summary' = [NoSummary EXCEPT !.status = "running"]
  /\ at' = "asking"
  /\ UNCHANGED <<cases, judged, rule, scores, total_cost, results, rows, evalLost>>

-----------------------------------------------------------------------------
(* The scores.                                                             *)

\* rule_score(): what is expected is met exactly or contained, or the
\* keywords configured instead of it are; a pattern counts for half.
RuleScore(met) ==
  LET base == IF met.exact THEN 1000 ELSE IF met.contains THEN 700 ELSE 0 IN
  IF ~rule.pattern THEN base
  ELSE IF met.pattern THEN (base + 1000) \div 2 ELSE base \div 2

\* An exact answer contains what is expected, unless keywords are asked for.
Met == {m \in [exact : BOOLEAN, contains : BOOLEAN, pattern : BOOLEAN] :
          m.exact /\ ~rule.keywords => m.contains}

\* A verdict out of five is half of the score; none leaves the rules' score.
WithJudge(score, verdict) ==
  IF verdict = NoVerdict THEN score ELSE (score + 200 * verdict) \div 2

-----------------------------------------------------------------------------
(* The loop over the cases.                                                *)

Keep(result) ==
  /\ results' = Append(results, result)
  /\ \/ rows' = Append(rows, result) /\ UNCHANGED evalLost
     \/ evalLost' = TRUE /\ UNCHANGED rows
  /\ at' = IF Len(results) + 1 = total THEN "summing" ELSE "asking"

\* The answer is judged in a second call, whose cost is on the ledger of
\* requests but not on the run's.
Answered ==
  /\ at = "asking"
  /\ \E met \in Met, cost \in RunCosts, verdict \in IF judged THEN Verdicts \cup {NoVerdict} ELSE {NoVerdict} :
       /\ scores' = Append(scores, WithJudge(RuleScore(met), verdict))
       /\ total_cost' = total_cost + cost
       /\ Keep([ok |-> TRUE, rule |-> RuleScore(met), verdict |-> verdict, cost |-> cost])
  /\ UNCHANGED <<cases, total, judged, rule, summary>>

\* Mutant: a failed case is scored.
UnansweredScored ==
  /\ at = "asking"
  /\ Keep([ok |-> FALSE, rule |-> 0, verdict |-> NoVerdict, cost |-> 0])
  /\ scores' = Append(scores, 0)
  /\ UNCHANGED <<cases, total, judged, rule, total_cost, summary>>

\* The pipeline refuses or fails the case: a row, and no score.
Unanswered ==
  /\ at = "asking"
  /\ Keep([ok |-> FALSE, rule |-> 0, verdict |-> NoVerdict, cost |-> 0])
  /\ UNCHANGED <<cases, total, judged, rule, scores, total_cost, summary>>

SumOf(s) ==
  LET sum[n \in 0 .. Len(s)] == IF n = 0 THEN 0 ELSE sum[n - 1] + s[n]
  IN  sum[Len(s)]
Average(s) == IF s = <<>> THEN 0 ELSE SumOf(s) \div Len(s)

Summarise ==
  /\ at = "summing"
  /\ summary' = [status |-> "completed", cases |-> total, score |-> Average(scores),
                 cost |-> total_cost]
  /\ at' = "done"
  /\ UNCHANGED <<cases, loop, rows, evalLost>>

\* The summary's write fails, or the client of the admin call leaves: the row
\* stays running.
Cut ==
  /\ at \in {"asking", "summing"} /\ at' = "cut"
  /\ UNCHANGED <<cases, loop, rows, summary, evalLost>>

Next == AddCase \/ DeleteCase \/ Begin \/ Answered \/ Unanswered \/ Summarise \/ Cut

Spec == Init /\ [][Next]_vars

-----------------------------------------------------------------------------
(* Properties.                                                             *)

AnsweredIn(list) == {i \in DOMAIN list : list[i].ok}
ScoreOfRow(r) == IF r.ok THEN WithJudge(r.rule, r.verdict) ELSE 0
MeanScore(list) ==
  IF AnsweredIn(list) = {} THEN 0
  ELSE SumOf([i \in DOMAIN list |-> ScoreOfRow(list[i])]) \div Cardinality(AnsweredIn(list))
CostOf(list) == SumOf([i \in DOMAIN list |-> list[i].cost])

\* The summary of an evaluation can be recomputed from the rows kept beside
\* it, unless one was lost: it counts the cases read at the start, its cost
\* is theirs, and its score is the mean over the cases that were answered,
\* with the judge's half where there was a verdict (run() of eval_service.rs).
SummaryFollowsRows ==
  summary.status = "completed" /\ ~evalLost =>
    /\ summary.cases = Len(rows)
    /\ summary.cost = CostOf(rows)
    /\ summary.score = MeanScore(rows)
=============================================================================

---------------------------- MODULE ScenarioRunner ----------------------------
(***************************************************************************)
(* One call of run_scenario (runner/scenario_runner.py): explain capture,  *)
(* the warm-up and measurement loop that alternates the two engines, the   *)
(* reduction of the timings, the equivalence verdict, the prediction, the  *)
(* extra SQL Monitor execution and the run record.                         *)
(*                                                                         *)
(* The engines are the environment: an execution returns rows or raises,   *)
(* after a time the engine chooses, or never returns.  A result set is     *)
(* represented by its canonical class (two result sets are equal here when *)
(* verify_equivalence says they match).                                    *)
(***************************************************************************)
EXTENDS Integers, Sequences, FiniteSets

CONSTANTS
  Rows,        \* classes of result sets
  EmptyRows,   \* the class of [], the initial value of both *_last_rows
  Times,       \* elapsed milliseconds a timed execution can report
  Predictions, \* first predictions a scenario can declare
  Configs      \* the invocations: RunConfig and the prediction

Engines == {"mongo", "oracle"}

Prediction == [metric : STRING, operator : STRING, percent : Nat]

Config == [warmup : Int, measure : Int, explain : BOOLEAN, monitor : BOOLEAN,
           prediction : Predictions]

ASSUME RunnerAssumption ==
  /\ EmptyRows \in Rows
  /\ Times \subseteq Nat
  /\ Predictions \subseteq Prediction
  /\ Configs \subseteq Config

VARIABLES
  cfg,       \* the invocation, fixed at the start
  pc,        \* where the runner is
  iter,      \* iter_idx, the number of finished rounds
  timings,   \* mongo_timings, oracle_timings
  errors,    \* mongo_errors, oracle_errors
  lastRows,  \* mongo_last_rows, oracle_last_rows
  plan,      \* what the explain capture left for each engine
  result,    \* the values computed after the loop
  record,    \* the RunRecord returned
  outcome    \* history: what each engine answered, iteration by iteration

vars == <<cfg, pc, iter, timings, errors, lastRows, plan, result, record, outcome>>

Outcome == [ok : BOOLEAN, rows : Rows, ms : Times]
ErrorRecord == [iteration : Nat, phase : {"warmup", "measurement"}]

None == [kind |-> "none"]

-------------------------------------------------------------------------------
(* The pure parts: slices, split, metrics, predictions.  A definition with *)
(* an underscore in its name is a plausible fault of the one that follows. *)

\* Python's t[:k] and t[k:], a negative k counted from the end.
Cut(t, k) == IF k >= 0 THEN k
             ELSE IF Len(t) + k >= 0 THEN Len(t) + k ELSE 0
Take(t, k) == SubSeq(t, 1, IF Cut(t, k) < Len(t) THEN Cut(t, k) ELSE Len(t))
Drop(t, k) == SubSeq(t, Cut(t, k) + 1, Len(t))

\* WarmupSplit.from_iterations: the split and its instability flag.
WarmupSplit(t, k) ==
  LET warmup   == Take(t, k)
      measured == Drop(t, k)
  IN  [warmup   |-> warmup,
       measured |-> measured,
       invalid  |-> /\ warmup # <<>> /\ measured # <<>>
                    /\ warmup[Len(warmup)] > 0
                    /\ measured[1] > 2 * warmup[Len(warmup)]]

\* The error rates of _build_metrics, as fractions with a positive denominator:
\* all the errors over the measured iterations asked for, which may be none or
\* negative.  The metrics read from timings and plans are left out, and a name
\* that is no key of the dictionary is observed as None.
Metrics(errs, total) ==
  LET Rate(e) == CASE total = 0 -> [num |-> 0, den |-> 1]
                   [] total > 0 -> [num |-> Len(errs[e]), den |-> total]
                   [] total < 0 -> [num |-> -Len(errs[e]), den |-> -total]
  IN  [m \in {"mongo_error_rate", "oracle_error_rate"} |->
         IF m = "mongo_error_rate" THEN Rate("mongo") ELSE Rate("oracle")]

\* _check_prediction on a fraction, the expected value given in percent.
CheckPrediction(p, metrics) ==
  /\ p.metric \in DOMAIN metrics
  /\ LET x == 100 * metrics[p.metric].num
         y == p.percent * metrics[p.metric].den
     IN  \/ p.operator = "==" /\ x = y
         \/ p.operator = "!=" /\ x # y
         \/ p.operator = ">=" /\ x >= y
         \/ p.operator = "<=" /\ x <= y
         \/ p.operator = ">"  /\ x > y
         \/ p.operator = "<"  /\ x < y

TotalIters == cfg.warmup + cfg.measure
IsWarmup_OffByOne(i) == i <= cfg.warmup
IsWarmup(i) == i < cfg.warmup

-------------------------------------------------------------------------------
Init_NoRows ==
  /\ cfg \in Configs
  /\ pc = "explain_mongo"
  /\ iter = 0
  /\ timings = [e \in Engines |-> <<>>]
  /\ errors = [e \in Engines |-> <<>>]
  /\ lastRows = [e \in Engines |-> None]
  /\ plan = [e \in Engines |-> "not_captured"]
  /\ result = None
  /\ record = None
  /\ outcome = [e \in Engines |-> <<>>]

Init ==
  /\ cfg \in Configs
  /\ pc = "explain_mongo"
  /\ iter = 0
  /\ timings = [e \in Engines |-> <<>>]
  /\ errors = [e \in Engines |-> <<>>]
  /\ lastRows = [e \in Engines |-> EmptyRows]
  /\ plan = [e \in Engines |-> "not_captured"]
  /\ result = None
  /\ record = None
  /\ outcome = [e \in Engines |-> <<>>]

Loop    == <<iter, timings, errors, lastRows, outcome>>
Outputs == <<result, record>>

\* One engine's explain, only when the invocation asks for it; a driver
\* exception is kept as a failed capture and the other engine is still asked.
Explain(e, here, next) ==
  /\ pc = here
  /\ pc' = next
  /\ \/ ~cfg.explain /\ UNCHANGED plan
     \/ cfg.explain /\ \E p \in {"captured", "failed"} : plan' = [plan EXCEPT ![e] = p]
  /\ UNCHANGED <<cfg, Loop, Outputs>>

ExplainMongo  == Explain("mongo", "explain_mongo", "explain_oracle")
ExplainOracle_RetriesBoth ==
  /\ pc = "explain_oracle"
  /\ \/ pc' = "loop" /\ plan' = [plan EXCEPT !["oracle"] = "captured"]
     \/ pc' = "explain_mongo" /\ plan' = [plan EXCEPT !["oracle"] = "failed"]
  /\ UNCHANGED <<cfg, Loop, Outputs>>

ExplainOracle == Explain("oracle", "explain_oracle", "loop")

\* The head of the loop: call MongoDB, or leave the loop.
NextIteration ==
  /\ pc = "loop"
  /\ pc' = IF iter < TotalIters THEN "mongo_call" ELSE "reduce"
  /\ UNCHANGED <<cfg, Loop, plan, Outputs>>

RecordError(e, out) ==
  errors' = IF out.ok THEN errors
            ELSE [errors EXCEPT ![e] = Append(@,
                   [iteration |-> iter,
                    phase     |-> IF IsWarmup(iter) THEN "warmup" ELSE "measurement"])]

KeepTime_OfSuccesses(e, out) ==
  timings' = IF out.ok THEN [timings EXCEPT ![e] = Append(@, out.ms)] ELSE timings
KeepTime(e, out) == timings' = [timings EXCEPT ![e] = Append(@, out.ms)]

KeepRows_OfFailures(e, out) ==
  lastRows' = IF ~IsWarmup(iter) THEN [lastRows EXCEPT ![e] = out.rows] ELSE lastRows
KeepRows(e, out) ==
  lastRows' = IF out.ok /\ ~IsWarmup(iter)
              THEN [lastRows EXCEPT ![e] = out.rows] ELSE lastRows

\* A timed execution ends: the error, if any, is recorded with its phase, the
\* time is kept either way, the rows only of a measured success.
TimeOne(e, out) ==
  /\ outcome' = [outcome EXCEPT ![e] = Append(@, out)]
  /\ RecordError(e, out)
  /\ KeepTime(e, out)
  /\ KeepRows(e, out)
  /\ UNCHANGED <<cfg, plan, Outputs>>

\* An execution raises (an interrupt of the operator during it included: the
\* handler catches BaseException) or returns rows.
Outcomes == { out \in Outcome : ~out.ok => out.rows = EmptyRows }

MongoAnswers_Retries ==
  /\ pc = "mongo_call"
  /\ \E out \in Outcomes :
       /\ pc' = IF out.ok \/ Len(timings["mongo"]) > TotalIters
                THEN "oracle_call" ELSE "mongo_call"
       /\ TimeOne("mongo", out)
  /\ UNCHANGED iter

MongoAnswers ==
  /\ pc = "mongo_call"
  /\ pc' = "oracle_call"
  /\ \E out \in Outcomes : TimeOne("mongo", out)
  /\ UNCHANGED iter

OracleAnswers ==
  /\ pc = "oracle_call"
  /\ pc' = "loop"
  /\ \E out \in Outcomes : TimeOne("oracle", out)
  /\ iter' = iter + 1

\* SQL Monitor runs the statement once more, unless Oracle failed on it.
WantsMonitor == cfg.monitor /\ errors["oracle"] = <<>>

\* Everything computed between the loop and the SQL Monitor run.  A mismatch
\* changes nothing: abort_on_equivalence_failure guards a `pass`.
Reduce ==
  /\ pc = "reduce"
  /\ pc' = IF WantsMonitor THEN "monitor" ELSE "assemble"
  /\ result' = [kind   |-> "result",
                split  |-> [e \in Engines |-> WarmupSplit(timings[e], cfg.warmup)],
                match  |-> lastRows["mongo"] = lastRows["oracle"],
                passed |-> CheckPrediction(cfg.prediction, Metrics(errors, cfg.measure)),
                report |-> "none"]
  /\ UNCHANGED <<cfg, Loop, plan, record>>

\* The extra Oracle execution: its failures leave no report, but a file that
\* cannot be written raises out of run_scenario.
CaptureMonitor ==
  /\ pc = "monitor"
  /\ \/ pc' = "assemble" /\ result' = [result EXCEPT !.report = "saved"]
     \/ pc' = "assemble" /\ UNCHANGED result
     \/ pc' = "lost" /\ UNCHANGED result
  /\ UNCHANGED <<cfg, Loop, plan, record>>

\* `sample` is what the statistics of the record summarise: the timings_ms written
\* with them is the median once for each entry (mongo_dist_timings).  Host,
\* versions and literals are left out.
Assemble ==
  /\ pc = "assemble"
  /\ pc' = "done"
  /\ record' = [kind      |-> "record",
                sample    |-> [e \in Engines |-> result.split[e].measured],
                errors    |-> errors,
                match     |-> result.match,
                passed    |-> result.passed,
                report    |-> result.report,
                plan      |-> plan]
  /\ UNCHANGED <<cfg, Loop, plan, result>>

\* An operator's interrupt outside the try of _time_one propagates: no record.
\* (Between the head of the loop and a call, and between two calls, too.)
Interrupt ==
  /\ pc \notin {"done", "lost"}
  /\ pc' = "lost"
  /\ UNCHANGED <<cfg, Loop, plan, Outputs>>

Harness == ExplainMongo \/ ExplainOracle \/ NextIteration \/ Reduce
           \/ CaptureMonitor \/ Assemble
Answers == MongoAnswers \/ OracleAnswers

Next == Harness \/ Answers \/ Interrupt

Spec == Init /\ [][Next]_vars

\* The runner's own steps are taken; the engines answer every call.
FairSpec == Spec /\ WF_vars(Harness) /\ WF_vars(Answers)

-------------------------------------------------------------------------------
(* What the runs check.                                                    *)

PCs == {"explain_mongo", "explain_oracle", "loop", "mongo_call", "oracle_call",
        "reduce", "monitor", "assemble", "done", "lost"}

Split == [warmup : Seq(Times), measured : Seq(Times), invalid : BOOLEAN]
Result == [kind : {"result"}, split : [Engines -> Split], match : BOOLEAN,
           passed : BOOLEAN, report : {"none", "saved"}]
Plans == [Engines -> {"not_captured", "captured", "failed"}]
Record == [kind : {"record"}, sample : [Engines -> Seq(Times)],
           errors : [Engines -> Seq(ErrorRecord)], match : BOOLEAN,
           passed : BOOLEAN, report : {"none", "saved"}, plan : Plans]

\* Every variable has the type its Python counterpart has.
TypeOK ==
  /\ cfg \in Configs
  /\ pc \in PCs
  /\ iter \in Nat
  /\ timings \in [Engines -> Seq(Times)]
  /\ errors \in [Engines -> Seq(ErrorRecord)]
  /\ lastRows \in [Engines -> Rows]
  /\ plan \in Plans
  /\ result \in Result \cup {None}
  /\ record \in Record \cup {None}
  /\ outcome \in [Engines -> Seq(Outcome)]

\* The i-th entry of outcome[e] is iteration i - 1 of the code.
MeasuredSuccess(e, i) == outcome[e][i].ok /\ i > cfg.warmup

\* r is the answer of e's last successful measured iteration, [] without one.
IsLastAnswer(e, r) ==
  \/ /\ r = EmptyRows
     /\ \A i \in DOMAIN outcome[e] : ~MeasuredSuccess(e, i)
  \/ \E i \in DOMAIN outcome[e] :
       /\ MeasuredSuccess(e, i)
       /\ r = outcome[e][i].rows
       /\ \A j \in DOMAIN outcome[e] : j > i => ~MeasuredSuccess(e, j)

\* The rows held for the verdict are those of the engine's last successful
\* measured iteration: no warm-up answer and no failed one reaches the
\* comparison, whatever failed before or after.
RowsForVerdict == \A e \in Engines : IsLastAnswer(e, lastRows[e])

\* The verdict in a record compares the last successful measured answers.
VerdictOnLastAnswers ==
  record # None =>
    \A r, s \in Rows : IsLastAnswer("mongo", r) /\ IsLastAnswer("oracle", s)
                         => record.match = (r = s)

\* The sample a record summarises is the times of exactly the measured
\* iterations, in order, paired across engines: a failed warm-up shifts
\* nothing into the sample, a failed measurement drops nothing from it, and a
\* loop that ends within the warm-up leaves none.
SampleIsMeasuredIterations ==
  record # None /\ cfg.warmup >= 0 =>
    \A e \in Engines :
      /\ Len(record.sample[e]) = (IF cfg.measure > 0 THEN cfg.measure ELSE 0)
      /\ \A k \in 1..cfg.measure : record.sample[e][k] = outcome[e][cfg.warmup + k].ms

\* The engines alternate: MongoDB is at most the running round ahead.
Alternation ==
  /\ Len(outcome["oracle"]) = iter
  /\ pc = "oracle_call" => Len(outcome["mongo"]) = iter + 1
  /\ pc \notin {"oracle_call", "lost"} => Len(outcome["mongo"]) = iter
  /\ pc = "lost" => Len(outcome["mongo"]) \in {iter, iter + 1}

\* The k-th error of e is a failed iteration, under the phase it failed in.
ErrorNamesFailure(e, k) ==
  LET i == errors[e][k].iteration
  IN  /\ i + 1 \in DOMAIN outcome[e]
      /\ ~outcome[e][i + 1].ok
      /\ errors[e][k].phase = (IF i + 1 > cfg.warmup THEN "measurement" ELSE "warmup")

FailureIsListed(e, i) ==
  ~outcome[e][i].ok => \E k \in DOMAIN errors[e] : errors[e][k].iteration = i - 1

\* The error list names the failed iterations, each once, in order, with the
\* phase it failed in.
ErrorsAreTheFailures ==
  \A e \in Engines :
    /\ \A k \in DOMAIN errors[e] : ErrorNamesFailure(e, k)
    /\ \A k, l \in DOMAIN errors[e] :
         k < l => errors[e][k].iteration < errors[e][l].iteration
    /\ \A i \in DOMAIN outcome[e] : FailureIsListed(e, i)

\* A record carries a SQL Monitor report only of a statement that no timed
\* Oracle execution, warm-up included, failed on.
MonitorNeedsCleanOracle ==
  record # None /\ record.report = "saved" =>
    \A i \in DOMAIN outcome["oracle"] : outcome["oracle"][i].ok

\* When the engines answer every call, every run ends, with its record or by
\* an exception.
Terminates == <>(pc \in {"done", "lost"})

-------------------------------------------------------------------------------
(* The refinement mapping: a round is finished when Oracle has answered.   *)

Rounds == [i \in 1..iter |-> [e \in Engines |-> outcome[e][i]]]

\* The rounds the error list of a record names.
FailedRounds(e) == { record.errors[e][k].iteration + 1 : k \in DOMAIN record.errors[e] }

Reported ==
  IF record # None
  THEN [kind     |-> "report",
        sample   |-> record.sample,
        failures |-> [e \in Engines |-> FailedRounds(e)],
        match    |-> record.match]
  ELSE IF pc = "lost" THEN [kind |-> "abandoned"] ELSE [kind |-> "pending"]

Paired == INSTANCE PairedMeasurement
            WITH Invocations <- Configs, inv <- cfg, rounds <- Rounds, report <- Reported

\* A run of the loop is a run of paired rounds whose report is a function of
\* the rounds alone.
ImplementsPairedMeasurement == Paired!Spec

-------------------------------------------------------------------------------
(* The inductive invariant the proofs rest on.                             *)

\* Entry i of timings[e] is the time of outcome i.
TimesOfOutcomes ==
  \A e \in Engines :
    /\ Len(timings[e]) = Len(outcome[e])
    /\ \A i \in 1..Len(outcome[e]) : timings[e][i] = outcome[e][i].ms

LoopBounds ==
  /\ iter > 0 => iter <= TotalIters
  /\ pc \in {"mongo_call", "oracle_call"} => iter < TotalIters
  /\ pc \in {"reduce", "monitor", "assemble", "done"} => iter >= TotalIters

\* What Reduce computed still describes the lists it was computed from.
ResultOfLists ==
  /\ pc = "monitor" => errors["oracle"] = <<>>
  /\ pc \in {"monitor", "assemble", "done"} =>
       /\ result \in Result
       /\ result.split = [e \in Engines |-> WarmupSplit(timings[e], cfg.warmup)]
       /\ result.match = (lastRows["mongo"] = lastRows["oracle"])
       /\ result.passed = CheckPrediction(cfg.prediction, Metrics(errors, cfg.measure))
       /\ result.report = "saved" => errors["oracle"] = <<>>

RecordOfResult ==
  record # None =>
    /\ pc = "done"
    /\ record.sample = [e \in Engines |-> result.split[e].measured]
    /\ record.errors = errors
    /\ record.match = result.match
    /\ record.passed = result.passed
    /\ record.report = result.report

IInv ==
  /\ TypeOK
  /\ Alternation
  /\ TimesOfOutcomes
  /\ RowsForVerdict
  /\ ErrorsAreTheFailures
  /\ LoopBounds
  /\ ResultOfLists
  /\ RecordOfResult

-------------------------------------------------------------------------------
(* What the documentation says and the code does not do.                   *)

\* docs/01-methodology.md: an iteration that errors counts as null.
FailedIterationIsNull ==
  record # None /\ cfg.warmup >= 0 =>
    \A e \in Engines :
      Len(record.sample[e]) + Len(SelectSeq(record.errors[e], LAMBDA x : x.phase = "measurement"))
        <= cfg.measure


MeasuredFailures(e) == { i \in DOMAIN outcome[e] : ~outcome[e][i].ok /\ i > cfg.warmup }

\* docs/01-methodology.md: "fails" is claimed of a query that errors on at least
\* 18 of the 20 measured iterations, so S05's error rate of 90 per cent passes
\* only when as many of the measured iterations failed.
PassedOnMeasuredFailures ==
  record # None /\ record.passed /\ cfg.measure > 0
    /\ cfg.prediction.metric = "mongo_error_rate" /\ cfg.prediction.operator = ">=" =>
      100 * Cardinality(MeasuredFailures("mongo")) >= cfg.prediction.percent * cfg.measure

===============================================================================

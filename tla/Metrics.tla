-------------------------------- MODULE Metrics --------------------------------
(***************************************************************************)
(* From the measured times of two engines to a prediction that passes or   *)
(* fails: runner/timing.py, _build_metrics and _check_prediction of        *)
(* runner/scenario_runner.py, and what each scenario predicts.             *)
(*                                                                         *)
(* Times are whole numbers and percentiles hundredths of them, so that     *)
(* interpolation is exact.  A metric is a fraction <<p, q>>; Infinite is   *)
(* one with q = 0, with which comparison by cross-multiplication agrees.   *)
(***************************************************************************)
EXTENDS Integers, Sequences, FiniteSets

Infinite == <<1, 0>>
Missing == <<>>

Kth_Unsorted(values, k) == values[k + 1]

\* sorted(values)[k], k from zero.
Kth(values, k) ==
  CHOOSE v \in {values[i] : i \in DOMAIN values} :
    /\ Cardinality({i \in DOMAIN values : values[i] < v}) <= k
    /\ Cardinality({i \in DOMAIN values : values[i] <= v}) > k

\* percentile: interpolated between the two neighbours of the rank.
Percentile(values, q) ==
  LET rank == q * (Len(values) - 1)
      lo   == rank \div 100
  IN  IF rank % 100 = 0
      THEN 100 * Kth(values, lo)
      ELSE 100 * Kth(values, lo) + (rank % 100) * (Kth(values, lo + 1) - Kth(values, lo))

\* _empty_distribution: nothing was measured.
Nothing == [n |-> 0, p50 |-> 0, p95 |-> 0, p99 |-> 0, iqr |-> 0, min |-> 0, max |-> 0]

Summary_OfMean(values) ==
  LET Sum[i \in 0..Len(values)] == IF i = 0 THEN 0 ELSE Sum[i - 1] + values[i]
  IN
  IF values = <<>> THEN Nothing
  ELSE [n   |-> Len(values),
        p50 |-> (100 * Sum[Len(values)]) \div Len(values),
        p95 |-> Percentile(values, 95), p99 |-> Percentile(values, 99),
        iqr |-> Percentile(values, 75) - Percentile(values, 25),
        min |-> 100 * Kth(values, 0), max |-> 100 * Kth(values, Len(values) - 1)]

\* summarize, or the placeholder.
Summary(values) ==
  IF values = <<>> THEN Nothing
  ELSE [n   |-> Len(values),
        p50 |-> Percentile(values, 50),
        p95 |-> Percentile(values, 95), p99 |-> Percentile(values, 99),
        iqr |-> Percentile(values, 75) - Percentile(values, 25),
        min |-> 100 * Kth(values, 0), max |-> 100 * Kth(values, Len(values) - 1)]

-------------------------------------------------------------------------------
(* What a run is judged by.  The metrics of plans are left out: only the   *)
(* first prediction of a variant is evaluated, and none of them asks one.  *)

Over(p, q) == IF q > 0 THEN <<p, q>> ELSE <<0, 1>>

Metrics_Inverted(run) ==
  LET m == Summary(run.mongo)
      o == Summary(run.oracle)
  IN  [ratio_mongo_to_oracle  |-> IF m.p50 > 0 THEN <<o.p50, m.p50>> ELSE Infinite,
       mongo_p99_over_median  |-> Over(m.p99, m.p50),
       oracle_p99_over_median |-> Over(o.p99, o.p50),
       mongo_error_rate       |-> Over(run.mongoErrors, m.n),
       oracle_error_rate      |-> Over(run.oracleErrors, o.n)]

Metrics_WithoutTails(run) ==
  LET m == Summary(run.mongo)
      o == Summary(run.oracle)
  IN  [ratio_mongo_to_oracle  |-> IF o.p50 > 0 THEN <<m.p50, o.p50>> ELSE Infinite,
       mongo_error_rate       |-> Over(run.mongoErrors, m.n),
       oracle_error_rate      |-> Over(run.oracleErrors, o.n)]

\* _build_metrics
Metrics(run) ==
  LET m == Summary(run.mongo)
      o == Summary(run.oracle)
  IN  [ratio_mongo_to_oracle  |-> IF o.p50 > 0 THEN <<m.p50, o.p50>> ELSE Infinite,
       mongo_p99_over_median  |-> Over(m.p99, m.p50),
       oracle_p99_over_median |-> Over(o.p99, o.p50),
       mongo_error_rate       |-> Over(run.mongoErrors, m.n),
       oracle_error_rate      |-> Over(run.oracleErrors, o.n)]

\* metrics.get(metric)
Observed(run, metric) ==
  IF metric \in DOMAIN Metrics(run) THEN Metrics(run)[metric] ELSE Missing

\* value, in tenths, against a fraction
AtLeast(observed, tenths) == 10 * observed[1] >= tenths * observed[2]
AtMost(observed, tenths) == 10 * observed[1] <= tenths * observed[2]

\* _check_prediction; a single expected value is a range of one.
CheckPrediction(prediction, observed) ==
  /\ observed # Missing
  /\ CASE prediction.operator = ">=" -> AtLeast(observed, prediction.value[1])
       [] prediction.operator = "<=" -> AtMost(observed, prediction.value[1])
       [] prediction.operator = ">"  -> ~AtMost(observed, prediction.value[1])
       [] prediction.operator = "<"  -> ~AtLeast(observed, prediction.value[1])
       [] prediction.operator = "!=" -> ~(AtLeast(observed, prediction.value[1])
                                          /\ AtMost(observed, prediction.value[1]))
       [] prediction.operator \in {"==", "in"} ->
            AtLeast(observed, prediction.value[1]) /\ AtMost(observed, prediction.value[2])

-------------------------------------------------------------------------------
(* The scenarios: their variants and the first thing each one predicts.    *)

Predict(metric, operator, low, high) ==
  [metric |-> metric, operator |-> operator, value |-> <<low, high>>]
RatioIn(low, high) == Predict("ratio_mongo_to_oracle", "in", low, high)
RatioAtLeast(tenths) == Predict("ratio_mongo_to_oracle", ">=", tenths, tenths)
Spills(flag) == Predict("mongo_has_spill", "==", flag, flag)

\* <<scenario, label>> to its first prediction, per scenario.
S01 == [default |-> RatioIn(8, 13)]
S02 == [default |-> RatioIn(11, 20)]
S03 == [label \in {"k=0", "k=2", "k=3", "k=4", "k=5", "k=6", "k=7", "k=8"} |-> RatioAtLeast(100)]
S04 == [label \in {"ws=25MB", "ws=50MB", "ws=75MB", "ws=100MB", "ws=150MB", "ws=200MB", "ws=250MB"}
          |-> Spills(IF label \in {"ws=25MB", "ws=50MB", "ws=75MB"} THEN 0 ELSE 10)]
S05 == [label \in {"base", "rewrite-bucket", "out", "merge"} |-> Predict("mongo_error_rate", ">=", 9, 9)]
S06 == [label \in {"unsharded", "sharded-2"} |->
          IF label = "unsharded" THEN RatioIn(15, 40) ELSE RatioAtLeast(100)]
S07 == [label \in {"org-d2", "org-d5", "org-d10", "org-d15", "path-d5", "path-d10"} |->
          CASE label \in {"org-d2", "org-d5"} -> RatioIn(3, 20)
            [] label = "path-d5" -> RatioIn(5, 20)
            [] OTHER -> RatioAtLeast(120)]
S08 == [label \in {"A-clean-prefix", "B-facet", "B-bucketAuto", "B-graphLookup"} |->
          IF label = "A-clean-prefix" THEN RatioIn(12, 25) ELSE RatioAtLeast(30)]
S09 == [label \in {"A-well-ordered", "B-lookup-first", "C-facet-wrap"} |->
          CASE label = "A-well-ordered" -> RatioIn(30, 150)
            [] label = "B-lookup-first" -> RatioAtLeast(300)
            [] OTHER -> RatioAtLeast(500)]
S10 == [label \in {"A-top-n-alone", "B-top-n-lookup", "C-top-n-facet"} |->
          IF label = "C-top-n-facet" THEN RatioIn(25, 80) ELSE RatioIn(15, 50)]
S12 == [label \in {"N=1", "N=2", "N=4", "N=8"} |->
          LET tenths == CASE label = "N=4" -> 25 [] label = "N=8" -> 40 [] OTHER -> 15
          IN  Predict("mongo_p99_over_median", ">=", tenths, tenths)]
S13 == [label \in {"V13a-stale-SF1", "V13b-fresh-SF1", "V13c-skew-stale", "V13c-skew-histogram"} |->
          CASE label = "V13a-stale-SF1" -> Predict("mongo_stale_over_fresh", ">=", 15, 15)
            [] label = "V13b-fresh-SF1" -> RatioIn(7, 14)
            [] label = "V13c-skew-stale" -> Predict("oracle_with_histogram_speedup", "in", 8, 15)
            [] OTHER -> Predict("oracle_with_histogram_speedup", ">=", 20, 20)]
S14 == [label \in {"V14a-routine", "V14b-txn-consistency", "V14c-sharded-target"} |->
          CASE label = "V14a-routine" -> RatioIn(15, 30)
            [] label = "V14b-txn-consistency" -> RatioAtLeast(25)
            [] OTHER -> RatioAtLeast(50)]

\* The registry.
Scenarios == [S01 |-> S01, S02 |-> S02, S03 |-> S03, S04 |-> S04, S05 |-> S05, S06 |-> S06,
              S07 |-> S07, S08 |-> S08, S09 |-> S09, S10 |-> S10, S12 |-> S12, S13 |-> S13,
              S14 |-> S14]
Variants == UNION {{<<id, label>> : label \in DOMAIN Scenarios[id]} : id \in DOMAIN Scenarios}
FirstPrediction(variant) == Scenarios[variant[1]][variant[2]]

\* _evaluate_first_prediction
Passes(run) ==
  CheckPrediction(FirstPrediction(run.variant), Observed(run, FirstPrediction(run.variant).metric))
================================================================================

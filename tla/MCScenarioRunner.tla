--------------------------- MODULE MCScenarioRunner ---------------------------
(* Instances of ScenarioRunner for TLC.                                    *)
EXTENDS ScenarioRunner

CONSTANTS r0, r1

\* S05 declares an error rate of at least 90 per cent; S04 a metric that
\* _build_metrics never computes.
S05Fails == [metric |-> "mongo_error_rate", operator |-> ">=", percent |-> 90]
S04Spill == [metric |-> "mongo_has_spill", operator |-> "==", percent |-> 100]

MCRows == {r0, r1}
MCPredictions == {S05Fails, S04Spill}

\* The most rounds of a run, without and with an explain capture before them.
MaxRounds == 3
MaxExplainedRounds == 2

\* The loop bounds within them, and the degenerate ones: no iterations, a
\* negative --warmup or --iterations, which click accepts.
MCConfigs ==
  { c \in [warmup : -1..2, measure : -1..2, explain : BOOLEAN, monitor : BOOLEAN,
           prediction : MCPredictions] :
      /\ c.warmup + c.measure <= (IF c.explain THEN MaxExplainedRounds ELSE MaxRounds)
      /\ c.warmup < 2 \/ c.measure < 1
      /\ c.prediction = S04Spill => c.explain }

\* One warm-up and one measurement.
MCShortConfigs ==
  [warmup : {1}, measure : {1}, explain : BOOLEAN, monitor : {FALSE},
   prediction : {S05Fails}]

===============================================================================

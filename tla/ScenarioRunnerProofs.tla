-------------------------- MODULE ScenarioRunnerProofs --------------------------
(***************************************************************************)
(* Proofs about ScenarioRunner for every set of result classes, times,     *)
(* predictions and invocations.                                            *)
(***************************************************************************)
EXTENDS ScenarioRunner, WellFoundedInduction, TLAPS

\* A slice of a sequence of times is one, with the length and the entries
\* that Python's slices have (a non-negative bound within the list).
LEMMA SplitType ==
  ASSUME NEW t \in Seq(Times), NEW k \in Int
  PROVE  WarmupSplit(t, k) \in Split
<1>1. Cut(t, k) \in Nat
  BY DEF Cut
<1>2. Take(t, k) \in Seq(Times)
  BY <1>1 DEF Take
<1>3. Drop(t, k) \in Seq(Times)
  BY <1>1 DEF Drop
<1>. QED
  BY <1>2, <1>3, RunnerAssumption DEF WarmupSplit, Split

\* How many entries of a list of len the slice [k:] leaves out.
Aside(len, k) ==
  IF k >= 0 THEN (IF k <= len THEN k ELSE len)
  ELSE IF len + k >= 0 THEN len + k ELSE 0

LEMMA SplitMeasured ==
  ASSUME NEW t \in Seq(Times), NEW k \in Int
  PROVE  /\ Aside(Len(t), k) \in 0..Len(t)
         /\ WarmupSplit(t, k).measured =
              [i \in 1..(Len(t) - Aside(Len(t), k)) |-> t[Aside(Len(t), k) + i]]
<1>1. WarmupSplit(t, k).measured = SubSeq(t, Cut(t, k) + 1, Len(t))
  BY DEF WarmupSplit, Drop
<1>. PICK len \in Nat : len = Len(t)
  OBVIOUS
<1>. PICK c \in Nat : c = Cut(t, k)
  BY DEF Cut
<1>. PICK a \in 0..len : a = Aside(len, k)
  BY DEF Aside
<1>2. c = a \/ (c > len /\ a = len)
  BY DEF Aside, Cut
<1>3. SubSeq(t, c + 1, len) = [i \in 1..(1 + len - (c + 1)) |-> t[i + (c + 1) - 1]]
  BY DEF SubSeq
<1>4. CASE c = a
  <2>1. 1 + len - (c + 1) = len - a
    BY <1>4
  <2>2. \A i \in 1..(len - a) : i + (c + 1) - 1 = a + i
    BY <1>4
  <2>. QED
    BY <1>1, <1>3, <2>1, <2>2
<1>5. CASE c > len /\ a = len
  <2>1. 1..(1 + len - (c + 1)) = {} /\ 1..(len - a) = {}
    BY <1>5
  <2>2. SubSeq(t, c + 1, len) = [i \in {} |-> t[i]]
    BY ONLY <1>3, <2>1
  <2>3. [i \in 1..(len - a) |-> t[a + i]] = [i \in {} |-> t[i]]
    BY ONLY <2>1
  <2>. QED
    BY <1>1, <2>2, <2>3
<1>. QED
  BY <1>2, <1>4, <1>5

\* The initial state satisfies the invariant.
LEMMA InitInvariant == Init => IInv
<1>. SUFFICES ASSUME Init PROVE IInv
  OBVIOUS
<1>1. TypeOK
  BY RunnerAssumption DEF Init, TypeOK, PCs, Plans, Engines
<1>2. Alternation /\ TimesOfOutcomes /\ ErrorsAreTheFailures
  BY DEF Init, Alternation, TimesOfOutcomes, ErrorsAreTheFailures, Engines
<1>3. RowsForVerdict
  BY DEF Init, RowsForVerdict, IsLastAnswer, Engines
<1>4. LoopBounds /\ ResultOfLists /\ RecordOfResult
  BY DEF Init, LoopBounds, ResultOfLists, RecordOfResult
<1>. QED
  BY <1>1, <1>2, <1>3, <1>4 DEF IInv

-------------------------------------------------------------------------------
(* One timed execution.                                                    *)

\* An answer recorded in iteration iter extends the history of its engine and
\* keeps the lists of every engine in step with the history.
LEMMA TimeOneType ==
  ASSUME IInv, NEW e \in Engines, NEW out \in Outcomes, TimeOne(e, out)
  PROVE  /\ timings' \in [Engines -> Seq(Times)]
         /\ errors' \in [Engines -> Seq(ErrorRecord)]
         /\ lastRows' \in [Engines -> Rows]
         /\ outcome' \in [Engines -> Seq(Outcome)]
<1>. USE DEF IInv, TypeOK
<1>1. out \in Outcome /\ iter \in Nat
  BY DEF Outcomes
<1>2. out.ms \in Times /\ out.rows \in Rows
  BY <1>1 DEF Outcome
<1>3. timings' \in [Engines -> Seq(Times)]
  BY <1>2 DEF TimeOne, KeepTime
<1>4. errors' \in [Engines -> Seq(ErrorRecord)]
  <2>1. [iteration |-> iter, phase |-> IF IsWarmup(iter) THEN "warmup" ELSE "measurement"]
          \in ErrorRecord
    BY <1>1 DEF ErrorRecord
  <2>. QED
    BY <2>1 DEF TimeOne, RecordError
<1>5. lastRows' \in [Engines -> Rows]
  BY <1>2 DEF TimeOne, KeepRows
<1>6. outcome' \in [Engines -> Seq(Outcome)]
  BY <1>1 DEF TimeOne
<1>. QED
  BY <1>3, <1>4, <1>5, <1>6

LEMMA TimeOneTimes ==
  ASSUME IInv, NEW e \in Engines, NEW out \in Outcomes, TimeOne(e, out)
  PROVE  TimesOfOutcomes'
<1>. SUFFICES ASSUME NEW f \in Engines
              PROVE  /\ Len(timings'[f]) = Len(outcome'[f])
                     /\ \A i \in 1..Len(outcome'[f]) : timings'[f][i] = outcome'[f][i].ms
  BY DEF TimesOfOutcomes
<1>1. CASE f = e
  BY <1>1 DEF IInv, TypeOK, TimesOfOutcomes, TimeOne, KeepTime
<1>2. CASE f # e
  BY <1>2 DEF IInv, TypeOK, TimesOfOutcomes, TimeOne, KeepTime
<1>. QED
  BY <1>1, <1>2

\* The rows kept are those of the last measured success.
LEMMA TimeOneRows ==
  ASSUME IInv, NEW e \in Engines, NEW out \in Outcomes, TimeOne(e, out),
         Len(outcome[e]) = iter
  PROVE  RowsForVerdict'
<1>. SUFFICES ASSUME NEW f \in Engines PROVE IsLastAnswer(f, lastRows[f])'
  BY DEF RowsForVerdict
<1>0. /\ outcome \in [Engines -> Seq(Outcome)]
      /\ lastRows \in [Engines -> Rows]
      /\ IsLastAnswer(f, lastRows[f])
      /\ cfg' = cfg /\ cfg.warmup \in Int
  BY RunnerAssumption DEF IInv, TypeOK, RowsForVerdict, TimeOne, Config
<1>1. CASE f # e
  BY <1>0, <1>1 DEF TimeOne, KeepRows, IsLastAnswer, MeasuredSuccess
<1>2. CASE f = e
  <2>. PICK n \in Nat : n = Len(outcome[e]) + 1
    BY <1>0
  <2>1. /\ outcome'[e] = Append(outcome[e], out)
        /\ DOMAIN outcome'[e] = 1..n
        /\ DOMAIN outcome[e] = 1..(n - 1)
        /\ outcome'[e][n] = out
        /\ \A i \in 1..(n - 1) : outcome'[e][i] = outcome[e][i]
        /\ n \in Nat
    BY <1>0 DEF TimeOne, Outcomes
  <2>a. \A i \in 1..n : i = n \/ i \in 1..(n - 1)
    BY <2>1
  <2>b. \A i \in 1..(n - 1) : ~(i > n) /\ i \in 1..n
    BY <2>1
  <2>c. n \in 1..n /\ ~(n > n)
    BY <2>1
  <2>2. \A i \in 1..(n - 1) : MeasuredSuccess(e, i)' <=> MeasuredSuccess(e, i)
    BY <1>0, <2>1 DEF MeasuredSuccess
  <2>3. MeasuredSuccess(e, n)' <=> out.ok /\ ~IsWarmup(iter)
    <3>1. (n > cfg'.warmup) <=> ~(iter < cfg.warmup)
      BY <1>0 DEF IInv, TypeOK
    <3>2. outcome'[e][n].ok = out.ok
      BY <2>1
    <3>. QED
      BY <3>1, <3>2, Zenon DEF MeasuredSuccess, IsWarmup
  <2>4. CASE out.ok /\ ~IsWarmup(iter)
    <3>1. lastRows'[e] = out.rows
      BY <2>4, <1>0 DEF TimeOne, KeepRows
    <3>2. n \in DOMAIN outcome'[e] /\ MeasuredSuccess(e, n)'
      BY <2>c, <2>1, <2>3, <2>4, Zenon
    <3>3. \A j \in DOMAIN outcome'[e] : ~(j > n)
      BY <2>1
    <3>4. lastRows'[e] = outcome'[e][n].rows
      BY <2>1, <3>1, Zenon
    <3>. QED
      BY <1>2, <3>2, <3>3, <3>4, Zenon DEF IsLastAnswer
  <2>5. CASE ~(out.ok /\ ~IsWarmup(iter))
    <3>1. lastRows'[e] = lastRows[e]
      BY <2>5 DEF TimeOne, KeepRows
    <3>2. ~MeasuredSuccess(e, n)'
      BY <2>3, <2>5
    <3>3. CASE /\ lastRows[e] = EmptyRows
               /\ \A i \in DOMAIN outcome[e] : ~MeasuredSuccess(e, i)
      <4>1. \A i \in DOMAIN outcome'[e] : ~MeasuredSuccess(e, i)'
        BY <2>a, <2>1, <2>2, <3>2, <3>3, Zenon
      <4>. QED
        BY <1>2, <3>1, <3>3, <4>1, Zenon DEF IsLastAnswer
    <3>4. ASSUME NEW i \in DOMAIN outcome[e],
                 MeasuredSuccess(e, i),
                 lastRows[e] = outcome[e][i].rows,
                 \A j \in DOMAIN outcome[e] : j > i => ~MeasuredSuccess(e, j)
          PROVE  IsLastAnswer(e, lastRows[e])'
      <4>1. i \in DOMAIN outcome'[e] /\ MeasuredSuccess(e, i)'
        BY <2>b, <2>1, <2>2, <3>4
      <4>2. lastRows'[e] = outcome'[e][i].rows
        BY <2>1, <3>1, <3>4
      <4>3. \A j \in DOMAIN outcome'[e] : j > i => ~MeasuredSuccess(e, j)'
        <5>. SUFFICES ASSUME NEW j \in 1..n, j > i PROVE ~MeasuredSuccess(e, j)'
          BY <2>1, Zenon
        <5>1. j = n \/ j \in 1..(n - 1)
          BY <2>a
        <5>. QED
          BY <2>1, <2>2, <3>2, <3>4, <5>1, Zenon
      <4>. QED
        BY <4>1, <4>2, <4>3 DEF IsLastAnswer
    <3>. QED
      BY <1>0, <1>2, <3>3, <3>4 DEF IsLastAnswer
  <2>. QED
    BY <2>4, <2>5
<1>. QED
  BY <1>1, <1>2

\* The error list stays the ordered list of the failures: the new entry, if
\* any, is later than every entry there is.
LEMMA TimeOneErrors ==
  ASSUME IInv, NEW e \in Engines, NEW out \in Outcomes, TimeOne(e, out),
         Len(outcome[e]) = iter
  PROVE  ErrorsAreTheFailures'
<1>0. /\ outcome \in [Engines -> Seq(Outcome)]
      /\ outcome' \in [Engines -> Seq(Outcome)]
      /\ errors \in [Engines -> Seq(ErrorRecord)]
      /\ errors' \in [Engines -> Seq(ErrorRecord)]
      /\ cfg' = cfg /\ cfg.warmup \in Int /\ iter \in Nat
  BY TimeOneType, RunnerAssumption DEF IInv, TypeOK, TimeOne, Config
<1>1. ErrorsAreTheFailures
  BY DEF IInv
<1>2. SUFFICES ASSUME NEW f \in Engines
               PROVE  /\ \A k \in DOMAIN errors'[f] : ErrorNamesFailure(f, k)'
                      /\ \A k, l \in DOMAIN errors'[f] :
                           k < l => errors'[f][k].iteration < errors'[f][l].iteration
                      /\ \A i \in DOMAIN outcome'[f] : FailureIsListed(f, i)'
  BY DEF ErrorsAreTheFailures
<1>3. CASE f # e
  <2>1. outcome'[f] = outcome[f] /\ errors'[f] = errors[f]
    BY <1>0, <1>3 DEF TimeOne, RecordError
  <2>2. \A k : ErrorNamesFailure(f, k)' <=> ErrorNamesFailure(f, k)
    BY <1>0, <2>1 DEF ErrorNamesFailure
  <2>3. \A i : FailureIsListed(f, i)' <=> FailureIsListed(f, i)
    BY <2>1 DEF FailureIsListed
  <2>. QED
    BY <1>1, <2>1, <2>2, <2>3 DEF ErrorsAreTheFailures
<1>4. CASE f = e
  <2>. PICK n \in Nat : n = iter + 1
    BY <1>0
  <2>1. /\ DOMAIN outcome[e] = 1..iter /\ DOMAIN outcome'[e] = 1..n
        /\ outcome'[e][n] = out
        /\ \A i \in 1..iter : i \in 1..n /\ outcome'[e][i] = outcome[e][i]
        /\ \A i \in 1..n : i = n \/ i \in 1..iter
    BY <1>0 DEF TimeOne, Outcomes
  <2>2. CASE out.ok
    <3>1. errors'[e] = errors[e]
      BY <2>2 DEF TimeOne, RecordError
    <3>2. \A k \in DOMAIN errors[e] : ErrorNamesFailure(e, k) => ErrorNamesFailure(e, k)'
      BY <1>0, <2>1, <3>1 DEF ErrorNamesFailure
    <3>3. \A i \in 1..iter : FailureIsListed(e, i) => FailureIsListed(e, i)'
      BY <2>1, <3>1 DEF FailureIsListed
    <3>4. FailureIsListed(e, n)'
      BY <2>1, <2>2 DEF FailureIsListed
    <3>5. \A i \in DOMAIN outcome'[e] : FailureIsListed(e, i)'
      BY <1>1, <2>1, <3>3, <3>4, Zenon DEF ErrorsAreTheFailures
    <3>. QED
      BY <1>1, <1>4, <3>1, <3>2, <3>5 DEF ErrorsAreTheFailures
  <2>3. CASE ~out.ok
    <3>. DEFINE new == [iteration |-> iter,
                        phase |-> IF IsWarmup(iter) THEN "warmup" ELSE "measurement"]
    <3>. PICK m \in Nat : m = Len(errors[e]) + 1
      BY <1>0
    <3>1. errors'[e] = Append(errors[e], new)
      BY <1>0, <2>3 DEF TimeOne, RecordError
    <3>2. new \in ErrorRecord
      BY <1>0 DEF ErrorRecord
    <3>3. /\ new.iteration = iter
          /\ new.phase = (IF iter + 1 > cfg'.warmup THEN "measurement" ELSE "warmup")
      BY <1>0 DEF IsWarmup
    <3>. HIDE DEF new
    <3>4. /\ DOMAIN errors[e] = 1..(m - 1) /\ DOMAIN errors'[e] = 1..m
          /\ errors'[e][m] = new
          /\ \A k \in 1..(m - 1) : k \in 1..m /\ errors'[e][k] = errors[e][k]
          /\ \A k \in 1..m : k = m \/ k \in 1..(m - 1)
          /\ m \in 1..m
      <4>1. errors[e] \in Seq(ErrorRecord) /\ Len(errors[e]) = m - 1
        BY <1>0
      <4>2. DOMAIN errors[e] = 1..(m - 1)
        BY <4>1
      <4>3. DOMAIN errors'[e] = 1..m /\ errors'[e][m] = new
        BY <3>1, <3>2, <4>1
      <4>4. \A k \in 1..(m - 1) : errors'[e][k] = errors[e][k]
        BY <3>1, <3>2, <4>1
      <4>5. m # 0
        BY <1>0
      <4>. QED
        BY <4>2, <4>3, <4>4, <4>5
    <3>5. \A k \in 1..(m - 1) : ErrorNamesFailure(e, k) => ErrorNamesFailure(e, k)'
      <4>. SUFFICES ASSUME NEW k \in 1..(m - 1), ErrorNamesFailure(e, k)
                    PROVE  ErrorNamesFailure(e, k)'
        OBVIOUS
      <4>. DEFINE i == errors[e][k].iteration
      <4>1. errors'[e][k] = errors[e][k]
        BY <3>4
      <4>2. i + 1 \in 1..n /\ outcome'[e][i + 1] = outcome[e][i + 1]
        BY <2>1 DEF ErrorNamesFailure
      <4>. QED
        BY <1>0, <2>1, <4>1, <4>2 DEF ErrorNamesFailure
    <3>6. ErrorNamesFailure(e, m)'
      <4>1. errors'[e][m].iteration = iter
        BY <3>3, <3>4
      <4>2. iter + 1 = n /\ n \in 1..n
        BY <1>0
      <4>3. ~outcome'[e][n].ok
        BY <2>1, <2>3
      <4>. QED
        BY <2>1, <3>3, <3>4, <4>1, <4>2, <4>3 DEF ErrorNamesFailure
    <3>7. \A k \in DOMAIN errors'[e] : ErrorNamesFailure(e, k)'
      BY <1>1, <3>4, <3>5, <3>6, Zenon DEF ErrorsAreTheFailures
    <3>8. \A k \in 1..(m - 1) : errors[e][k].iteration \in Nat /\ errors[e][k].iteration < iter
      <4>1. ASSUME NEW k \in 1..(m - 1)
            PROVE  errors[e][k].iteration \in Nat /\ errors[e][k].iteration + 1 \in 1..iter
        <5>1. ErrorNamesFailure(e, k)
          BY <1>1, <3>4 DEF ErrorsAreTheFailures
        <5>2. errors[e][k] \in ErrorRecord
          BY <1>0, <3>4
        <5>. QED
          BY <2>1, <5>1, <5>2 DEF ErrorNamesFailure, ErrorRecord
      <4>2. ASSUME NEW i \in Nat, i + 1 \in 1..iter PROVE i < iter
        BY <1>0, <4>2
      <4>. QED
        BY ONLY <4>1, <4>2
    <3>9. \A k, l \in DOMAIN errors'[e] :
            k < l => errors'[e][k].iteration < errors'[e][l].iteration
      <4>. SUFFICES ASSUME NEW k \in 1..m, NEW l \in 1..m, k < l
                    PROVE  errors'[e][k].iteration < errors'[e][l].iteration
        BY <3>4
      <4>1. k \in 1..(m - 1)
        OBVIOUS
      <4>2. CASE l = m
        BY <3>3, <3>4, <3>8, <4>1, <4>2
      <4>3. CASE l \in 1..(m - 1)
        BY <1>1, <3>4, <4>1, <4>3 DEF ErrorsAreTheFailures
      <4>. QED
        BY <3>4, <4>2, <4>3
    <3>10. \A i \in 1..iter : FailureIsListed(e, i) => FailureIsListed(e, i)'
      BY <2>1, <3>4 DEF FailureIsListed
    <3>11. FailureIsListed(e, n)'
      <4>1. n - 1 = iter
        BY <1>0
      <4>. QED
        BY <3>3, <3>4, <4>1 DEF FailureIsListed
    <3>12. \A i \in DOMAIN outcome'[e] : FailureIsListed(e, i)'
      BY <1>1, <2>1, <3>10, <3>11, Zenon DEF ErrorsAreTheFailures
    <3>. QED
      BY <1>4, <3>7, <3>9, <3>12
  <2>. QED
    BY <2>2, <2>3
<1>. QED
  BY <1>3, <1>4

-------------------------------------------------------------------------------
(* The steps of the runner.                                                *)

LEMMA ConfigType == ASSUME IInv PROVE cfg.warmup \in Int /\ cfg.measure \in Int
BY RunnerAssumption DEF IInv, TypeOK, Config

LEMMA MongoAnswersStep == ASSUME IInv, MongoAnswers PROVE IInv'
<1>. PICK out \in Outcomes : TimeOne("mongo", out)
  BY DEF MongoAnswers
<1>0. "mongo" \in Engines /\ "oracle" \in Engines /\ Len(outcome["mongo"]) = iter
  BY DEF MongoAnswers, IInv, Alternation, Engines
<1>1. /\ pc = "mongo_call" /\ pc' = "oracle_call"
      /\ UNCHANGED <<cfg, iter, plan, result, record>>
  BY DEF MongoAnswers, TimeOne, Outputs
<1>2. TypeOK'
  BY <1>0, <1>1, TimeOneType DEF IInv, TypeOK, PCs
<1>3. Alternation'
  BY <1>0, <1>1 DEF IInv, TypeOK, Alternation, TimeOne, Outcomes
<1>4. TimesOfOutcomes' /\ RowsForVerdict' /\ ErrorsAreTheFailures'
  BY <1>0, TimeOneTimes, TimeOneRows, TimeOneErrors
<1>5. LoopBounds'
  BY <1>1 DEF IInv, LoopBounds, TotalIters
<1>6. ResultOfLists' /\ RecordOfResult'
  BY <1>1 DEF IInv, ResultOfLists, RecordOfResult
<1>. QED
  BY <1>2, <1>3, <1>4, <1>5, <1>6 DEF IInv

LEMMA OracleAnswersStep == ASSUME IInv, OracleAnswers PROVE IInv'
<1>. PICK out \in Outcomes : TimeOne("oracle", out)
  BY DEF OracleAnswers
<1>0. "mongo" \in Engines /\ "oracle" \in Engines /\ Len(outcome["oracle"]) = iter
  BY DEF IInv, Alternation, Engines
<1>1. /\ pc = "oracle_call" /\ pc' = "loop" /\ iter' = iter + 1
      /\ UNCHANGED <<cfg, plan, result, record>>
  BY DEF OracleAnswers, TimeOne, Outputs
<1>2. TypeOK'
  BY <1>0, <1>1, TimeOneType DEF IInv, TypeOK, PCs
<1>3. Alternation'
  BY <1>0, <1>1 DEF IInv, TypeOK, Alternation, TimeOne, Outcomes
<1>4. TimesOfOutcomes' /\ RowsForVerdict' /\ ErrorsAreTheFailures'
  BY <1>0, TimeOneTimes, TimeOneRows, TimeOneErrors
<1>5. LoopBounds'
  BY <1>1, ConfigType DEF IInv, TypeOK, LoopBounds, TotalIters
<1>6. ResultOfLists' /\ RecordOfResult'
  BY <1>1 DEF IInv, ResultOfLists, RecordOfResult
<1>. QED
  BY <1>2, <1>3, <1>4, <1>5, <1>6 DEF IInv

\* A step that leaves the lists and the history alone keeps what is said of them.
LEMMA ListsUntouched ==
  ASSUME IInv, UNCHANGED <<cfg, Loop>>
  PROVE  TimesOfOutcomes' /\ RowsForVerdict' /\ ErrorsAreTheFailures'
<1>1. UNCHANGED <<cfg, iter, timings, errors, lastRows, outcome>>
  BY DEF Loop
<1>2. TimesOfOutcomes'
  BY <1>1 DEF IInv, TimesOfOutcomes
<1>3. RowsForVerdict'
  BY <1>1 DEF IInv, RowsForVerdict, IsLastAnswer, MeasuredSuccess
<1>4. ErrorsAreTheFailures'
  BY <1>1 DEF IInv, ErrorsAreTheFailures, ErrorNamesFailure, FailureIsListed
<1>. QED
  BY <1>2, <1>3, <1>4

LEMMA ExplainStep ==
  ASSUME IInv, ExplainMongo \/ ExplainOracle PROVE IInv'
<1>1. /\ pc \in {"explain_mongo", "explain_oracle"} /\ pc' \in {"explain_oracle", "loop"}
      /\ UNCHANGED <<cfg, iter, timings, errors, lastRows, outcome, result, record>>
      /\ plan' \in Plans
  BY DEF IInv, TypeOK, ExplainMongo, ExplainOracle, Explain, Loop, Outputs, Plans
<1>2. TypeOK'
  BY <1>1 DEF IInv, TypeOK, PCs
<1>3. Alternation' /\ LoopBounds' /\ ResultOfLists' /\ RecordOfResult'
  BY <1>1 DEF IInv, Alternation, LoopBounds, TotalIters, ResultOfLists, RecordOfResult
<1>. QED
  BY <1>1, <1>2, <1>3, ListsUntouched DEF IInv, Loop

LEMMA NextIterationStep == ASSUME IInv, NextIteration PROVE IInv'
<1>1. /\ pc = "loop" /\ pc' = (IF iter < TotalIters THEN "mongo_call" ELSE "reduce")
      /\ UNCHANGED <<cfg, iter, timings, errors, lastRows, outcome, plan, result, record>>
  BY DEF NextIteration, Loop, Outputs
<1>2. TypeOK'
  BY <1>1 DEF IInv, TypeOK, PCs
<1>3. Alternation' /\ ResultOfLists' /\ RecordOfResult'
  BY <1>1 DEF IInv, Alternation, ResultOfLists, RecordOfResult
<1>4. LoopBounds'
  BY <1>1, ConfigType DEF IInv, TypeOK, LoopBounds, TotalIters
<1>. QED
  BY <1>1, <1>2, <1>3, <1>4, ListsUntouched DEF IInv, Loop

LEMMA ReduceStep == ASSUME IInv, Reduce PROVE IInv'
<1>1. /\ pc = "reduce" /\ pc' = (IF WantsMonitor THEN "monitor" ELSE "assemble")
      /\ UNCHANGED <<cfg, iter, timings, errors, lastRows, outcome, plan, record>>
  BY DEF Reduce, Loop
<1>2. result' \in Result
  <2>1. [e \in Engines |-> WarmupSplit(timings[e], cfg.warmup)] \in [Engines -> Split]
    BY SplitType, ConfigType DEF IInv, TypeOK
  <2>2. CheckPrediction(cfg.prediction, Metrics(errors, cfg.measure)) \in BOOLEAN
    BY DEF CheckPrediction
  <2>. QED
    BY <2>1, <2>2 DEF Reduce, Result
<1>3. TypeOK'
  BY <1>1, <1>2 DEF IInv, TypeOK, PCs
<1>4. Alternation' /\ LoopBounds' /\ RecordOfResult'
  BY <1>1 DEF IInv, Alternation, LoopBounds, TotalIters, RecordOfResult
<1>5. ResultOfLists'
  BY <1>1, <1>2 DEF ResultOfLists, Reduce, WantsMonitor
<1>. QED
  BY <1>1, <1>3, <1>4, <1>5, ListsUntouched DEF IInv, Loop

LEMMA CaptureMonitorStep == ASSUME IInv, CaptureMonitor PROVE IInv'
<1>1. /\ pc = "monitor" /\ pc' \in {"assemble", "lost"}
      /\ result' \in {result, [result EXCEPT !.report = "saved"]}
      /\ UNCHANGED <<cfg, iter, timings, errors, lastRows, outcome, plan, record>>
  BY DEF CaptureMonitor, Loop
<1>2. /\ result \in Result /\ errors["oracle"] = <<>>
      /\ result.split = [e \in Engines |-> WarmupSplit(timings[e], cfg.warmup)]
      /\ result.match = (lastRows["mongo"] = lastRows["oracle"])
      /\ result.passed = CheckPrediction(cfg.prediction, Metrics(errors, cfg.measure))
  BY <1>1 DEF IInv, ResultOfLists
<1>3. /\ result' \in Result
      /\ result'.split = result.split /\ result'.match = result.match
      /\ result'.passed = result.passed
  BY <1>1, <1>2 DEF Result
<1>4. TypeOK'
  BY <1>1, <1>3 DEF IInv, TypeOK, PCs
<1>5. Alternation' /\ LoopBounds' /\ RecordOfResult'
  BY <1>1 DEF IInv, Alternation, LoopBounds, TotalIters, RecordOfResult
<1>6. ResultOfLists'
  BY <1>1, <1>2, <1>3 DEF ResultOfLists
<1>. QED
  BY <1>1, <1>4, <1>5, <1>6, ListsUntouched DEF IInv, Loop

LEMMA AssembleStep == ASSUME IInv, Assemble PROVE IInv'
<1>1. /\ pc = "assemble" /\ pc' = "done"
      /\ UNCHANGED <<cfg, iter, timings, errors, lastRows, outcome, plan, result>>
  BY DEF Assemble, Loop
<1>2. /\ result \in Result
      /\ result.split \in [Engines -> Split]
      /\ result.match \in BOOLEAN /\ result.passed \in BOOLEAN
      /\ result.report \in {"none", "saved"}
  BY <1>1 DEF IInv, ResultOfLists, Result
<1>3. record' \in Record
  <2>1. [e \in Engines |-> result.split[e].measured] \in [Engines -> Seq(Times)]
    BY <1>2 DEF Split
  <2>2. errors \in [Engines -> Seq(ErrorRecord)] /\ plan \in Plans
    BY DEF IInv, TypeOK
  <2>. QED
    BY <1>2, <2>1, <2>2 DEF Assemble, Record
<1>4. TypeOK'
  BY <1>1, <1>3 DEF IInv, TypeOK, PCs
<1>5. Alternation' /\ LoopBounds' /\ ResultOfLists'
  BY <1>1 DEF IInv, Alternation, LoopBounds, TotalIters, ResultOfLists
<1>6. RecordOfResult'
  BY <1>1 DEF Assemble, RecordOfResult
<1>. QED
  BY <1>1, <1>4, <1>5, <1>6, ListsUntouched DEF IInv, Loop

LEMMA InterruptStep == ASSUME IInv, Interrupt PROVE IInv'
<1>1. /\ pc \notin {"done", "lost"} /\ pc' = "lost"
      /\ UNCHANGED <<cfg, iter, timings, errors, lastRows, outcome, plan, result, record>>
  BY DEF Interrupt, Loop, Outputs
<1>2. TypeOK'
  BY <1>1 DEF IInv, TypeOK, PCs
<1>3. Alternation' /\ LoopBounds' /\ ResultOfLists' /\ RecordOfResult'
  BY <1>1 DEF IInv, TypeOK, Alternation, LoopBounds, TotalIters, ResultOfLists, RecordOfResult
<1>. QED
  BY <1>1, <1>2, <1>3, ListsUntouched DEF IInv, Loop

\* The invariant is inductive.
LEMMA NextInvariant == IInv /\ [Next]_vars => IInv'
<1>. SUFFICES ASSUME IInv, [Next]_vars PROVE IInv'
  OBVIOUS
<1>1. CASE Harness
  BY <1>1, ExplainStep, NextIterationStep, ReduceStep, CaptureMonitorStep, AssembleStep
     DEF Harness
<1>2. CASE Answers
  BY <1>2, MongoAnswersStep, OracleAnswersStep DEF Answers
<1>3. CASE Interrupt
  BY <1>3, InterruptStep
<1>4. CASE UNCHANGED vars
  BY <1>4 DEF vars, IInv, TypeOK, Alternation, TimesOfOutcomes, RowsForVerdict, IsLastAnswer,
     MeasuredSuccess, ErrorsAreTheFailures, ErrorNamesFailure, FailureIsListed,
     LoopBounds, TotalIters, ResultOfLists, RecordOfResult
<1>. QED
  BY <1>1, <1>2, <1>3, <1>4 DEF Next

\* Every reachable state satisfies the inductive invariant.
THEOREM Invariance == Spec => []IInv
<1>. QED
  BY InitInvariant, NextInvariant, PTL DEF Spec

-------------------------------------------------------------------------------
(* What follows from it.                                                   *)

\* Every variable of run_scenario keeps its type.
THEOREM TypeCorrect == Spec => []TypeOK
<1>1. IInv => TypeOK
  BY DEF IInv
<1>. QED
  BY <1>1, Invariance, PTL

\* MongoDB and Oracle alternate, whatever fails.
THEOREM Alternates == Spec => []Alternation
<1>1. IInv => Alternation
  BY DEF IInv
<1>. QED
  BY <1>1, Invariance, PTL

\* The error lists are the failures, in order, with their phases.
THEOREM ErrorsCorrect == Spec => []ErrorsAreTheFailures
<1>1. IInv => ErrorsAreTheFailures
  BY DEF IInv
<1>. QED
  BY <1>1, Invariance, PTL

\* An engine has one last answer.
LEMMA LastAnswerUnique ==
  ASSUME TypeOK, NEW e \in Engines, NEW r, NEW s, IsLastAnswer(e, r), IsLastAnswer(e, s)
  PROVE  r = s
<1>1. DOMAIN outcome[e] \subseteq Int
  BY DEF TypeOK
<1>2. CASE \A i \in DOMAIN outcome[e] : ~MeasuredSuccess(e, i)
  BY <1>2, Zenon DEF IsLastAnswer
<1>3. CASE \E i \in DOMAIN outcome[e] : MeasuredSuccess(e, i)
  <2>1. PICK i \in DOMAIN outcome[e] :
          /\ r = outcome[e][i].rows
          /\ MeasuredSuccess(e, i)
          /\ \A k \in DOMAIN outcome[e] : k > i => ~MeasuredSuccess(e, k)
    BY <1>3, Zenon DEF IsLastAnswer
  <2>2. PICK j \in DOMAIN outcome[e] :
          /\ s = outcome[e][j].rows
          /\ MeasuredSuccess(e, j)
          /\ \A k \in DOMAIN outcome[e] : k > j => ~MeasuredSuccess(e, k)
    BY <1>3, Zenon DEF IsLastAnswer
  <2>3. ~(i > j) /\ ~(j > i)
    BY <2>1, <2>2, Zenon
  <2>4. i = j
    BY <1>1, <2>3
  <2>. QED
    BY <2>1, <2>2, <2>4
<1>. QED
  BY <1>2, <1>3, Zenon

\* The verdict of a record compares the engines' last successful measured
\* answers: neither a warm-up answer nor a failed one can decide it.
THEOREM VerdictSound == Spec => [](RowsForVerdict /\ VerdictOnLastAnswers)
<1>1. ASSUME IInv PROVE VerdictOnLastAnswers
  <2>. SUFFICES ASSUME record # None,
                       NEW r \in Rows, NEW s \in Rows,
                       IsLastAnswer("mongo", r), IsLastAnswer("oracle", s)
                PROVE  record.match = (r = s)
    BY DEF VerdictOnLastAnswers
  <2>1. "mongo" \in Engines /\ "oracle" \in Engines
    BY DEF Engines
  <2>2. record.match = (lastRows["mongo"] = lastRows["oracle"])
    BY <1>1 DEF IInv, RecordOfResult, ResultOfLists
  <2>3. lastRows["mongo"] = r /\ lastRows["oracle"] = s
    BY <1>1, <2>1, LastAnswerUnique DEF IInv, RowsForVerdict
  <2>. QED
    BY <2>2, <2>3
<1>2. IInv => RowsForVerdict
  BY DEF IInv
<1>. QED
  BY <1>1, <1>2, Invariance, PTL

\* What the end of the loop leaves: as many rounds as were asked for, none when
\* the bounds ask for less than one, and their times, engine by engine.
LEMMA LoopEnd ==
  ASSUME IInv, pc \in {"reduce", "monitor", "assemble", "done"}
  PROVE  /\ iter \in Nat /\ iter = (IF TotalIters > 0 THEN TotalIters ELSE 0)
         /\ \A e \in Engines : /\ timings[e] \in Seq(Times) /\ Len(timings[e]) = iter
                               /\ Len(outcome[e]) = iter
                               /\ \A i \in 1..iter : timings[e][i] = outcome[e][i].ms
<1>1. iter \in Nat /\ TotalIters \in Int
  BY ConfigType DEF IInv, TypeOK, TotalIters
<1>2. iter >= TotalIters /\ (iter > 0 => iter <= TotalIters)
  BY DEF IInv, LoopBounds
<1>3. \A e \in Engines : timings[e] \in Seq(Times)
  BY DEF IInv, TypeOK
<1>4. \A e \in Engines : Len(outcome[e]) = iter
  BY DEF IInv, Alternation, Engines
<1>5. \A e \in Engines : /\ Len(timings[e]) = Len(outcome[e])
                         /\ \A i \in 1..Len(outcome[e]) : timings[e][i] = outcome[e][i].ms
  BY DEF IInv, TimesOfOutcomes
<1>6. iter = (IF TotalIters > 0 THEN TotalIters ELSE 0)
  BY ONLY <1>1, <1>2
<1>. QED
  BY ONLY <1>1, <1>3, <1>4, <1>5, <1>6

\* The sample of a record is the times of exactly the measured iterations:
\* no failure and no warm-up shifts the split.
THEOREM SampleSound == Spec => []SampleIsMeasuredIterations
<1>1. ASSUME IInv PROVE SampleIsMeasuredIterations
  <2>. SUFFICES ASSUME record # None, cfg.warmup >= 0, NEW e \in Engines
                PROVE  /\ Len(record.sample[e]) = (IF cfg.measure > 0 THEN cfg.measure ELSE 0)
                       /\ \A k \in 1..cfg.measure :
                            record.sample[e][k] = outcome[e][cfg.warmup + k].ms
    BY DEF SampleIsMeasuredIterations
  <2>. DEFINE S == WarmupSplit(timings[e], cfg.warmup).measured
              w == cfg.warmup
              m == cfg.measure
              T == timings[e]
  <2>1. w \in Nat /\ m \in Int
    BY <1>1, ConfigType
  <2>2. pc = "done"
    BY <1>1 DEF IInv, RecordOfResult
  <2>3. /\ iter \in Nat /\ iter = (IF w + m > 0 THEN w + m ELSE 0)
        /\ T \in Seq(Times) /\ Len(T) = iter
        /\ \A i \in 1..iter : T[i] = outcome[e][i].ms
    BY <1>1, <2>2, LoopEnd DEF TotalIters
  <2>4. record.sample[e] = S
    BY <1>1, <2>2 DEF IInv, RecordOfResult, ResultOfLists
  <2>5. S = [k \in 1..(iter - Aside(iter, w)) |-> T[Aside(iter, w) + k]] /\ Aside(iter, w) \in 0..iter
    <3>. HIDE DEF S
    <3>. QED
      BY ONLY <2>1, <2>3, SplitMeasured DEF S
  <2>. HIDE DEF S, w, m, T
  <2>6. CASE m > 0
    <3>1. iter = w + m /\ Aside(iter, w) = w /\ iter - w = m
      BY ONLY <2>1, <2>3, <2>6 DEF Aside
    <3>2. S = [k \in 1..m |-> T[w + k]]
      BY ONLY <2>5, <3>1
    <3>3. Len(S) = m /\ \A k \in 1..m : S[k] = T[w + k]
      BY ONLY <2>1, <2>6, <3>2
    <3>4. \A k \in 1..m : w + k \in 1..iter
      BY ONLY <2>1, <3>1
    <3>5. Len(S) = m /\ \A k \in 1..m : S[k] = outcome[e][w + k].ms
      BY ONLY <2>3, <3>3, <3>4
    <3>. QED
      BY ONLY <2>4, <2>6, <3>5 DEF w, m
  <2>7. CASE ~(m > 0)
    <3>1. iter - Aside(iter, w) = 0
      BY ONLY <2>1, <2>3, <2>7 DEF Aside
    <3>2. S = <<>>
      BY ONLY <2>5, <3>1
    <3>3. 1..m = {}
      BY ONLY <2>1, <2>7
    <3>. QED
      BY ONLY <2>4, <2>7, <3>2, <3>3 DEF m
  <2>. QED
    BY ONLY <2>6, <2>7
<1>. QED
  BY <1>1, Invariance, PTL

\* A SQL Monitor report is never that of a statement Oracle failed on.
THEOREM MonitorSound == Spec => []MonitorNeedsCleanOracle
<1>1. ASSUME IInv PROVE MonitorNeedsCleanOracle
  <2>. SUFFICES ASSUME record # None, record.report = "saved",
                       NEW i \in DOMAIN outcome["oracle"], ~outcome["oracle"][i].ok
                PROVE  FALSE
    BY DEF MonitorNeedsCleanOracle
  <2>1. errors["oracle"] = <<>>
    <3>1. pc = "done" /\ result.report = "saved"
      BY <1>1 DEF IInv, RecordOfResult
    <3>. QED
      BY <1>1, <3>1 DEF IInv, ResultOfLists
  <2>2. FailureIsListed("oracle", i)
    BY <1>1 DEF IInv, ErrorsAreTheFailures, Engines
  <2>. QED
    <3>1. DOMAIN errors["oracle"] = {}
      BY <2>1
    <3>. QED
      BY <2>2, <3>1, Zenon DEF FailureIsListed
<1>. QED
  BY <1>1, Invariance, PTL

-------------------------------------------------------------------------------
(* A run of the loop is a run of paired rounds.                            *)

\* A failed execution gives no rows, in the whole history.
FailuresAreEmpty == \A e \in Engines : \A i \in DOMAIN outcome[e] : outcome[e][i] \in Outcomes

LEMMA EmptyFailures == Spec => []FailuresAreEmpty
<1>1. Init => FailuresAreEmpty
  BY DEF Init, FailuresAreEmpty
<1>2. ASSUME IInv, FailuresAreEmpty, [Next]_vars PROVE FailuresAreEmpty'
  <2>1. ASSUME NEW e \in Engines, NEW out \in Outcomes, outcome' = [outcome EXCEPT ![e] = Append(@, out)]
        PROVE  FailuresAreEmpty'
    <3>1. outcome \in [Engines -> Seq(Outcome)]
      BY <1>2 DEF IInv, TypeOK
    <3>2. \A f \in Engines \ {e} : outcome'[f] = outcome[f]
      BY <2>1, <3>1
    <3>3. outcome'[e] = Append(outcome[e], out)
      BY <2>1, <3>1
    <3>4. \A i \in DOMAIN outcome'[e] : outcome'[e][i] \in {out, outcome[e][i]} /\ (i \in DOMAIN outcome[e] \/ outcome'[e][i] = out)
      BY <3>1, <3>3 DEF Outcomes
    <3> QED BY <1>2, <2>1, <3>2, <3>4 DEF FailuresAreEmpty
  <2>2. CASE Answers
    BY <2>1, <2>2 DEF Answers, MongoAnswers, OracleAnswers, TimeOne, Engines
  <2>3. CASE UNCHANGED outcome
    BY <1>2, <2>3 DEF FailuresAreEmpty
  <2> QED BY <1>2, <2>2, <2>3 DEF Next, Harness, ExplainMongo, ExplainOracle, Explain, NextIteration,
             Reduce, CaptureMonitor, Assemble, Interrupt, Loop, vars
<1> QED BY <1>1, <1>2, Invariance, PTL DEF Spec

\* Steps that finish no round and keep the record pending change nothing in the
\* paired rounds.
LEMMA QuietStep ==
  ASSUME IInv, IInv', iter' = iter, cfg' = cfg, record' = record,
         pc # "lost", pc' # "lost", record = None,
         \A e \in Engines : \A i \in 1..iter : outcome'[e][i] = outcome[e][i]
  PROVE  UNCHANGED Paired!vars
<1>1. Rounds' = Rounds
  BY DEF Rounds
<1>2. Reported' = Reported
  BY DEF Reported
<1> QED BY <1>1, <1>2 DEF Paired!vars

\* A step of the harness that only moves on.
LEMMA HarnessQuiet ==
  ASSUME IInv, IInv', ExplainMongo \/ ExplainOracle \/ NextIteration \/ Reduce
                      \/ (CaptureMonitor /\ pc' # "lost")
  PROVE  UNCHANGED Paired!vars
<1>1. UNCHANGED <<cfg, iter, outcome, record>> /\ pc \notin {"lost", "done"} /\ pc' # "lost"
  BY DEF ExplainMongo, ExplainOracle, Explain, NextIteration, Reduce, CaptureMonitor, Loop, Outputs
<1>2. record = None
  BY <1>1 DEF IInv, RecordOfResult
<1> QED BY <1>1, <1>2, QuietStep

LEMMA MongoQuiet ==
  ASSUME IInv, IInv', MongoAnswers PROVE UNCHANGED Paired!vars
<1>1. PICK out \in Outcomes : outcome' = [outcome EXCEPT !["mongo"] = Append(@, out)]
  BY DEF MongoAnswers, TimeOne
<1>2. /\ UNCHANGED <<cfg, iter, record>> /\ pc = "mongo_call" /\ pc' = "oracle_call"
      /\ Len(outcome["mongo"]) = iter /\ iter \in Nat /\ outcome \in [Engines -> Seq(Outcome)]
  BY DEF MongoAnswers, TimeOne, Outputs, IInv, Alternation, TypeOK
<1>3. record = None
  BY <1>2 DEF IInv, RecordOfResult
<1>4. \A e \in Engines : \A i \in 1..iter : outcome'[e][i] = outcome[e][i]
  <2>1. "mongo" \in Engines /\ out \in Outcome
    BY DEF Engines, Outcomes
  <2>2. \A i \in 1..iter : Append(outcome["mongo"], out)[i] = outcome["mongo"][i]
    BY <1>2, <2>1
  <2> QED BY <1>1, <1>2, <2>1, <2>2
<1> QED BY <1>2, <1>3, <1>4, QuietStep

\* Oracle's answer finishes the round.
LEMMA OracleObserves ==
  ASSUME IInv, IInv', FailuresAreEmpty', OracleAnswers PROVE Paired!Observe
<1>1. PICK out \in Outcomes : outcome' = [outcome EXCEPT !["oracle"] = Append(@, out)]
  BY DEF OracleAnswers, TimeOne
<1>2. /\ UNCHANGED <<cfg, record>> /\ pc = "oracle_call" /\ pc' = "loop" /\ iter' = iter + 1
      /\ iter \in Nat /\ iter < TotalIters /\ outcome \in [Engines -> Seq(Outcome)]
      /\ Len(outcome["oracle"]) = iter /\ Len(outcome["mongo"]) = iter + 1
  BY DEF OracleAnswers, TimeOne, Outputs, IInv, LoopBounds, Alternation, TypeOK
<1>3. record = None /\ Reported = Paired!Pending /\ Reported' = Reported
  BY <1>2 DEF IInv, RecordOfResult, Reported, Paired!Pending
<1>4. "oracle" \in Engines /\ "mongo" \in Engines /\ out \in Outcome
  BY DEF Engines, Outcomes
<1>5. \A e \in Engines : \A i \in 1..iter : outcome'[e][i] = outcome[e][i]
  <2>1. \A i \in 1..iter : Append(outcome["oracle"], out)[i] = outcome["oracle"][i]
    BY <1>2, <1>4
  <2> QED BY <1>1, <1>2, <1>4, <2>1
<1>6. \A e \in Engines : Len(outcome'[e]) = iter + 1 /\ outcome'[e] \in Seq(Outcome)
  BY <1>1, <1>2, <1>4 DEF Engines
<1> DEFINE r == [e \in Engines |-> outcome'[e][iter + 1]]
<1>7. r \in Paired!Round
  <2>1. \A e \in Engines : iter + 1 \in DOMAIN outcome'[e]
    BY <1>2, <1>6
  <2>2. \A e \in Engines : outcome'[e][iter + 1] \in Outcomes
    BY <2>1 DEF FailuresAreEmpty
  <2>3. \A a \in Outcomes : a \in Paired!Answer
    BY DEF Outcomes, Outcome, Paired!Answer
  <2> QED BY <2>2, <2>3 DEF Paired!Round, Paired!Engines, Engines
<1>8. Rounds' = Append(Rounds, r)
  <2>1. Rounds' = [i \in 1..(iter + 1) |-> [e \in Engines |-> outcome'[e][i]]]
    BY <1>2 DEF Rounds
  <2>2. \A i \in 1..iter : [e \in Engines |-> outcome'[e][i]] = Rounds[i]
    BY <1>5 DEF Rounds
  <2>3. Append(Rounds, r) = [i \in 1..(iter + 1) |-> IF i = iter + 1 THEN r ELSE Rounds[i]]
    BY <1>2 DEF Rounds
  <2> DEFINE f == [i \in 1..(iter + 1) |-> [e \in Engines |-> outcome'[e][i]]]
             g == [i \in 1..(iter + 1) |-> IF i = iter + 1 THEN r ELSE Rounds[i]]
  <2>4. ASSUME NEW i \in 1..(iter + 1) PROVE f[i] = g[i]
    <3>1. CASE i = iter + 1
      <4>1. f[i] = r
        BY <3>1
      <4>2. g[i] = r
        BY <3>1
      <4> QED BY <4>1, <4>2
    <3>2. CASE i # iter + 1
      <4>1. i \in 1..iter
        BY <1>2, <3>2
      <4>2. f[i] = [e \in Engines |-> outcome'[e][i]]
        OBVIOUS
      <4>3. g[i] = Rounds[i]
        BY <3>2
      <4> QED BY <2>2, <4>1, <4>2, <4>3
    <3> QED BY <3>1, <3>2
  <2>5. f = g
    <3>1. DOMAIN f = 1..(iter + 1) /\ DOMAIN g = 1..(iter + 1)
      OBVIOUS
    <3>2. f = [i \in DOMAIN f |-> f[i]] /\ g = [i \in DOMAIN g |-> g[i]]
      OBVIOUS
    <3> HIDE DEF f, g
    <3> QED BY <2>4, <3>1, <3>2
  <2> QED BY <2>1, <2>3, <2>5
<1>9. Len(Rounds) = iter
  BY <1>2 DEF Rounds
<1>10. iter < Paired!Planned
  BY <1>2, ConfigType DEF Paired!Planned, TotalIters
<1> QED BY <1>2, <1>3, <1>7, <1>8, <1>9, <1>10 DEF Paired!Observe

\* After the loop the rounds are all those that were asked for.
Reduced == pc = "assemble"

LEMMA RoundsAtEnd ==
  ASSUME IInv, Reduced
  PROVE  /\ iter \in Nat /\ iter = Paired!Planned
         /\ Len(Rounds) = iter /\ DOMAIN Rounds = 1..iter
         /\ \A e \in Engines : /\ outcome[e] \in Seq(Outcome) /\ Len(outcome[e]) = iter
                               /\ \A i \in 1..iter : Rounds[i][e] = outcome[e][i]
<1>1. iter \in Nat /\ iter = Paired!Planned
  BY LoopEnd DEF Reduced, TotalIters, Paired!Planned
<1>2. Len(Rounds) = iter /\ DOMAIN Rounds = 1..iter
  BY <1>1 DEF Rounds
<1>3. \A e \in Engines : outcome[e] \in Seq(Outcome) /\ Len(outcome[e]) = iter
  BY DEF IInv, TypeOK, Alternation, Reduced, Engines
<1>4. \A e \in Engines : \A i \in 1..iter : Rounds[i][e] = outcome[e][i]
  BY DEF Rounds
<1> QED BY <1>1, <1>2, <1>3, <1>4

\* The slice sets the same rounds aside for both engines, the warm-up when it is
\* not negative.
LEMMA AsideIsPromised ==
  ASSUME IInv, Reduced
  PROVE  Aside(iter, cfg.warmup) \in Paired!SetAside
<1>1. cfg.warmup \in Int /\ iter \in Nat /\ Len(Rounds) = iter
  BY ConfigType, RoundsAtEnd
<1>2. Aside(iter, cfg.warmup) \in 0..iter
  BY ONLY <1>1 DEF Aside
<1>3. cfg.warmup >= 0 => \/ Aside(iter, cfg.warmup) = cfg.warmup
                         \/ Aside(iter, cfg.warmup) = iter /\ Aside(iter, cfg.warmup) < cfg.warmup
  BY ONLY <1>1 DEF Aside
<1> QED BY ONLY <1>1, <1>2, <1>3 DEF Paired!SetAside

LEMMA SampleOfRounds ==
  ASSUME IInv, Reduced, NEW e \in Engines
  PROVE  result.split[e].measured = Paired!Sample(e, Aside(iter, cfg.warmup))
<1> DEFINE T == timings[e]
           n == Aside(iter, cfg.warmup)
<1>1. cfg.warmup \in Int /\ iter \in Nat /\ T \in Seq(Times) /\ Len(T) = iter
  BY ConfigType, LoopEnd DEF Reduced
<1>2. result.split[e].measured = WarmupSplit(T, cfg.warmup).measured
  BY DEF IInv, ResultOfLists, Reduced
<1>3. n \in 0..iter /\ WarmupSplit(T, cfg.warmup).measured = [k \in 1..(iter - n) |-> T[n + k]]
  BY <1>1, SplitMeasured
<1>4. \A i \in 1..iter : T[i] = Rounds[i][e].ms
  BY LoopEnd, RoundsAtEnd DEF Reduced
<1>5. Paired!Sample(e, n) = [k \in 1..(iter - n) |-> Rounds[n + k][e].ms]
  BY RoundsAtEnd DEF Paired!Sample
<1> HIDE DEF T, n
<1>6. \A k \in 1..(iter - n) : n + k \in 1..iter
  BY ONLY <1>1, <1>3
<1>7. \A k \in 1..(iter - n) : T[n + k] = Rounds[n + k][e].ms
  BY ONLY <1>4, <1>6
<1>8. [k \in 1..(iter - n) |-> T[n + k]] = [k \in 1..(iter - n) |-> Rounds[n + k][e].ms]
  BY ONLY <1>7
<1> QED BY ONLY <1>2, <1>3, <1>5, <1>8 DEF n

LEMMA FailuresOfRounds ==
  ASSUME IInv, Reduced, NEW e \in Engines
  PROVE  { errors[e][k].iteration + 1 : k \in DOMAIN errors[e] } = Paired!Failures(e)
<1> DEFINE F == { errors[e][k].iteration + 1 : k \in DOMAIN errors[e] }
<1>1. Paired!Failures(e) = { i \in 1..iter : ~outcome[e][i].ok }
  BY RoundsAtEnd DEF Paired!Failures
<1>2. DOMAIN outcome[e] = 1..iter
  BY RoundsAtEnd
<1>3. ASSUME NEW k \in DOMAIN errors[e]
      PROVE  errors[e][k].iteration + 1 \in 1..iter /\ ~outcome[e][errors[e][k].iteration + 1].ok
  <2>1. ErrorNamesFailure(e, k)
    BY DEF IInv, ErrorsAreTheFailures
  <2> QED BY <1>2, <2>1 DEF ErrorNamesFailure
<1>4. ASSUME NEW i \in 1..iter, ~outcome[e][i].ok PROVE i \in F
  <2>1. FailureIsListed(e, i)
    BY <1>2 DEF IInv, ErrorsAreTheFailures
  <2>2. PICK k \in DOMAIN errors[e] : errors[e][k].iteration = i - 1
    BY <1>4, <2>1 DEF FailureIsListed
  <2>3. errors[e][k].iteration + 1 = i
    BY <2>2
  <2> QED BY <2>3
<1> QED BY <1>1, <1>3, <1>4

LEMMA LastRowsOfRounds ==
  ASSUME IInv, Reduced, NEW e \in Engines
  PROVE  lastRows[e] = Paired!LastAnswer(e)
<1> DEFINE M == Paired!Successes(e)
<1>1. cfg.warmup \in Int /\ iter \in Nat /\ DOMAIN outcome[e] = 1..iter
  BY RoundsAtEnd, ConfigType
<1>2. M = { i \in 1..iter : i > cfg.warmup /\ Rounds[i][e].ok }
  BY RoundsAtEnd DEF Paired!Successes, Paired!Measured
<1>3. \A i : i \in M <=> i \in DOMAIN outcome[e] /\ MeasuredSuccess(e, i)
  <2>1. ASSUME NEW i \in M PROVE i \in DOMAIN outcome[e] /\ MeasuredSuccess(e, i)
    <3>1. i \in 1..iter /\ i > cfg.warmup /\ Rounds[i][e].ok
      BY <1>1, <1>2
    <3> QED BY <1>1, <3>1, RoundsAtEnd DEF MeasuredSuccess
  <2>2. ASSUME NEW i \in DOMAIN outcome[e], MeasuredSuccess(e, i) PROVE i \in M
    <3>1. i \in 1..iter /\ i > cfg.warmup /\ outcome[e][i].ok
      BY <1>1, <2>2 DEF MeasuredSuccess
    <3> QED BY <1>2, <3>1, RoundsAtEnd
  <2> HIDE DEF M
  <2> QED BY <2>1, <2>2
<1>4. IsLastAnswer(e, lastRows[e])
  BY DEF IInv, RowsForVerdict
<1> HIDE DEF M
<1>5. CASE \A i \in DOMAIN outcome[e] : ~MeasuredSuccess(e, i)
  <2>1. M = {}
    BY <1>3, <1>5
  <2>2. lastRows[e] = EmptyRows
    BY <1>4, <1>5 DEF IsLastAnswer
  <2> QED BY <2>1, <2>2 DEF Paired!LastAnswer, M
<1>6. CASE ~(\A i \in DOMAIN outcome[e] : ~MeasuredSuccess(e, i))
  <2>1. PICK i \in DOMAIN outcome[e] :
          /\ MeasuredSuccess(e, i) /\ lastRows[e] = outcome[e][i].rows
          /\ \A j \in DOMAIN outcome[e] : j > i => ~MeasuredSuccess(e, j)
    BY <1>4, <1>6 DEF IsLastAnswer
  <2>2. i \in M /\ \A j \in M : j <= i
    BY <1>1, <1>3, <2>1
  <2> DEFINE c == CHOOSE a \in M : \A b \in M : b <= a
  <2>3. c \in M /\ \A j \in M : j <= c
    BY <2>2
  <2>4. c = i
    <3>1. c <= i /\ i <= c /\ c \in Int /\ i \in Int
      BY <1>1, <1>3, <2>2, <2>3
    <3> HIDE DEF c
    <3> QED BY <3>1
  <2>5. Paired!LastAnswer(e) = Rounds[c][e].rows
    BY <2>2 DEF Paired!LastAnswer, M
  <2> HIDE DEF c
  <2>6. Rounds[c][e] = outcome[e][i]
    BY <1>1, <2>1, <2>4, RoundsAtEnd
  <2> QED BY <2>1, <2>5, <2>6
<1> QED BY <1>5, <1>6

\* The record is the report of the rounds.
LEMMA AssemblePublishes ==
  ASSUME IInv, IInv', Assemble PROVE Paired!Publish
<1>1. Reduced /\ pc # "lost" /\ UNCHANGED <<cfg, iter, outcome>>
  BY DEF Assemble, Loop, Reduced
<1>2. record = None /\ Reported = Paired!Pending
  BY <1>1 DEF IInv, RecordOfResult, Reduced, Reported, Paired!Pending
<1> DEFINE n == Aside(iter, cfg.warmup)
<1>3. Rounds' = Rounds /\ Len(Rounds) = Paired!Planned
  BY <1>1, RoundsAtEnd DEF Rounds
<1>4. record' # None
  BY DEF Assemble, None
<1>5. n \in Paired!SetAside
  BY <1>1, AsideIsPromised
<1>6. record'.sample = [e \in Paired!Engines |-> Paired!Sample(e, n)]
  <2>1. record'.sample = [e \in Engines |-> result.split[e].measured]
    BY DEF Assemble
  <2>2. \A e \in Engines : result.split[e].measured = Paired!Sample(e, n)
    BY <1>1, SampleOfRounds
  <2> QED BY <2>1, <2>2 DEF Paired!Engines, Engines
<1>7. [e \in Engines |-> FailedRounds(e)'] = [e \in Paired!Engines |-> Paired!Failures(e)]
  <2>1. record'.errors = errors
    BY DEF Assemble
  <2>2. \A e \in Engines : FailedRounds(e)' = Paired!Failures(e)
    BY <1>1, <2>1, FailuresOfRounds DEF FailedRounds
  <2> QED BY <2>2 DEF Paired!Engines, Engines
<1>8. record'.match = (Paired!LastAnswer("mongo") = Paired!LastAnswer("oracle"))
  <2>1. "mongo" \in Engines /\ "oracle" \in Engines
    BY DEF Engines
  <2>2. record'.match = (lastRows["mongo"] = lastRows["oracle"])
    BY <1>1 DEF Assemble, IInv, ResultOfLists, Reduced
  <2> QED BY <1>1, <2>1, <2>2, LastRowsOfRounds
<1>9. Reported' = Paired!Report(n)
  <2>1. Reported' = [kind |-> "report", sample |-> record'.sample,
                     failures |-> [e \in Engines |-> FailedRounds(e)'], match |-> record'.match]
    BY <1>4 DEF Reported
  <2> QED BY <2>1, <1>6, <1>7, <1>8 DEF Paired!Report
<1> HIDE DEF n
<1> QED BY <1>1, <1>2, <1>3, <1>5, <1>9 DEF Paired!Publish

\* An interrupt, or a report file that cannot be written, abandons the run.
LEMMA LossAbandons ==
  ASSUME IInv, IInv', Interrupt \/ (CaptureMonitor /\ pc' = "lost") PROVE Paired!Abandon
<1>1. UNCHANGED <<cfg, iter, outcome, record>> /\ pc \notin {"done", "lost"} /\ pc' = "lost"
  BY DEF Interrupt, CaptureMonitor, Loop, Outputs
<1>2. record = None
  BY <1>1 DEF IInv, RecordOfResult
<1>3. Rounds' = Rounds
  BY <1>1 DEF Rounds
<1> QED BY <1>1, <1>2, <1>3 DEF Paired!Abandon, Reported, Paired!Pending, Paired!Abandoned

\* Every run of run_scenario, a negative --warmup or --iterations included, is a run
\* of paired rounds: the warm-up split, the error list and the verdict of its record
\* are functions of the rounds, and no failed execution or interrupt leaves a
\* record of fewer.
THEOREM Refinement == Spec => ImplementsPairedMeasurement
<1>1. Init => Paired!Init
  <2> SUFFICES ASSUME Init PROVE Paired!Init
    OBVIOUS
  <2>1. Rounds = <<>>
    BY DEF Init, Rounds
  <2>2. Reported = Paired!Pending
    BY DEF Init, Reported, Paired!Pending, None
  <2> QED BY <2>1, <2>2 DEF Init, Paired!Init
<1>2. ASSUME IInv, IInv', FailuresAreEmpty', [Next]_vars PROVE [Paired!Next]_(Paired!vars)
  <2>2. CASE Harness
    BY <1>2, <2>2, HarnessQuiet, AssemblePublishes, LossAbandons DEF Harness, Paired!Next
  <2>3. CASE Answers
    BY <1>2, <2>3, MongoQuiet, OracleObserves DEF Answers, Paired!Next
  <2>4. CASE Interrupt
    BY <1>2, <2>4, LossAbandons DEF Paired!Next
  <2>5. CASE UNCHANGED vars
    BY <2>5 DEF vars, Paired!vars, Rounds, Reported, FailedRounds
  <2> QED BY <1>2, <2>2, <2>3, <2>4, <2>5 DEF Next
<1> QED BY <1>1, <1>2, Invariance, EmptyFailures, PTL
       DEF Spec, ImplementsPairedMeasurement, Paired!Spec

-------------------------------------------------------------------------------
(* Every run ends.                                                         *)

Ended == pc \in {"done", "lost"}

\* The rounds the loop has before it, and the steps of the runner and of the
\* engines: three a round, and those before and after the loop.
RoundsLeft == IF iter < TotalIters THEN TotalIters - iter ELSE 0
StepsLeft ==
  CASE pc = "explain_mongo"  -> 3 * RoundsLeft + 6
    [] pc = "explain_oracle" -> 3 * RoundsLeft + 5
    [] pc = "loop"           -> 3 * RoundsLeft + 4
    [] pc = "mongo_call"     -> 3 * RoundsLeft + 3
    [] pc = "oracle_call"    -> 3 * RoundsLeft + 2
    [] pc = "reduce"         -> 3
    [] pc = "monitor"        -> 2
    [] pc = "assemble"       -> 1
    [] OTHER                 -> 0

\* Rounds are numbers, and there is one left in a round.
LEMMA RoundsLeftType ==
  ASSUME IInv
  PROVE  /\ iter \in Nat /\ TotalIters \in Int /\ RoundsLeft \in Nat
         /\ pc \in {"mongo_call", "oracle_call"} => RoundsLeft > 0
         /\ StepsLeft \in Nat /\ (~Ended => StepsLeft > 0)
<1>1. iter \in Nat /\ TotalIters \in Int
  BY ConfigType DEF IInv, TypeOK, TotalIters
<1>2. RoundsLeft \in Nat /\ (iter < TotalIters => RoundsLeft > 0)
  BY <1>1 DEF RoundsLeft
<1>3. pc \in {"mongo_call", "oracle_call"} => RoundsLeft > 0
  BY <1>2 DEF IInv, LoopBounds
<1>4. pc \in PCs
  BY DEF IInv, TypeOK
<1> QED BY <1>1, <1>2, <1>3, <1>4 DEF StepsLeft, PCs, Ended

\* Every step brings the end closer, whatever raises in it: a call that fails is
\* not repeated, and neither is a capture.
LEMMA StepIsCloser ==
  ASSUME IInv, Next
  PROVE  StepsLeft' < StepsLeft /\ StepsLeft' \in Nat
<1>0. IInv'
  BY NextInvariant
<1>1. /\ iter \in Nat /\ TotalIters \in Int /\ RoundsLeft \in Nat
      /\ pc \in {"mongo_call", "oracle_call"} => RoundsLeft > 0
      /\ StepsLeft \in Nat /\ (~Ended => StepsLeft > 0)
  BY RoundsLeftType
<1>2. TotalIters' = TotalIters
  BY DEF Next, Harness, Answers, ExplainMongo, ExplainOracle, Explain, NextIteration, Reduce,
         CaptureMonitor, Assemble, MongoAnswers, OracleAnswers, TimeOne, Interrupt, TotalIters
<1>3. CASE ExplainMongo \/ ExplainOracle \/ NextIteration \/ MongoAnswers
  <2>1. RoundsLeft' = RoundsLeft
    BY <1>2, <1>3 DEF ExplainMongo, ExplainOracle, Explain, NextIteration, MongoAnswers, Loop, RoundsLeft
  <2> QED BY <1>1, <1>3, <2>1 DEF ExplainMongo, ExplainOracle, Explain, NextIteration,
              MongoAnswers, StepsLeft
<1>4. CASE OracleAnswers
  <2>1. iter' = iter + 1 /\ pc = "oracle_call" /\ pc' = "loop"
    BY <1>4 DEF OracleAnswers
  <2>2. iter < TotalIters
    BY <2>1 DEF IInv, LoopBounds
  <2>3. RoundsLeft' = RoundsLeft - 1 /\ RoundsLeft > 0
    BY <1>1, <1>2, <2>1, <2>2 DEF RoundsLeft
  <2> QED BY <1>1, <2>1, <2>3 DEF StepsLeft
<1>5. CASE Reduce \/ CaptureMonitor \/ Assemble
  BY <1>5 DEF Reduce, CaptureMonitor, Assemble, StepsLeft
<1>6. CASE Interrupt
  BY <1>1, <1>6 DEF Interrupt, StepsLeft, Ended
<1> QED BY <1>3, <1>4, <1>5, <1>6 DEF Next, Harness, Answers

\* No loop of the runner is endless: from any state of a run at most StepsLeft
\* steps follow, of the engines' answers and of interrupts among them.
THEOREM RunIsBounded == Spec => [][StepsLeft' < StepsLeft]_vars
<1>1. IInv /\ [Next]_vars => [StepsLeft' < StepsLeft]_vars
  BY StepIsCloser
<1> QED BY <1>1, Invariance, PTL DEF Spec

\* What holds of zero, and of n + 1 where it holds of n, holds of every number.
LEMMA Induction ==
  ASSUME NEW f, f[0], \A n \in Nat : f[n] => f[n + 1]
  PROVE  \A n \in Nat : f[n]
<1> DEFINE Counter == {n \in Nat : ~f[n]}
           R == OpToRel(<, Nat)
<1> SUFFICES ASSUME Counter # {} PROVE FALSE
  OBVIOUS
<1>1. IsWellFoundedOn(R, Nat)
  BY NatLessThanWellFounded
<1>2. \A a, b \in Nat : a < b => <<a, b>> \in R
  BY DEF OpToRel
<1>3. PICK n \in Counter : \A m \in Counter : ~(<<m, n>> \in R)
  <2>1. Counter \subseteq Nat
    OBVIOUS
  <2> HIDE DEF Counter, R
  <2> QED BY <1>1, <2>1, WFMin
<1> HIDE DEF R
<1>4. n # 0 /\ n \in Nat
  OBVIOUS
<1>5. n - 1 \in Nat /\ (n - 1) + 1 = n /\ n - 1 < n
  BY <1>4
<1>6. n - 1 \notin Counter
  <2> HIDE DEF Counter
  <2> QED BY <1>2, <1>3, <1>4, <1>5
<1> QED BY <1>5, <1>6

\* Says nothing: a step that says it of a function puts the function before the
\* provers, which look for the f of a table only among what is named to them.
IsTable(f) == TRUE

\* The runner's own steps are taken, and the engines answer every call.
Thinking == pc \in {"explain_mongo", "explain_oracle", "loop", "reduce", "monitor", "assemble"}
Calling  == pc \in {"mongo_call", "oracle_call"}
GoesOn ==
  /\ []<>~Thinking \/ []<><<Harness>>_vars
  /\ []<>~Calling \/ []<><<Answers>>_vars

\* A run with at most n steps left, and that it ends.
Near(n) == IInv /\ StepsLeft <= n
Ends(n) == Near(n) ~> Ended

\* The next step of a run with at most n + 1 steps left leaves it with n.
LEMMA OneStepMore ==
  ASSUME NEW n \in Nat
  PROVE  Spec /\ GoesOn /\ Ends(n) => Ends(n + 1)
<1>1. ASSUME Near(n + 1), Next PROVE Near(n)'
  BY <1>1, StepIsCloser, NextInvariant, RoundsLeftType DEF Near
<1>2. Near(n + 1) /\ Thinking /\ [Next]_vars => (Near(n + 1) /\ Thinking)' \/ Near(n)'
  BY <1>1, NextInvariant DEF Near, Thinking, vars, StepsLeft, RoundsLeft, TotalIters
<1>3. Near(n + 1) /\ Calling /\ [Next]_vars => (Near(n + 1) /\ Calling)' \/ Near(n)'
  BY <1>1, NextInvariant DEF Near, Calling, vars, StepsLeft, RoundsLeft, TotalIters
<1>4. Near(n + 1) /\ (<<Harness>>_vars \/ <<Answers>>_vars) => Near(n)'
  BY <1>1 DEF Next
<1>5. Near(n + 1) => Thinking \/ Calling \/ Ended
  BY DEF Near, IInv, TypeOK, PCs, Thinking, Calling, Ended
<1> QED BY <1>2, <1>3, <1>4, <1>5, PTL DEF Spec, GoesOn, Ends

\* With no step left the run has ended.
LEMMA NoStepLeft == Spec /\ GoesOn => Ends(0)
<1>1. Near(0) => Ended
  BY RoundsLeftType DEF Near
<1> QED BY <1>1, PTL DEF Ends

LEMMA EndsFromHere ==
  ASSUME NEW n \in Nat
  PROVE  Near(n) /\ Ends(n) => Terminates
<1> QED BY PTL DEF Ends, Terminates, Ended

\* When the engines answer every call, every run ends with its record or by an
\* exception, for any warm-up, any number of iterations, and whatever the engines
\* answer.
THEOREM RunsEnd == Spec /\ GoesOn => Terminates
<1> SUFFICES ASSUME Spec, GoesOn PROVE Terminates
  OBVIOUS
<1>1. \E f : IsTable(f) /\ \A n \in Nat : f[n] <=> Ends(n)
  <2>1. IsTable([n \in Nat |-> Ends(n)])
    BY DEF IsTable
  <2> QED BY <2>1
<1>2. PICK f : \A n \in Nat : f[n] <=> Ends(n)
  BY <1>1
<1>3. f[0] /\ \A n \in Nat : f[n] => f[n + 1]
  BY <1>2, NoStepLeft, OneStepMore
<1>4. \A n \in Nat : f[n]
  BY <1>3, Induction
<1>5. \E n \in Nat : Near(n)
  BY InitInvariant, RoundsLeftType DEF Spec, Near
<1> QED BY <1>2, <1>4, <1>5, EndsFromHere
================================================================================

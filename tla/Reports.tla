-------------------------------- MODULE Reports --------------------------------
(***************************************************************************)
(* What the three reports say about the records of a sweep:                *)
(* reporting/aggregate.py (one CSV row per record), cross_scenario.py (a   *)
(* row for the latest record of each variant, the extremes, the confirmed  *)
(* predictions) and html_dashboard.py (rows, tags and headline numbers).   *)
(*                                                                         *)
(* REPORT.md takes the latest record of a variant by the time stamp in it, *)
(* the dashboard by the modification time of its file.  The two differ     *)
(* when a run that was stamped earlier is written later, and in a copy of  *)
(* the directory.  Broken files are the subject of RecordStore.            *)
(***************************************************************************)
EXTENDS Metrics

CONSTANTS
  None,
  MongoTimes, OracleTimes,  \* what an execution may take
  MaxIterations,            \* bound: measured iterations of a run
  KeptRuns,                 \* bound: the runs that longer sweeps are made of
  MaxRecords,               \* bound: runs of a sweep
  TopSize                   \* rows of the tables of extremes (five)

ASSUME ReportsAssumption ==
  /\ MongoTimes \subseteq Nat /\ OracleTimes \subseteq Nat
  /\ MaxIterations \in Nat /\ MaxRecords \in Nat
  /\ TopSize \in Nat \ {0}

VARIABLES
  records,    \* the records made so far, in the order of their time stamps
  mtime,      \* results/raw: the modification time of every record's file
  measured,   \* history: the run the last record is of, until a report
  published   \* the reports, or None

vars == <<records, mtime, measured, published>>

\* A run of n rounds; the engines' failures are none or all of them.
RunsOf(variants, lengths, failures) ==
  UNION {[variant : variants, mongo : [1..n -> MongoTimes], oracle : [1..n -> OracleTimes],
          mongoErrors : {f * n : f \in failures}, oracleErrors : {f * n : f \in failures},
          match : IF n = 0 THEN {TRUE} ELSE BOOLEAN] : n \in lengths}

Runs == RunsOf(Variants, 0..MaxIterations, {0, 1})

ASSUME KeptRunsAssumption == KeptRuns \subseteq Runs

\* _assemble_record, what the reports read of it.
Record(run) ==
  [variant |-> run.variant, mongo |-> Summary(run.mongo).p50, oracle |-> Summary(run.oracle).p50,
   match |-> run.match, pass |-> Passes(run),
   observed |-> Observed(run, FirstPrediction(run.variant).metric)]

Files == DOMAIN mtime
SameVariant(i, j) == records[i].variant = records[j].variant

\* collect_latest_per_variant: the greatest time stamp.  Every record that is
\* written satisfies the schema and has a label.
LatestByTimestamp == {i \in Files : \A j \in Files : SameVariant(i, j) => j <= i}

\* One file of every variant, chosen by its modification time.
OneOfEach(rows) ==
  /\ rows \subseteq Files
  /\ \A i \in Files : \E j \in rows : SameVariant(i, j)
  /\ \A i, j \in rows : SameVariant(i, j) => i = j

LatestByFileTime_Oldest(rows) ==
  OneOfEach(rows) /\ \A i \in rows, j \in Files : SameVariant(i, j) => mtime[j] >= mtime[i]

\* _load_records: the greatest modification time; of equal ones the first that
\* the walk of the directory comes to, which may be any.
LatestByFileTime(rows) ==
  OneOfEach(rows) /\ \A i \in rows, j \in Files : SameVariant(i, j) => mtime[j] <= mtime[i]

\* _record_to_row of the CSV
CsvRatio(record) == IF record.oracle # 0 THEN <<record.mongo, record.oracle>> ELSE Infinite

\* ScenarioRow of REPORT.md
Ratio(record) == IF record.oracle > 0 THEN <<record.mongo, record.oracle>> ELSE Infinite
Finite(record) == Ratio(record) # Infinite

\* _ratio of the dashboard: zero where the others say infinite.
DashboardRatio(record) == IF record.oracle > 0 THEN <<record.mongo, record.oracle>> ELSE <<0, 1>>

Above(p, q) == p[1] * q[2] > q[1] * p[2]

Rank_Ascending(all, rows, i) ==
  Cardinality({j \in rows : \/ Above(Ratio(all[i]), Ratio(all[j]))
                            \/ ~Above(Ratio(all[j]), Ratio(all[i])) /\ j < i})

\* Place in sorted(..., reverse=True): the larger ratios and earlier ties.
Rank(all, rows, i) ==
  Cardinality({j \in rows : \/ Above(Ratio(all[j]), Ratio(all[i]))
                            \/ ~Above(Ratio(all[i]), Ratio(all[j])) /\ j < i})

\* render_report
Report(all, rows) ==
  LET finite == {i \in rows : Finite(all[i])}
  IN  [rows      |-> rows,
       matched   |-> Cardinality({i \in rows : all[i].match}),
       ratio     |-> [i \in rows |-> Ratio(all[i])],
       top       |-> {i \in finite : Rank(all, finite, i) < TopSize},
       bottom    |-> {i \in finite : Rank(all, finite, i) >= Cardinality(finite) - TopSize},
       confirmed |-> {i \in rows : all[i].pass}]

\* _EXPECTED_MISMATCH; none of its fragments is in another label of its scenario.
Designed ==
  {<<"S05", "base">>, <<"S05", "out">>, <<"S05", "merge">>, <<"S05", "rewrite-bucket">>,
   <<"S08", "B-facet">>, <<"S08", "B-bucketAuto">>, <<"S09", "C-facet-wrap">>,
   <<"S10", "C-top-n-facet">>}

\* _expected_mismatch_reason, _summary_row
Tag(record) ==
  CASE record.match -> "MATCH"
    [] ~record.match /\ record.variant \in Designed -> "expected"
    [] OTHER -> "MISMATCH"

\* render_dashboard
Dashboard(all, rows) ==
  [rows     |-> rows,
   ratio    |-> [i \in rows |-> DashboardRatio(all[i])],
   tag      |-> [i \in rows |-> Tag(all[i])],
   matches  |-> Cardinality({i \in rows : Tag(all[i]) = "MATCH"}),
   expected |-> Cardinality({i \in rows : Tag(all[i]) = "expected"}),
   wins     |-> Cardinality({i \in rows : AtLeast(DashboardRatio(all[i]), 15)}),
   peak     |-> {i \in rows : \A j \in rows :
                   ~Above(DashboardRatio(all[j]), DashboardRatio(all[i]))}]

-------------------------------------------------------------------------------
NoFiles == [i \in {} |-> 0]

Init == records = <<>> /\ mtime = NoFiles /\ measured = None /\ published = None

\* run_scenario, up to the record with its time stamp
Run ==
  /\ Len(records) < MaxRecords
  /\ records # <<>> => measured \in KeptRuns
  /\ \E run \in IF records = <<>> THEN Runs ELSE KeptRuns :
       /\ records' = Append(records, Record(run))
       /\ measured' = run
  /\ published' = None
  /\ UNCHANGED mtime

\* The drivers are closed and the record is written; its file is the newest.
\* Another run may have been stamped, and written, since.
Save(i) ==
  /\ i \in DOMAIN records \ Files
  /\ mtime' = [j \in Files \cup {i} |-> IF j = i THEN Cardinality(Files) + 1 ELSE mtime[j]]
  /\ published' = None
  /\ UNCHANGED <<records, measured>>

\* The operator copies the directory: all files get the time of the copy.
Restamp ==
  /\ mtime' = [i \in Files |-> 0]
  /\ published' = None
  /\ UNCHANGED <<records, measured>>

\* report aggregate, report all, report html
Publish ==
  /\ Files # {} /\ published = None
  /\ \E rows \in SUBSET Files :
       /\ LatestByFileTime(rows)
       /\ published' = [csv |-> [i \in Files |-> CsvRatio(records[i])],
                        report |-> Report(records, LatestByTimestamp),
                        dashboard |-> Dashboard(records, rows)]
  /\ UNCHANGED <<records, mtime, measured>>

Next == Run \/ (\E i \in DOMAIN records : Save(i)) \/ Restamp \/ Publish
Spec == Init /\ [][Next]_vars

-------------------------------------------------------------------------------
\* timing.py: the order statistics of every sample, of any size and in any
\* order, stand in their order, between its least and its greatest time.
PercentilesAreOrdered ==
  measured # None =>
    LET s == Summary(measured.mongo)
    IN  /\ s.min <= s.p50 /\ s.p50 <= s.p95 /\ s.p95 <= s.p99 /\ s.p99 <= s.max
        /\ 0 <= s.iqr /\ s.iqr <= s.max - s.min
        /\ measured.mongo # <<>> =>
             {s.min, s.max} \subseteq {100 * measured.mongo[i] : i \in DOMAIN measured.mongo}

\* timing.py:7 "inflates the mean while leaving the median stable": from three
\* measurements on, one of them may become as slow as it likes, and the median
\* stays among the others.
MedianIsRobust ==
  measured # None /\ Len(measured.mongo) >= 3 =>
    \A i \in DOMAIN measured.mongo :
      \E j \in DOMAIN measured.mongo \ {i} :
        Summary([measured.mongo EXCEPT ![i] = 1000000]).p50 <= 100 * measured.mongo[j]

\* A prediction that Mongo is at least so many times slower and that passed
\* still passes when any one of Mongo's measurements was slower.
SlowerMongoStillPasses ==
  /\ measured # None
  /\ measured.mongo # <<>> /\ Passes(measured)
  /\ FirstPrediction(measured.variant).metric = "ratio_mongo_to_oracle"
  /\ FirstPrediction(measured.variant).operator = ">="
  => \A i \in DOMAIN measured.mongo, t \in MongoTimes :
        t >= measured.mongo[i] => Passes([measured EXCEPT !.mongo[i] = t])

\* The prediction of every variant, but for those whose metric nothing computes,
\* is met by the samples of some runs of at least one round and not by others.
PredictionsAreFalsifiable ==
  records = <<>> =>
    \A variant \in Variants :
      \/ FirstPrediction(variant).metric \in
           {"mongo_has_spill", "mongo_stale_over_fresh", "oracle_with_histogram_speedup"}
      \/ LET runs == RunsOf({variant}, 1..MaxIterations, {0, 1})
         IN  (\E run \in runs : Passes(run)) /\ (\E run \in runs : ~Passes(run))

\* The files of every variant are as old as its records.
FilesFollowStamps ==
  \A i, j \in Files : SameVariant(i, j) /\ i < j => mtime[i] < mtime[j]

\* REPORT.md and the dashboard have one row for every variant with a file; when
\* files follow the stamps it is the same one, so that both count the same
\* matches, the dashboard's peak is the first of Oracle's wins in REPORT.md, and
\* the ratios, in the CSV too, are equal, but where Oracle's median is zero: the
\* dashboard has zero there, the others infinity.
ReportsAgree ==
  published # None =>
    LET csv == published.csv
        report == published.report
        dashboard == published.dashboard
    IN  /\ \A i \in Files : /\ Cardinality({j \in report.rows : SameVariant(i, j)}) = 1
                            /\ Cardinality({j \in dashboard.rows : SameVariant(i, j)}) = 1
        /\ FilesFollowStamps =>
             /\ report.rows = dashboard.rows /\ report.matched = dashboard.matches
             /\ report.top # {} => report.top \cap dashboard.peak # {}
             /\ \A i \in report.rows :
                  /\ csv[i] = report.ratio[i]
                  /\ dashboard.ratio[i] = report.ratio[i]
                     \/ (dashboard.ratio[i] = <<0, 1>> /\ report.ratio[i] = Infinite)

\* No row of the table of Oracle's largest wins has a smaller ratio than a row
\* with a finite one that is not in it, nor the other way round for Mongo's; a
\* row is in both only when there are too few rows to fill them.
ExtremesAreExtreme ==
  published # None =>
    LET report == published.report
        finite == {i \in report.rows : records[i].oracle > 0}
    IN  /\ \A i \in report.top, j \in finite \ report.top :
             ~Above(report.ratio[j], report.ratio[i])
        /\ \A i \in report.bottom, j \in finite \ report.bottom :
             ~Above(report.ratio[i], report.ratio[j])
        /\ report.top \cap report.bottom # {} => Cardinality(finite) < 2 * TopSize
        /\ (report.top = {} \/ report.bottom = {}) => finite = {}
================================================================================

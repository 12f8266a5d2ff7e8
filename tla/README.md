# A verification project for sbe-cte-bench

`sbe-cte-bench` measures the same workload on MongoDB (aggregation pipelines on
the SBE engine) and on Oracle (CTEs), checks that both engines return the same
result, and publishes the timings. What makes such a benchmark right is not its
arithmetic but its bookkeeping: which executions are in the sample, which rows
are compared, what the two databases hold when the clock starts, and which run a
report shows. The modules here state that, check it with TLC and prove part of it
with TLAPS. All paths below are relative to `src/sbe_cte_bench/` in the
repository unless they start with `docs/` or `tests/`.

## 1. The system

| Component | State it keeps | Operations | What is hard | What makes it correct |
|---|---|---|---|---|
| Scenario runner (`runner/scenario_runner.py`, `alternating.py`, `warmup.py`) | timings, error lists and last rows of each engine; plan captures; the record | explain capture, the alternating loop, split, verdict, prediction, SQL Monitor execution, record | an engine fails in one iteration and not in another; interrupts; degenerate loop bounds | the sample is the measured iterations, the verdict is about measured answers, errors are listed once with their phase, every run ends |
| Loaders (`data/load_mongo.py`, `load_oracle.py`, `cli.data_load`) | collections; tables; an open transaction | drop, create, bulk write, executemany, commit, indexes, statistics | no transaction spans the command; DDL commits; a crash anywhere; a repeated command on what is left; foreign-key order | success means the databases hold the directory; failures have a cause; tables are never half filled |
| Result equivalence (`equivalence/`) | none | canonicalize, sort, hash, compare, locate the first divergence | rounding, types that differ between drivers, multiplicity, two equalities (JSON text and Python `==`) | a match is no coincidence, equal results match, the pointer points at the first difference |
| Record store and report selection (`cli.run_scenario`, `reporting/aggregate.py`, `cross_scenario.py`, `html_dashboard.py`) | `results/raw/*.json` | write a record; select records for CSV, markdown and dashboard | files written in place, names with the resolution of a second, reports that run meanwhile, copies of the directory | no settled record is left out, no finished run is lost |
| Oracle driver (`drivers/oracle.py`) | a pool of 1 to 4 sessions, a transaction in each | acquire, query, stream, explain, SQL Monitor execution, statistics, close | an error at any call, statements that return no rows, waiting without a timeout, session numbers used again | a session comes back, once and clean; a hinted call's report is of its own execution, and no report is of a later one; every call returns |
| Preflight and `infra verify` (`drivers/mongo.py`, `drivers/oracle.py`, `cli.py`) | two status objects and a flag | eight questions, exit status | errors taken for answers; a mongod reconfigured between two questions | exit status 0 is earned, good engines get it |
| Timing (`runner/timing.py`) | none | percentile, summarize | small samples, interpolation | order statistics are ordered and inside the sample |
| Scenarios and predictions (`scenarios/`) | a registry | variants, pipelines, SQL, predictions | predictions about metrics nothing computes; one question in two languages; S14 writes | a prediction can pass and can fail; the two statements of a scenario ask the same |
| Generator (`data/generator.py`, `schema.py`) | nine files and a manifest | one pass per entity, then the files | references between entities, off-by-one in levels and strata, a crash between files, another generation over an old one | rows load in file order; graphs have the shape the queries rely on; a manifest is true of its files |
| Parsers (`observability/`) | none | explain, xplan, spill, Statspack, `/proc` | mixed SBE and classic stages | the boundary is the first classic stage after SBE |
| Report rendering (`reporting/`) | none | ratio, order, extremes, tags, headline counts, confirmed predictions | three programs, two ways to find the latest run of a variant and three ways to compute a ratio | when file times follow time stamps the reports agree; the extremes are the extremes |
| CLI catalogue, record schema, infrastructure | none | formatting, option parsing, set-up | | |

How they interact. `cli.data_load` calls the two loaders one after the other.
`cli.run_scenario` opens the two drivers and calls the runner; the runner calls
`aggregate`/`explain` of MongoDB and `query`/`explain_plan`/
`execute_with_sql_monitor` of Oracle, in one thread, alternating; after the loop
it calls `verify_equivalence` on the rows it kept and returns a record, which the
CLI writes to `results/raw`. The report commands are other processes that read
that directory. The loaders, the run commands and the reports share no lock: what
they share is the two databases and the directory.

## 2. The modules

| Module | Models | Kind |
|---|---|---|
| `ScenarioRunner` | one call of `run_scenario` | state machine, inductive invariant, refinement mapping |
| `PairedMeasurement` | what that call promises: paired rounds, and one report that is a function of the rounds, or none | abstract specification |
| `OracleSession` | `OracleBench`: the pool, its sessions and any sequence of calls | state machine |
| `WritePath` | S14 as the runner runs it, on top of `OracleSession` | composition |
| `Preflight` | `infra verify` question by question, an operator who reconfigures mongod | state machine |
| `DataLoad` | any sequence of `data load` commands with faults | state machine, inductive invariant |
| `WholeTables` | what the Oracle half promises: every table absent, empty or one whole file | abstract specification |
| `Generator` | the rows `generate()` draws, entity by entity | state machine over all draws |
| `OrgTraversal` | the two statements of each S07 organisation variant on the generated rows | composition of pure definitions with `Generator` |
| `GeneratedDirectory` | the files and the manifest of any sequence of `data generate` commands | state machine |
| `Equivalence` | one call of `verify_equivalence` | pure algorithm against a reference definition |
| `Metrics` | percentiles, metrics, the prediction of every variant | pure definitions |
| `RecordStore` | run commands, the directory and the reports, interleaved | state machine, inductive invariant |
| `Reports` | what the three reports say of the runs of a sweep and their files, on top of `Metrics` | state machine |
| `ScenarioRunnerProofs`, `OracleSessionProofs`, `PreflightProofs`, `DataLoadProofs`, `GeneratedDirectoryProofs`, `RecordStoreProofs` | the modules they are named after | theorems |
| `GeneratorProofs` | `Generator` and `OrgTraversal` | theorems |
| `RecordProofs` | what a record says: `Metrics`, `Reports` and `Equivalence` | theorems |
| `MC*` | the instances TLC checks | |

A definition whose name continues that of its neighbour after an underscore
(`KeepRows_OfFailures`) is a plausible fault of the definition it precedes. No
specification uses it; it is there to show that the property it names in
`PROJECT.json` notices it.

### ScenarioRunner

`pc` is the position in `run_scenario`: explain of each engine, the head of the
loop, the call to each engine, the reduction after the loop, the SQL Monitor
execution, the assembly of the record, and the two ends (`done`, and `lost` for an
exception that leaves without a record). `timings`, `errors` and `lastRows` are the
pairs of local variables of the same names. An engine's answer is an element of
`Outcomes`: rows or an exception, and a time. `outcome` is a history variable with
what really happened; the properties relate the code's lists to it.

A result set is represented by its class under `verify_equivalence`, so that the
verdict is an equality here and `Equivalence` says what the equality means. Times are
given by the engine; `Metrics` has the medians. Python's slices are
kept exactly, because `--warmup -1` is accepted by the command line and makes
`timings[-1:]` the sample; `--iterations` may be negative as well. The record here keeps the
measured list; the code keeps its median, repeated (section 3, disagreements). A prediction is evaluated on the two error rates, the metrics
that depend on the course of the loop. `_time_one`
catches `BaseException`, so an interrupt inside a timed call is an engine error; an
interrupt elsewhere loses the record (`Interrupt`).

The order explain, warm-up, measurement is that of the code. The head comment of
`scenario_runner.py` (line 8) and `docs/01-methodology.md` describe another one.

### OracleSession and WritePath

A method is the sequence of its calls to the server (`StepsOf`), each of which may raise
(`Raise`); `Acquire` and `Release` are the two ends of `acquire()`, `Release` with the
rollback python-oracledb makes when a connection goes back. `AcquireFails` is a pool that
cannot open a session, and `DropDead` a session whose server process is gone: the pool drops
it and opens another. `stream` is a generator and
keeps its connection until its caller is done with it (`EndStream`). `tx` is what a session
has written and not committed: `EXPLAIN PLAN` writes the plan table, MERGE the target,
and `DBMS_STATS` commits whatever its session holds. `monitored` is the server's memory
of the last monitored execution of a session number; it outlives the process (`Reopen`),
and an execution that was not hinted may be monitored all the same when it takes long.
The server's answer about rows is whether the statement returns any: `fetchall` after a MERGE
raises. `flush_shared_pool` and `flush_buffer_cache` are one operation, `flush`.
`close()` is possible only with all connections in the pool.

`WritePath` adds the rounds of S14: `$merge`, then `query(MERGE ...)`, then the
verdict on the last rows each side returned, which start as none. `SpecFaultless` leaves out
every error of the engines.

### Preflight

One action per question, in the order of the code, with the answers the configurations
allow; `OracleErrs` is a `DatabaseError` where the code takes one for an answer, and
`MongoRaises`/`OracleRaises` any exception it does not catch. Memory targets are zero or
not. The mongod may be reconfigured at any time. `changed` and `lost` are history: whether
it was since the command began, and which of its questions failed for no reason of
configuration. A scenario run asks none of these questions, so it is not part of the module.

### DataLoad

A step is one call to a database: a drop, a `bulk_write`, a `CREATE TABLE`, an
`executemany`, a commit. `Fail` may happen between any two; `BulkWriteFails` leaves an
arbitrary part of an unordered batch; `CommitUnanswered` is a commit whose answer is
lost; a drop may be refused and the refusal is suppressed, as `create_schema` does. `Run`
repeats the command with any directory and any `--target`, on whatever is there.
`pending` is the open transaction of the current table. Foreign keys and primary keys
are checked row by row, so the orders of drops, creations and loads and the two
passes over `categories` matter.

A row is its key and its references. Column conversions, Oracle indexes and statistics
change no row and are left out (the code passes over an index that cannot be created
in silence). A collection that does not exist is one without rows. The composite key of
`bom_edges` is one number. The boundary between root and child categories inside a
batch is abstracted. Files cut in the middle of a line are not modelled.

### Generator, OrgTraversal, GeneratedDirectory

`Generator` has one action per entity (per level of the bill of materials) in the order of
`generate()`. Every draw of the random generator is a choice, so the properties are about
all seeds. A row is its key, which is its line, and the keys it refers to. The sizes, the
number of customers at the end that are never rewired and the share that is rewired are
constants; the arithmetic of levels, managers and strata is that of the code.

`OrgTraversal` evaluates both statements of the `org` and `path` variants of S07:
`$graphLookup` by levels with a visited set and depths from the first match, `CONNECT BY
NOCYCLE` by paths with LEVEL from the root. The two external operators are defined from
how the scenario uses them.

`GeneratedDirectory` opens and closes each of nine files in place, then the manifest. A file
is of some arguments, whole or cut off. A crash may come between any two steps, and the
next command may have the same arguments or others. The digest of a file stands for the
arguments it was generated from: `generate` is a function of scale and seed.

### Equivalence

A value is its Python type and its content: integer, float, bool, null, Decimal, text (for
all types that are canonicalized to text), NaN, or an array of such values. Numbers
are scaled integers rounded half-even to `SigFigs` significant digits, ten in the code;
with two digits the steps between neighbours have the same structure in every decade
and a rounding step is reached by small numbers. Rounding beyond the largest float
leaves the number alone, as in the code. The order of JSON texts is given by the order of
their tokens. SHA-256 is taken as injective. Python's `sorted()` is given by what it returns: an
arrangement of the elements in which none comes before an earlier one. The walk that locates the first divergence
compares with Python's `==`, in which `True` is `1`, and reads fields with `row.get`. Nested
documents are not modelled.

The properties do not mention canonical forms: `MatchedRowsAreClose` and
`EqualRowsMatch` quantify over all ways to pair the rows. The two together
bound the verdict from both sides; between them lie the pairs of numbers that are
within the tolerance and on both sides of a rounding step.

### RecordStore, Metrics, Reports

A run command stamps its record, opens the file (which truncates it) and writes it;
it may crash between any two. A second command with the same file name may leave the
tail of a longer text, which is no JSON. A report takes the names in the directory
first and then reads file by file; the dashboard asks for the modification time in a
step of its own. A text that ends within a character ends the CSV and the markdown report
(`Abort`); the dashboard passes over it. `Restamp` is a copy of the directory, which gives every file a
new time. `seen` and `disturbed` are history: what was there when the report began,
and which names were touched since.

`Metrics` computes percentiles exactly, in hundredths of a time unit, and metrics
as fractions; the registry of `scenarios/` is a table from variants to first predictions, the
only ones the runner evaluates. `Reports` keeps the records of a sweep in the order of their
time stamps, and the modification times of their files: a file may be written (`Save`) after
that of a later run, and a copy of the directory gives all files one time (`Restamp`). REPORT.md
selects by time stamp (`LatestByTimestamp`), the dashboard by file (`LatestByFileTime`), and each
report has its own ratio (`CsvRatio`, `Ratio`, `DashboardRatio`), as in the code. What
the two selections differ in besides cannot occur with the files `run_scenario` writes: a
missing label is `""` for one and `default` for the other, and only one of them validates the schema.
Unreadable files are `RecordStore`'s subject.

## 3. What is checked

| Run | Shows | Bounds and why they are enough |
|---|---|---|
| `runner_loop` | types; alternation; which rows the verdict compares; the sample; the error lists; the runner implements `PairedMeasurement`; it terminates | warm-up and measured iterations from -1 to 2, three rounds in all or two after an explain capture (`MaxRounds`, `MaxExplainedRounds`), two result classes, two times: each phase has a first and a last iteration and one of them a middle one, each engine can fail in any subset of them, and the last successful answer may be from another iteration than the other engine's |
| `oracle_session` | no connection is lost or lent twice; nothing a call wrote outlives it; a hinted call's report is of its own execution and no report of a later one; every call returns | two sessions, four calls, one stream held: a call can wait for the second session while the first is streamed from, an error can come at each step of each method, and a session number is used by two processes |
| `preflight` | what exit status 0 means and who gets it | none: every configuration of both servers (8 and 128), calls that fail for no reason of configuration and reconfigurations at any step and as often as they like |
| `load_commands` | success means the directory; failure has a cause; tables whole; repeating loads | a complete directory, an older one without the optional files and one that stops after five files; batches of two and files of one to three rows, so a file has a full batch and a tail; two faults, so that a failed repair is repaired again |
| `generated_rows` | rows load in file order; referral cycles go through rewired customers; assemblies end in leaves; the statements of S07 agree | seven scales, each generous with some entities: three category levels, one and two rewired customers, organisations whose last level is full, partial and single, strata that rounding leaves over and takes too much from; depths one to four lie below, at and beyond the height of the trees |
| `generated_directory` | how long a manifest is true; a command that is not killed heals the directory | three argument pairs and two crashes: a killed generation over a killed one of other arguments, then a whole one |
| `equivalence_verdict` | what a match and a mismatch mean, that the pointer's row is the first that differs and that the field it names differs there | all pairs of 40 numbers around every rounding step, results of up to two rows from ten that look alike, bags of up to three rows |
| `record_store` | finished reports are complete, runs are on disk | three commands, two variants, seconds of two ticks: two commands share a name, or finish out of order, while the third or a report runs |
| `reporting` | order statistics are ordered; the median is robust; predictions are monotone and falsifiable; the reports agree; the extremes are extreme | samples of zero to three times of each engine with none or all failed, every variant of the registry; sweeps of three runs out of twelve (`KeptRuns`: two variants of different tags, either engine faster or nothing measured, match or not), written in any order, with copies in between: the selections agree and differ; tables of one row, which a sweep both overfills and underfills |

Runs that refute a sentence of the repository:

| Run | The sentence | What the code does |
|---|---|---|
| `doc_failed_iteration_null` | an iteration that fails counts as null (`docs/01-methodology.md`) | its time is in the sample |
| `doc_error_rate_of_measured` | an engine fails when at least 18 of the 20 iterations do (`docs/01-methodology.md:115`) | the failures of the warm-up are counted too, over the number of measured iterations (`runner/scenario_runner.py:213`, `:362`): S05's prediction of a rate of 0.9 passes with a failed warm-up and no failed measurement |
| `doc_write_path_target` | S14's equivalence is checked on the target collection (`scenarios/s14_write_path.py:16`) | without any error of the engines, MongoDB's target is written and Oracle's is not: `query()` executes the MERGE, its `fetchall` raises, and the release rolls back; both engines return no rows, and that matches |

Other disagreements between code and documentation, met while modelling and not
runs of their own:

* A run in which no engine ever answered is a match of `[]` with `[]`.
* `timings_ms` of a record is not the sample but its median, repeated as often as there are
  measurements (`runner/scenario_runner.py:490`, `:511`, `:543`); `docs/07-reporting.md:29` and
  `docs/06-instrumentation.md:255` show twenty values.
* `docs/scenarios/S14-write-path.md:67` commits the MERGE; the driver has no commit, and
  `NothingOutlivesItsCall` certifies that nothing a call writes is ever committed.
* A collection whose file is missing is not dropped: the rows of the directory
  loaded before stay (`data/load_mongo.py:57`, `:69`).
* A mismatch is not located when a key is missing on one side and null on the other,
  nor for `True` against `1`; floats within 1e-9 differ when they are on both sides of a rounding
  step.
* The dashboard's latest record of a variant is the one whose file was written last
  (`reporting/html_dashboard.py:44`), that of REPORT.md the one with the greatest time stamp: after a
  copy of the directory, or when a run that was stamped first is written last, they show
  different runs. `ReportsAgree` says when they must not.
* A record cut off within a character raises `UnicodeDecodeError`, which `reporting/aggregate.py:60`
  and `reporting/cross_scenario.py:55` do not catch: the report ends, although `aggregate.py:8`
  says that invalid records are skipped and that aggregation continues.
* `_inject_monitor_hint` leaves a statement that begins with `SELECT` and a line break alone,
  as S01's does (`drivers/oracle.py:250`; line 198 says the hint forces the execution to be
  recorded): the report is then of whatever the session had monitored before. `ReportIsOfOwnExecution`
  says of such a statement only that its report is of no later execution.
* A failed call to `v$instance` makes a plain Oracle an Autonomous Database, which needs no
  memory targets; `ExitZeroIsEarned` excepts commands that lost that very call, and
  servers that do not let the user read `v$instance`.
* A run against a misconfigured mongod should "fail fast and loudly" (`drivers/mongo.py:61`), but
  `run_scenario` calls no preflight and writes the literal `trySbeEngine` into the record
  (`runner/scenario_runner.py:485`), whatever the mongod is; no property of this
  project speaks of that field.
* Metrics named by the first predictions of S04 and three variants of S13 are computed by nothing, so these
  predictions never pass.
* With no measured iterations the ratio is infinite, passes every "at least" and is
  reported as confirmed (`reporting/cross_scenario.py:186`); the dashboard shows zero.
* "Bottom 5" lists the last five rows even when Oracle wins all of them.
* `WarmupSplit`'s flag of instability, the coefficient of variation and
  `iteration_timeout_s` are read by nothing.
* The docstring of `_gen_parts_and_bom` promises about 10% reuse across strata (`data/generator.py:487`); every
  component comes from the next stratum, which `AssembliesEndInLeaves` states.
* A rewired referral need not close a cycle (`data/generator.py:549`): `CyclesAreInjected` bounds the cycles
  from above and does not promise one. Besides, the variants of S12
  and S13 run identical statements, without concurrency.
* The default seed of `docs/03-*` is not that of the command line; the streams of the
  generator are `seed + k`, not spawned.

Deadlock is not checked where the system stops by itself: a finished run of the
runner, a verdict, a finished write path or verification, and a history of commands at its
bounds.

Fairness. `runner_loop` assumes that the runner takes its own steps (it is a
straight-line program in one thread) and that an engine answers every call; the second
is an assumption about the engines that nothing in the code enforces:
`iteration_timeout_s` is read by nothing. Interrupts have no fairness. `oracle_session`
assumes that a call in progress goes on: the pool hands out a session that is there, the
server answers or raises, and the `finally` of `acquire()` is run. Callers that hold a
stream have no fairness; what `CallsReturn` needs instead is their promise to hold fewer
streams than the pool has sessions (`MaxStreams`), because the pool waits without a
timeout. `load_commands` and `generated_directory`
assume only that a running command goes on. Nobody is obliged to repeat a command, and
`RetryLoads` and `RegenerationHeals` speak of one that was started after the last fault.

## 4. What is proved

All theorems hold for every value of the constants under the assumptions named in
the modules.

* `ScenarioRunnerProofs`: types, alternation, error lists, the verdict, the sample, the SQL
  Monitor rule. The properties about the record are not inductive:
  the record is computed
  from `result`, which is computed from lists that by themselves say nothing about what
  happened. `IInv` therefore ties the chain together: the lists to the history
  (`TimesOfOutcomes`, `RowsForVerdict`, `ErrorsAreTheFailures`), the result to the lists
  (`ResultOfLists`), the record to the result (`RecordOfResult`), and the loop to its
  bounds (`LoopBounds`).
  `Refinement`: for all loop bounds, negative ones too, `run_scenario` implements
  `PairedMeasurement`. A round is finished when Oracle answers; all other steps of the
  loop map to stutters, the assembly to `Publish`, an interrupt or an unwritable report file to
  `Abandon`. The core is that at the assembly the code's three lists are the functions of the
  rounds the abstract report has (`SampleOfRounds`, `FailuresOfRounds`,
  `LastRowsOfRounds`).
  `RunIsBounded`: each step of a run comes closer to its end, which is `Terminates` without the
  engines; `RunsEnd`: if they answer, the run ends.
* `OracleSessionProofs`: types, the pool, isolation, SQL Monitor reports. `IInv` adds that
  only the session of a call or of a stream has anything uncommitted, and that of a
  statistics call nothing (`Clean`; this is why the commit of
  `DBMS_STATS` publishes nothing), that from its execution on, a hinted call's own
  execution is the last monitored one of its session (`Own`), and that nothing monitored is
  ahead of the last execution (`Behind`). `WaitersAreServed`: because
  callers hold fewer streams than there are sessions, a call that waits finds an idle session or
  room for a new one; `EveryCallReturns` follows.
* `PreflightProofs`: the two properties of the run. The invariant says, per question, what
  the status object knows of mongod unless it changed meanwhile (`MongoFound`), that it knows
  nothing of Oracle that is not so unless a call failed (`OracleFound`), and that good engines
  are not found wanting on the way (`GoodFound`).
* `DataLoadProofs`: types, both properties of success, why a command fails, and the refinement
  of `WholeTables`.
  `IInv` says what each loop has done when it is at its n-th element: before `table`, the
  tables created so far are empty; in `table`, exactly those before the current one hold
  their file and the transaction holds a prefix of the next. The orders are constants of
  the code, so the lemmas that each one visits every table once come first.
  `FailuresHaveCauses` assumes directories whose keys are unique and whose references
  resolve (`WellFormed`; `MCDataLoad` evaluates it on its directories). `CauseInv` adds that
  a failed batch, an increasing selection of rows behind the prefix that was sent,
  leaves no key twice (`PartOfBatch`), and that without a fault what is dropped is gone until
  it is created again; then the orders alone give that each `CREATE TABLE` and each batch
  finds the tables it refers to, and finds them filled (`ReferencesGoBack`, `BatchAccepted`).
  `LoadIsBounded`: each step of a command lessens the turns its loops have left, counted with
  the longest file, plus the rows of the current one. `CommandHasNextStep`: a running command is
  never without a step. `RetriesLoad`: a command started after the last fault loads its
  directory, if that is `WellFormed`.
* `GeneratedDirectoryProofs`: types and how long a manifest is true. The invariant says which
  files the running command has passed or opened and that the digests are of them
  (`Progress`), and that a manifest is of one command, as are all files when no other one was
  started since (`ManifestOfOne`). `RegenerationHealsDirectory`: a command that is started after
  the last crash leaves all files and the manifest to its arguments.
* `GeneratorProofs`: types, rows load in file order, referral cycles, assemblies, and the
  agreement of the S07 statements. `IInv` says of each entity that has been
  generated what its rows refer to: earlier categories, earlier employees,
  earlier customers unless rewired, parts of the next stratum (`CategoriesOK`, `EmployeesOK`,
  `CustomersOK`, `ReferralsOK`, `BomOK`), and that what comes later is still empty
  (`AheadEmpty`). The recursive functions of the model (sizes of levels, reachable
  parts, paths) are opened one argument at a time, and the inductions over levels and
  lengths are arguments by the least counterexample (`NatInd`), as the induction theorems of
  the library cannot be cited. `CyclesInjected`: a cycle goes up somewhere, only rewired
  customers refer upwards, and different cycles share no customer, so there are at most as many
  cycles as rewired customers. `SameAnswers`: everyone has one manager and an earlier one, so
  each employee lies on one level of the search and at the end of one path; a visited set
  and a check for repetition along the path then leave out nothing, and level and length are
  the same number. `CountsAssumption` is about the arguments, `StrataAssumption` about
  the sizes of the strata; `MCGenerator` evaluates both for its scales, and the second
  also for the sizes the program really uses (`ProgramStrata`).
* `RecordStoreProofs`: reports are complete and finished runs are on disk. `IInv` says that a
  settled file is as the report found it, and that each settled file the report has passed
  is in its rows or in its hand; and that a file a command has opened holds its text or is
  shared.
* `RecordProofs`, on what reports say: percentiles are ordered and inside the sample, the
  median of three or more stays among the others when one becomes as slow as it likes, predictions
  of "at least" are monotone in MongoDB's times, when the reports agree, and that the extremes are the extremes. Order
  statistics are handled by counting: how many elements lie below a value, rather than how
  sorting gets there. `IInv` says that each record was measured, that times are of files and files of
  records, and that what is published is of the files that are there. `OneStory`: both
  selections take one file of every variant, and the same one when file times follow the
  stamps (`SelectionsAgree`); the first of the finite ratios has nothing before it
  (`FirstRow`) and is the dashboard's peak. `PredictionsFalsifiable`: each prediction that can be evaluated is met
  by some timings and failed by others, by times that are named in the proof; `Telling` asks
  that the sampled times hold those few numbers and that three measurements are allowed, as in
  the run `reporting`.
* `RecordProofs`, on what a verdict means: the four properties of `Equivalence`, for rows of any
  columns and values, any precision and any largest float. A match is close because rounding
  moves a number by at most half a unit and a unit is at most the number times the tolerance
  (`Tens` is positive and grows). Equal results match because no JSON text of a value is the
  beginning of another, so that rows are totally ordered; a sorted arrangement exists
  (`Selection`) and two of them have the same row at each place (`Crowding`, by the
  pigeonhole principle). The pointer is first because where two sorted walks part, the smaller
  of the two rows is the least one the engines return a different number of times (`Parting`,
  `Leading`). `EquivalenceAssumption` says that fields come once and in order, that
  different canonical scalars have different JSON texts, and that rows are made of scalars and
  arrays of scalars; `MCEquivalence` evaluates it on its calls.

`LoadAssumption` says that the rows selected for a table form a sequence. It follows from
the type of the files, but the selection of root categories is `SelectSeq`, about
which the provers know nothing; TLC evaluates the assumption on the instance.

Liveness. The four properties of what must happen (`Terminates`, `CallsReturn`, `RetryLoads`,
`RegenerationHeals`) are proved of `Spec /\ GoesOn`, where TLC checks them of `FairSpec`.
`GoesOn` says what the fairness conditions of `FairSpec` say, with the place of the program where
a step is due in the place of ENABLED: either the program is again and again not there, or the
step is taken again and again. The two agree because a step that is due is possible:
for the loaders and the pool, where this is not seen from the actions, it is what
`CommandHasNextStep` and `WaitersAreServed` say. The arguments go by the number of steps left,
which the constants do not bound. As the induction theorems of the library cannot be cited and a
statement such as "from n steps left the run ends" is temporal, it is made the n-th value of a
function; the lemma `Induction` finds the least n where the function is not true.

Only model-checked:

* the properties of what must happen under `FairSpec` as it is written, with WF_ and the ENABLED
  inside, which these provers do not know;
* the three refuted sentences, which are counterexamples, and that the assumptions on the constants
  hold of the instances.

## 5. What is not modelled, and the plan

Open: a composition of `GeneratedDirectory` with `DataLoad`: the directories a killed
generation leaves are loaded without a look at the manifest.

Left out for good: markup, prose and charts of the reports (`markdown.py`, `plot.py` and the
HTML); option parsing and the catalogue; the parsers in `observability/`, each a function of
one text whose result no decision reads, three of them called by nothing; the pipelines and
SQL statements other than S07's traversals and S14's writes, which are input of the
engines; the record schema, which is declarations; the set-up scripts.

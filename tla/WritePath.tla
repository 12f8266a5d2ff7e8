------------------------------- MODULE WritePath -------------------------------
(***************************************************************************)
(* Scenario S14 on top of OracleSession: rounds of $merge and MERGE INTO   *)
(* as run_scenario makes them, and the verdict it reaches.                 *)
(*                                                                         *)
(* The cursor of a pipeline that ends in $merge is empty.  The runner      *)
(* keeps, per engine, the rows of the last answer that did not raise, none *)
(* at first, and those are what it compares; warm-up rounds are left out.  *)
(***************************************************************************)
EXTENDS OracleSession

CONSTANT MaxRounds  \* bound: rounds of the runner

VARIABLES
  round,        \* rounds begun
  turn,         \* whose turn it is, or "verdict" or "done"
  mongoTarget,  \* customer_summary in MongoDB: was it merged into
  lastRows,     \* per engine, the rows of its last answer
  errors,       \* Oracle's executions that raised
  match         \* the verdict

run == <<round, turn, mongoTarget, lastRows, errors, match>>
allVars == <<vars, run>>

InitRun ==
  /\ Init
  /\ round = 1 /\ turn = "mongo"
  /\ mongoTarget = {} /\ errors = 0 /\ match = FALSE
  /\ lastRows = [mongo |-> <<>>, oracle |-> <<>>]

\* mongo.aggregate of a pipeline that ends in $merge.
MongoMerges ==
  /\ turn = "mongo" /\ call = None
  /\ turn' = "oracle"
  /\ mongoTarget' = {"target"}
  /\ lastRows' = [lastRows EXCEPT !.mongo = <<>>]
  /\ UNCHANGED <<vars, round, errors, match>>

\* An aggregation that raises may have merged nothing.
MongoRaises ==
  /\ turn = "mongo" /\ call = None
  /\ turn' = "oracle"
  /\ UNCHANGED <<vars, round, mongoTarget, lastRows, errors, match>>

\* oracle.query(MERGE INTO ...), timed by _time_one.
OracleMerges ==
  /\ turn = "oracle"
  /\ Call("query", "MERGE blank")
  /\ turn' = "wait"
  /\ UNCHANGED <<round, mongoTarget, lastRows, errors, match>>

\* The rows that query() returns when its fetchall has not raised.
RowsOf(sql) == IF Returns(sql) THEN <<"row">> ELSE <<>>

OracleAnswered ==
  /\ turn = "wait" /\ answer # None
  /\ IF answer.outcome = "raised"
     THEN errors' = errors + 1 /\ UNCHANGED lastRows
     ELSE lastRows' = [lastRows EXCEPT !.oracle = RowsOf(answer.sql)] /\ UNCHANGED errors
  /\ IF round < MaxRounds THEN round' = round + 1 /\ turn' = "mongo"
                          ELSE round' = round /\ turn' = "verdict"
  /\ UNCHANGED <<vars, mongoTarget, match>>

\* verify_equivalence of the last rows.
Verdict ==
  /\ turn = "verdict"
  /\ turn' = "done" /\ match' = (lastRows.mongo = lastRows.oracle)
  /\ UNCHANGED <<vars, round, mongoTarget, lastRows, errors>>

\* Other calls come before the rounds and after them.
Otherwise ==
  /\ \/ turn \in {"mongo", "done"} /\ Next
     \/ turn = "wait" /\ (Acquire \/ AcquireFails \/ DropDead \/ Server \/ Release)
  /\ UNCHANGED run

NextRun == MongoMerges \/ MongoRaises \/ OracleMerges \/ OracleAnswered \/ Verdict \/ Otherwise

SpecRun == InitRun /\ [][NextRun]_allVars
FairSpecRun ==
  /\ SpecRun
  /\ WF_allVars(Acquire /\ UNCHANGED run) /\ WF_allVars(Server /\ UNCHANGED run)
  /\ WF_allVars(Release /\ UNCHANGED run)

\* The same rounds on servers that answer, pools that serve and no other caller:
\* nothing raises but the fetchall of a statement that has no rows.
NextFaultless ==
  \/ MongoMerges \/ OracleMerges \/ OracleAnswered \/ Verdict
  \/ turn = "wait" /\ (Acquire \/ Execute \/ Fetch \/ Release) /\ UNCHANGED run

SpecFaultless == InitRun /\ [][NextFaultless]_allVars

-------------------------------------------------------------------------------
(* What the documentation says and the code does not do.                   *)

\* s14_write_path.py:16: "equivalence is checked on the target collection state":
\* a match says that both targets were written alike.  S14-write-path.md:67 ends
\* the MERGE with COMMIT.
MatchComparesTheTargets ==
  turn = "done" /\ match => mongoTarget = committed
================================================================================

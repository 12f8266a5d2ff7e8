----------------------------- MODULE OracleSession -----------------------------
(***************************************************************************)
(* drivers/oracle.py, class OracleBench: a pool of sessions and the calls  *)
(* of one thread on it.  Every method takes a connection from the pool,    *)
(* which may raise, makes its calls to the server, each of which may raise *)
(* too, and gives the connection back, which rolls back what it did not    *)
(* commit.  stream() keeps its connection while the caller holds the       *)
(* generator.                                                              *)
(*                                                                         *)
(* A statement is known by how its text begins; what the server remembers  *)
(* of a session (its last monitored execution) outlives the process.       *)
(***************************************************************************)
EXTENDS Naturals, Sequences, FiniteSets

CONSTANTS
  Connections,  \* the sessions the pool may open at a time (four)
  None,
  MaxCalls,     \* bound: calls over the whole history
  MaxStreams    \* what callers promise: generators held at a time

ASSUME PoolAssumption ==
  /\ IsFiniteSet(Connections)
  /\ None \notin Connections
  /\ MaxCalls \in Nat
  /\ MaxStreams \in Nat /\ MaxStreams < Cardinality(Connections)

\* How the SQL of a call begins, as far as the hint is placed by it: in S06 and
\* S07, in S01, in the other scenarios, in S14.
Statements == {"SELECT blank", "SELECT newline", "WITH blank", "MERGE blank"}
Returns(sql) == sql # "MERGE blank"

\* The calls to the server that each method makes, in order.
StepsOf ==
  [op \in {"query", "stream", "explain_plan", "display_cursor", "execute_with_sql_monitor",
           "flush", "gather_table_stats"} |->
     CASE op = "execute_with_sql_monitor" ->
            <<"set_module", "sid", "execute", "fetch", "report">>
       [] op \in {"flush", "gather_table_stats"} -> <<"execute">>
       [] OTHER -> <<"execute", "fetch">>]
Ops == DOMAIN StepsOf

\* The methods that run the statement itself.
Runs(op) == op \in {"query", "stream", "execute_with_sql_monitor"}

\* A call: what it is, its session, the step it is at, the execution it made
\* and the one its report shows; and what its caller is left with.
Calls == [op : Ops, sql : Statements, conn : Connections \cup {None}, at : 1..6,
          outcome : {"running", "raised"}, own : Nat, shown : Nat]
Answers == [op : Ops, sql : Statements, outcome : {"ok", "raised"}, own : Nat, shown : Nat]

ASSUME NoneAssumption == None \notin Calls \cup Answers

-------------------------------------------------------------------------------
VARIABLES
  opened,      \* sessions of the pool
  idle,        \* those in it
  call,        \* the call in progress, or None
  streams,     \* sessions held by generators
  tx,          \* what each session has written and not committed
  committed,   \* what sessions committed
  monitored,   \* per session, its last monitored execution (0: none)
  executions,  \* number of the last execution
  answer,      \* what the last call came to, or None
  calls        \* calls so far

pool == <<opened, idle, streams>>
server == <<tx, committed, monitored, executions>>
vars == <<pool, call, server, answer, calls>>

Init ==
  /\ \E c \in Connections : opened = {c} /\ idle = {c}
  /\ call = None /\ streams = {}
  /\ tx = [c \in Connections |-> {}] /\ committed = {}
  /\ monitored = [c \in Connections |-> 0] /\ executions = 0
  /\ answer = None /\ calls = 0

\* A method is called; POOL_GETMODE_WAIT: it waits for a connection.
Call(op, sql) ==
  /\ call = None /\ calls < MaxCalls
  /\ op = "stream" => Cardinality(streams) < MaxStreams
  /\ call' = [op |-> op, sql |-> sql, conn |-> None, at |-> 1, outcome |-> "running",
              own |-> 0, shown |-> 0]
  /\ calls' = calls + 1
  /\ answer' = None
  /\ UNCHANGED <<pool, server>>

Waiting == call # None /\ call.conn = None

Returned(outcome) ==
  /\ call' = None
  /\ answer' = [op |-> call.op, sql |-> call.sql, outcome |-> outcome,
                own |-> call.own, shown |-> call.shown]

\* The pool gives an idle session, or opens one while it may.
Acquire ==
  /\ Waiting
  /\ \E c \in Connections :
       /\ IF idle # {} THEN c \in idle ELSE c \notin opened
       /\ opened' = opened \cup {c}
       /\ idle' = idle \ {c}
       /\ call' = [call EXCEPT !.conn = c]
  /\ UNCHANGED <<streams, server, answer, calls>>

\* pool.acquire raises: no session can be had, and none was taken.
AcquireFails ==
  /\ Waiting
  /\ Returned("raised")
  /\ UNCHANGED <<pool, server, calls>>

\* Asked for a session, the pool finds an idle one dead and drops it.
DropDead ==
  /\ Waiting
  /\ \E c \in idle : opened' = opened \ {c} /\ idle' = idle \ {c}
  /\ UNCHANGED <<streams, call, server, answer, calls>>

Running(step) ==
  /\ call # None /\ call.conn # None /\ call.outcome = "running"
  /\ call.at <= Len(StepsOf[call.op])
  /\ StepsOf[call.op][call.at] = step

Hinted_SelectOnly(sql) == sql = "SELECT blank"

\* _inject_monitor_hint: the hint goes behind a leading "SELECT " or into the
\* first SELECT of a leading "WITH "; any other text is left alone.
Hinted(sql) == sql \in {"SELECT blank", "WITH blank"}

\* A hinted execution is monitored; any other one is when it takes long.
Execute ==
  /\ Running("execute")
  /\ call' = [call EXCEPT !.at = @ + 1, !.own = IF Runs(call.op) THEN executions + 1 ELSE 0]
  /\ IF Runs(call.op)
     THEN /\ executions' = executions + 1
          /\ \E long \in BOOLEAN :
               monitored' = [monitored EXCEPT ![call.conn] =
                 IF long \/ (call.op = "execute_with_sql_monitor" /\ Hinted(call.sql))
                 THEN executions + 1 ELSE @]
     ELSE UNCHANGED <<executions, monitored>>
  /\ CASE call.op = "gather_table_stats" ->
            /\ committed' = committed \cup tx[call.conn]
            /\ tx' = [tx EXCEPT ![call.conn] = {}]
       [] call.op = "explain_plan" ->
            tx' = [tx EXCEPT ![call.conn] = @ \cup {"plan"}] /\ UNCHANGED committed
       [] Runs(call.op) /\ ~Returns(call.sql) ->
            tx' = [tx EXCEPT ![call.conn] = @ \cup {"target"}] /\ UNCHANGED committed
       [] OTHER -> UNCHANGED <<tx, committed>>
  /\ UNCHANGED <<pool, answer, calls>>

\* fetchall and fetchmany raise after a statement that returns no rows.
Fetch ==
  /\ Running("fetch")
  /\ call' = IF Runs(call.op) /\ ~Returns(call.sql)
             THEN [call EXCEPT !.outcome = "raised"]
             ELSE [call EXCEPT !.at = @ + 1]
  /\ UNCHANGED <<pool, server, answer, calls>>

SetModule ==
  /\ Running("set_module") \/ Running("sid")
  /\ call' = [call EXCEPT !.at = @ + 1]
  /\ UNCHANGED <<pool, server, answer, calls>>

\* REPORT_SQL_MONITOR of the session's SID: its last monitored execution.
Report ==
  /\ Running("report")
  /\ call' = [call EXCEPT !.at = @ + 1, !.shown = monitored[call.conn]]
  /\ UNCHANGED <<pool, server, answer, calls>>

\* A call to the server raises.
Raise ==
  /\ \E step \in {"set_module", "sid", "execute", "fetch", "report"} : Running(step)
  /\ call' = [call EXCEPT !.outcome = "raised"]
  /\ UNCHANGED <<pool, server, answer, calls>>

GiveBack_WithoutRollback(c) ==
  /\ idle' = idle \cup {c}
  /\ UNCHANGED <<opened, tx>>

\* pool.release rolls back.
GiveBack(c) ==
  /\ idle' = idle \cup {c}
  /\ tx' = [tx EXCEPT ![c] = {}]
  /\ UNCHANGED opened

Over == call # None /\ call.conn # None /\
        (call.outcome = "raised" \/ call.at > Len(StepsOf[call.op]))

Release_OnSuccess ==
  /\ Over
  /\ IF call.outcome = "raised" \/ call.op = "stream"
     THEN UNCHANGED <<idle, tx, opened>> ELSE GiveBack(call.conn)
  /\ streams' = IF call.op = "stream" THEN streams \cup {call.conn} ELSE streams
  /\ Returned(IF call.outcome = "raised" THEN "raised" ELSE "ok")
  /\ UNCHANGED <<committed, monitored, executions, calls>>

\* The `finally` of acquire(); a stream that has begun keeps its session.
Release ==
  /\ Over
  /\ IF call.op = "stream" /\ call.outcome # "raised"
     THEN streams' = streams \cup {call.conn} /\ UNCHANGED <<idle, tx, opened>>
     ELSE GiveBack(call.conn) /\ UNCHANGED streams
  /\ Returned(IF call.outcome = "raised" THEN "raised" ELSE "ok")
  /\ UNCHANGED <<committed, monitored, executions, calls>>

\* A generator is exhausted, raises, or is closed by its caller.
EndStream ==
  /\ call = None
  /\ \E c \in streams : GiveBack(c) /\ streams' = streams \ {c}
  /\ UNCHANGED <<call, committed, monitored, executions, answer, calls>>

Reopen_UnderStreams ==
  /\ call = None /\ calls < MaxCalls
  /\ \E c \in Connections : opened' = {c} /\ idle' = {c}
  /\ answer' = None
  /\ UNCHANGED <<streams, call, server, calls>>

\* close(), which a pool with a session out of it refuses: the process ends, and
\* a later one opens a pool of one session, whose SID may have been used before.
Reopen ==
  /\ call = None /\ streams = {} /\ calls < MaxCalls
  /\ \E c \in Connections : opened' = {c} /\ idle' = {c}
  /\ answer' = None
  /\ UNCHANGED <<streams, call, server, calls>>

Server == Execute \/ Fetch \/ SetModule \/ Report \/ Raise
Next ==
  \/ \E op \in Ops, sql \in Statements : Call(op, sql)
  \/ Acquire \/ AcquireFails \/ DropDead \/ Server \/ Release \/ EndStream \/ Reopen

Spec == Init /\ [][Next]_vars
FairSpec == Spec /\ WF_vars(Acquire) /\ WF_vars(Server) /\ WF_vars(Release)

-------------------------------------------------------------------------------
TypeOK ==
  /\ opened \subseteq Connections /\ idle \subseteq opened /\ streams \subseteq opened
  /\ call \in Calls \cup {None}
  /\ tx \in [Connections -> SUBSET {"plan", "target"}]
  /\ committed \subseteq {"plan", "target"}
  /\ monitored \in [Connections -> Nat] /\ executions \in Nat
  /\ answer \in Answers \cup {None}
  /\ calls \in 0..MaxCalls

Held == streams \cup IF call = None \/ call.conn = None THEN {} ELSE {call.conn}

\* Whatever raised in whatever call, the sessions that are not in the pool are
\* exactly those of the call in progress and of the generators still held, none
\* of them twice: no path through a method loses a connection or lends one to
\* two users.
NoConnectionIsLost ==
  /\ opened \ idle = Held
  /\ call # None /\ call.conn # None => call.conn \notin streams

\* A connection that comes out of the pool brings no transaction of an earlier
\* caller, and nothing a caller of these methods writes is ever committed, not
\* even by the statistics call, which commits the session it runs in.
NothingOutlivesItsCall ==
  /\ \A c \in idle : tx[c] = {}
  /\ committed = {}

\* A SQL Monitor report that was returned for a text that takes the hint shows
\* the execution that was made for it, although it is asked for by session
\* number and the session, of this process or an earlier one, has executed
\* others.  For a text that does not take it (S01's), this is not so: the report
\* may be missing or show an earlier execution of the session, never a later.
ReportIsOfOwnExecution ==
  answer # None /\ answer.op = "execute_with_sql_monitor" /\ answer.outcome = "ok" =>
    /\ answer.shown <= answer.own
    /\ answer.sql \in {"SELECT blank", "WITH blank"} => answer.shown = answer.own

\* While callers keep their promise on generators, a call that waits for a
\* connection without a timeout gets one, and every call comes to an end.
CallsReturn == (call # None) ~> (call = None)
================================================================================

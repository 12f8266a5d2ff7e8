-------------------------- MODULE OracleSessionProofs --------------------------
(***************************************************************************)
(* Proofs about OracleSession, for every pool and every history of calls.  *)
(*                                                                         *)
(* The invariant adds to the properties what they need to be inductive: a  *)
(* session that nobody holds carries no transaction, whether it is in the  *)
(* pool or not open yet; and a monitored call past its execution has the   *)
(* session's last monitored execution for its own.  For the texts without  *)
(* a hint, a second invariant puts what is monitored, and so what a report *)
(* shows, behind the last execution, which is the call's own.              *)
(***************************************************************************)
EXTENDS OracleSession, FiniteSetTheorems, TLAPS

\* Sessions nobody holds have nothing to be committed, and the statistics call
\* commits nothing.
Clean ==
  /\ \A c \in Connections \ Held : tx[c] = {}
  /\ call # None /\ call.conn # None /\ call.op = "gather_table_stats" => tx[call.conn] = {}
  /\ committed = {}

\* A monitored call of a statement that takes the hint.
HintedCall ==
  /\ call # None /\ call.op = "execute_with_sql_monitor"
  /\ call.sql \in {"SELECT blank", "WITH blank"}

\* Its execution is the last monitored one of its session.
Own ==
  HintedCall =>
    /\ call.at > 1 => call.conn # None
    /\ call.at > 3 => monitored[call.conn] = call.own
    /\ call.at > 5 => call.shown = call.own

\* ReportIsOfOwnExecution for the texts that take the hint.
HintedReportIsOwn ==
  /\ answer # None
  /\ answer.op = "execute_with_sql_monitor" /\ answer.outcome = "ok"
  /\ answer.sql \in {"SELECT blank", "WITH blank"}
  => answer.shown = answer.own

IInv == TypeOK /\ NoConnectionIsLost /\ Clean /\ Own /\ HintedReportIsOwn

-------------------------------------------------------------------------------
\* A method has one to five steps; the monitored one executes in its third and
\* reports in its fifth.
LEMMA StepsAre ==
  ASSUME NEW op \in Ops
  PROVE  /\ Len(StepsOf[op]) \in 1..5
         /\ op = "execute_with_sql_monitor" =>
              /\ Len(StepsOf[op]) = 5
              /\ \A i \in 1..5 : /\ StepsOf[op][i] = "execute" <=> i = 3
                                 /\ StepsOf[op][i] = "report" <=> i = 5
<1>1. CASE op = "execute_with_sql_monitor"
  BY <1>1 DEF StepsOf, Ops
<1>2. CASE op \in {"flush", "gather_table_stats"}
  BY <1>2 DEF StepsOf, Ops
<1>3. CASE op \notin {"execute_with_sql_monitor", "flush", "gather_table_stats"}
  BY <1>3 DEF StepsOf, Ops
<1> QED BY <1>1, <1>2, <1>3

\* The first state.
LEMMA InitIInv == Init => IInv
<1> SUFFICES ASSUME Init PROVE IInv
  OBVIOUS
<1>1. PICK c \in Connections : opened = {c} /\ idle = {c}
  BY DEF Init
<1>2. TypeOK
  BY <1>1, PoolAssumption DEF Init, TypeOK
<1>3. NoConnectionIsLost /\ Clean
  BY <1>1 DEF Init, NoConnectionIsLost, Held, Clean
<1>4. Own /\ HintedReportIsOwn
  BY DEF Init, Own, HintedCall, HintedReportIsOwn
<1> QED BY <1>2, <1>3, <1>4 DEF IInv

\* A call begins: it holds nothing yet.
LEMMA CallStep ==
  ASSUME IInv, NEW op \in Ops, NEW sql \in Statements, Call(op, sql)
  PROVE  IInv'
<1> USE DEF IInv, Call, pool, server
<1>1. call' \in Calls /\ call' # None /\ call'.op = op /\ call'.conn = None /\ call'.at = 1
  BY NoneAssumption DEF Calls
<1>2. Held' = Held
  BY <1>1 DEF Held
<1>3. TypeOK'
  BY <1>1, PoolAssumption DEF TypeOK
<1>4. NoConnectionIsLost'
  BY <1>1, <1>2 DEF NoConnectionIsLost
<1>5. Clean'
  BY <1>1, <1>2 DEF Clean
<1>6. Own'
  <2>1. ~(call'.at > 1) /\ ~(call'.at > 3) /\ ~(call'.at > 5)
    BY <1>1
  <2> QED BY <2>1 DEF Own, HintedCall
<1>7. HintedReportIsOwn'
  BY DEF HintedReportIsOwn
<1> QED BY <1>3, <1>4, <1>5, <1>6, <1>7

\* A session comes out of the pool, or is opened, with no transaction.
LEMMA AcquireStep == IInv /\ Acquire => IInv'
<1> SUFFICES ASSUME IInv, Acquire PROVE IInv'
  OBVIOUS
<1> USE DEF IInv, Acquire, Waiting, server
<1>1. PICK c \in Connections :
        /\ c \in idle \/ c \notin opened
        /\ opened' = opened \cup {c} /\ idle' = idle \ {c}
        /\ call' = [call EXCEPT !.conn = c]
  OBVIOUS
<1>2. /\ call \in Calls /\ call' \in Calls /\ call' # None /\ call'.conn = c /\ c # None
      /\ call'.op = call.op /\ call'.sql = call.sql /\ call'.at = call.at
      /\ call'.own = call.own /\ call'.shown = call.shown
  BY <1>1, NoneAssumption, PoolAssumption DEF TypeOK, Calls
<1>3. c \notin Held /\ Held = streams /\ Held' = Held \cup {c}
  BY <1>1, <1>2 DEF Held, NoConnectionIsLost, TypeOK
<1>4. TypeOK'
  BY <1>1, <1>2 DEF TypeOK
<1>5. NoConnectionIsLost'
  BY <1>1, <1>2, <1>3 DEF NoConnectionIsLost, TypeOK
<1>6. Clean'
  BY <1>2, <1>3 DEF Clean
<1>7. Own'
  <2> SUFFICES ASSUME HintedCall' PROVE ~(call'.at > 1) /\ ~(call'.at > 3) /\ ~(call'.at > 5)
    BY DEF Own
  <2>1. ~(call.at > 1) /\ call.at \in 1..6
    BY <1>2 DEF Own, HintedCall, Calls
  <2> QED BY <1>2, <2>1
<1>8. HintedReportIsOwn'
  BY DEF HintedReportIsOwn
<1> QED BY <1>4, <1>5, <1>6, <1>7, <1>8

\* pool.acquire raises: the call held nothing, and its answer is no report.
LEMMA AcquireFailsStep == IInv /\ AcquireFails => IInv'
<1> SUFFICES ASSUME IInv, AcquireFails PROVE IInv'
  OBVIOUS
<1>1. /\ call \in Calls /\ call # None /\ call.conn = None /\ call' = None
      /\ UNCHANGED <<opened, idle, streams, tx, committed, monitored, executions, calls>>
      /\ answer' = [op |-> call.op, sql |-> call.sql, outcome |-> "raised",
                    own |-> call.own, shown |-> call.shown]
  BY DEF IInv, TypeOK, AcquireFails, Waiting, Returned, pool, server
<1>2. answer' \in Answers
  BY <1>1 DEF Calls, Answers
<1>3. Held' = Held
  BY <1>1 DEF Held
<1>4. TypeOK'
  BY <1>1, <1>2 DEF IInv, TypeOK
<1>5. NoConnectionIsLost' /\ Clean'
  BY <1>1, <1>3 DEF IInv, NoConnectionIsLost, Clean
<1>6. Own' /\ HintedReportIsOwn'
  BY <1>1 DEF Own, HintedCall, HintedReportIsOwn
<1> QED BY <1>4, <1>5, <1>6 DEF IInv

\* A dead session leaves the pool; nobody held it.
LEMMA DropDeadStep == IInv /\ DropDead => IInv' /\ call' = call /\ streams' = streams
<1> SUFFICES ASSUME IInv, DropDead PROVE IInv' /\ call' = call /\ streams' = streams
  OBVIOUS
<1>1. PICK c \in idle : opened' = opened \ {c} /\ idle' = idle \ {c}
  BY DEF DropDead
<1>2. /\ call # None /\ call.conn = None
      /\ UNCHANGED <<streams, call, tx, committed, monitored, executions, answer, calls>>
  BY DEF DropDead, Waiting, server
<1>3. Held' = Held /\ Held = streams
  BY <1>2 DEF Held
<1>4. opened' \ idle' = opened \ idle /\ streams \subseteq opened'
  BY <1>1, <1>3 DEF IInv, NoConnectionIsLost
<1>5. TypeOK'
  BY <1>1, <1>2, <1>4 DEF IInv, TypeOK
<1>6. NoConnectionIsLost' /\ Clean'
  BY <1>2, <1>3, <1>4 DEF IInv, NoConnectionIsLost, Clean
<1>7. Own' /\ HintedReportIsOwn'
  BY <1>2 DEF IInv, Own, HintedCall, HintedReportIsOwn
<1> QED BY <1>2, <1>5, <1>6, <1>7 DEF IInv

\* A step of the server leaves the session with the call.
LEMMA CallKeepsSession ==
  ASSUME IInv, call # None, call' \in Calls, call'.conn = call.conn, UNCHANGED pool
  PROVE  Held' = Held /\ NoConnectionIsLost'
<1>1. call' # None
  BY NoneAssumption
<1>2. Held' = Held
  BY <1>1 DEF Held, pool
<1> QED BY <1>1, <1>2 DEF IInv, NoConnectionIsLost, pool

\* A step of a method is one of a call that has a connection and steps left.
LEMMA RunningCall ==
  ASSUME IInv, NEW step, Running(step)
  PROVE  /\ call \in Calls /\ call # None /\ call.conn \in Connections /\ call.conn # None
         /\ call.op \in Ops /\ call.at \in 1..5 /\ call.own \in Nat /\ monitored[call.conn] \in Nat
<1>1. call \in Calls /\ call # None /\ call.conn \in Connections /\ call.conn # None
  BY PoolAssumption DEF IInv, Running, TypeOK, Calls
<1>2. call.op \in Ops /\ call.at \in 1..6 /\ call.own \in Nat
  BY ONLY <1>1 DEF Calls
<1>3. call.at \in 1..5
  <2>1. Len(StepsOf[call.op]) \in 1..5
    BY ONLY <1>2, StepsAre
  <2>2. call.at <= Len(StepsOf[call.op])
    BY DEF Running
  <2>3. ASSUME NEW at \in 1..6, NEW last \in 1..5, at <= last
        PROVE  at \in 1..5
    BY ONLY <2>3
  <2> QED BY ONLY <1>2, <2>1, <2>2, <2>3
<1>4. monitored[call.conn] \in Nat
  BY <1>1 DEF IInv, TypeOK
<1> QED BY <1>1, <1>2, <1>3, <1>4

\* The statement is executed: the statistics call commits nothing, for its
\* session came clean, and a hinted statement becomes the last monitored one.
LEMMA ExecuteStep == IInv /\ Execute => IInv' /\ call' # None
<1> SUFFICES ASSUME IInv, Execute PROVE IInv' /\ call' # None
  OBVIOUS
<1> USE DEF IInv
<1>1. /\ call \in Calls /\ call # None /\ call.conn \in Connections /\ call.conn # None
      /\ call.op \in Ops /\ call.at \in 1..5 /\ StepsOf[call.op][call.at] = "execute"
      /\ executions \in Nat /\ UNCHANGED pool /\ UNCHANGED <<answer, calls>>
  <2>1. Running("execute")
    BY DEF Execute
  <2>2. StepsOf[call.op][call.at] = "execute" /\ executions \in Nat
    BY <2>1 DEF Running, TypeOK
  <2>3. UNCHANGED pool /\ UNCHANGED <<answer, calls>>
    BY DEF Execute
  <2> QED BY <2>1, <2>2, <2>3, RunningCall
<1>2. call' = [call EXCEPT !.at = @ + 1, !.own = IF Runs(call.op) THEN executions + 1 ELSE 0]
  BY DEF Execute
<1>3. /\ call' \in Calls /\ call' # None /\ call'.conn = call.conn /\ call'.op = call.op
      /\ call'.sql = call.sql /\ call'.at = call.at + 1
      /\ Runs(call.op) => call'.own = executions + 1
  <2> DEFINE own == IF Runs(call.op) THEN executions + 1 ELSE 0
  <2>1. own \in Nat /\ call.at + 1 \in 1..6
    BY <1>1
  <2>2. call' = [call EXCEPT !.at = call.at + 1, !.own = own]
    BY <1>1, <1>2 DEF Calls
  <2>3. Runs(call.op) => own = executions + 1
    OBVIOUS
  <2> HIDE DEF own
  <2> QED BY <1>1, <2>1, <2>2, <2>3, NoneAssumption DEF Calls
<1>4. Held' = Held /\ NoConnectionIsLost' /\ call.conn \in Held
  BY <1>1, <1>3, CallKeepsSession DEF Held
<1>5. /\ tx' \in [Connections -> SUBSET {"plan", "target"}]
      /\ \A c \in Connections \ {call.conn} : tx'[c] = tx[c]
      /\ call.op = "gather_table_stats" => tx'[call.conn] = {}
      /\ committed' = {}
  <2>1. CASE call.op = "gather_table_stats"
    <3>1. tx' = [tx EXCEPT ![call.conn] = {}] /\ committed' = committed \cup tx[call.conn]
      BY <2>1 DEF Execute, Runs
    <3>2. tx[call.conn] = {} /\ committed = {}
      BY <1>1, <2>1 DEF Clean
    <3> QED BY <1>1, <3>1, <3>2 DEF TypeOK
  <2>2. CASE call.op = "explain_plan"
    BY <1>1, <2>2 DEF Execute, TypeOK, Clean
  <2>3. CASE Runs(call.op) /\ ~Returns(call.sql)
    BY <1>1, <2>3 DEF Execute, TypeOK, Clean, Runs
  <2>4. CASE /\ call.op \notin {"gather_table_stats", "explain_plan"}
             /\ ~(Runs(call.op) /\ ~Returns(call.sql))
    BY <1>1, <2>4 DEF Execute, TypeOK, Clean
  <2> QED BY <2>1, <2>2, <2>3, <2>4
<1>6. Clean'
  BY <1>1, <1>3, <1>4, <1>5 DEF Clean
<1>7. /\ executions' \in Nat /\ monitored' \in [Connections -> Nat]
      /\ HintedCall => monitored'[call.conn] = executions + 1
  <2>1. CASE Runs(call.op)
    <3>1. executions' = executions + 1
      BY <2>1 DEF Execute
    <3>2. PICK long \in BOOLEAN :
            monitored' = [monitored EXCEPT ![call.conn] =
              IF long \/ (call.op = "execute_with_sql_monitor" /\ Hinted(call.sql))
              THEN executions + 1 ELSE @]
      BY <2>1 DEF Execute
    <3>3. executions + 1 \in Nat /\ monitored \in [Connections -> Nat]
      BY <1>1 DEF TypeOK
    <3>4. HintedCall => Hinted(call.sql) /\ call.op = "execute_with_sql_monitor"
      BY DEF Hinted, HintedCall
    <3>5. CASE long \/ (call.op = "execute_with_sql_monitor" /\ Hinted(call.sql))
      BY <1>1, <3>1, <3>2, <3>3, <3>5
    <3>6. CASE ~(long \/ (call.op = "execute_with_sql_monitor" /\ Hinted(call.sql)))
      BY <1>1, <3>1, <3>2, <3>3, <3>4, <3>6
    <3> QED BY <3>5, <3>6
  <2>2. CASE ~Runs(call.op)
    BY <1>1, <2>2 DEF Execute, TypeOK, Runs, HintedCall
  <2> QED BY <2>1, <2>2
<1>8. TypeOK'
  BY <1>1, <1>3, <1>5, <1>7 DEF TypeOK, pool
<1>9. Own'
  <2> SUFFICES ASSUME HintedCall'
               PROVE  /\ call'.conn # None /\ monitored'[call'.conn] = call'.own
                      /\ ~(call'.at > 5)
    BY DEF Own
  <2>1. HintedCall /\ Runs(call.op) /\ call.at = 3
    BY <1>1, <1>3, StepsAre DEF HintedCall, Runs
  <2> QED BY <1>1, <1>3, <1>7, <2>1
<1>10. HintedReportIsOwn'
  BY <1>1 DEF HintedReportIsOwn
<1> QED BY <1>3, <1>4, <1>6, <1>8, <1>9, <1>10

\* The other steps of the server change the call only, and a report that is
\* read shows what the session executed last.
LEMMA CallOnlyStep ==
  ASSUME IInv, UNCHANGED <<pool, server, answer, calls>>,
         call \in Calls, call # None, call' \in Calls, call'.conn = call.conn,
         call'.op = call.op, call'.sql = call.sql, Own'
  PROVE  IInv'
<1> USE DEF IInv
<1>1. Held' = Held /\ NoConnectionIsLost'
  BY CallKeepsSession
<1>2. TypeOK'
  BY DEF TypeOK, pool, server
<1>3. Clean'
  BY <1>1 DEF Clean, server
<1>4. HintedReportIsOwn'
  BY DEF HintedReportIsOwn
<1> QED BY <1>1, <1>2, <1>3, <1>4

LEMMA OtherServerStep ==
  IInv /\ (Fetch \/ SetModule \/ Report \/ Raise) => IInv' /\ call' # None
<1> SUFFICES ASSUME IInv, Fetch \/ SetModule \/ Report \/ Raise PROVE IInv' /\ call' # None
  OBVIOUS
<1>1. /\ call \in Calls /\ call # None /\ call.conn \in Connections /\ call.conn # None
      /\ call.op \in Ops /\ call.at \in 1..5 /\ call.own \in Nat /\ monitored[call.conn] \in Nat
      /\ UNCHANGED <<pool, server, answer, calls>>
  <2>1. PICK step \in {"set_module", "sid", "execute", "fetch", "report"} : Running(step)
    BY DEF Fetch, SetModule, Report, Raise
  <2>2. UNCHANGED <<pool, server, answer, calls>>
    BY DEF Fetch, SetModule, Report, Raise
  <2> QED BY <2>1, <2>2, RunningCall
<1>2. CASE Raise \/ (Fetch /\ call' = [call EXCEPT !.outcome = "raised"])
  <2>1. call' = [call EXCEPT !.outcome = "raised"]
    BY <1>2 DEF Raise
  <2>2. /\ call' \in Calls /\ call' # None /\ call'.conn = call.conn /\ call'.op = call.op
        /\ call'.sql = call.sql /\ call'.at = call.at
        /\ call'.own = call.own /\ call'.shown = call.shown
    BY <1>1, <2>1, NoneAssumption DEF Calls
  <2>3. Own'
    BY <1>1, <2>2 DEF IInv, Own, HintedCall, server
  <2> QED BY <1>1, <2>2, <2>3, CallOnlyStep
<1>3. CASE SetModule \/ (Fetch /\ call' = [call EXCEPT !.at = @ + 1])
  <2>1. call' = [call EXCEPT !.at = @ + 1]
    BY <1>3 DEF SetModule
  <2>2. /\ call' \in Calls /\ call' # None /\ call'.conn = call.conn /\ call'.op = call.op
        /\ call'.sql = call.sql /\ call'.at = call.at + 1
        /\ call'.own = call.own /\ call'.shown = call.shown
    BY <1>1, <2>1, NoneAssumption DEF Calls
  <2>3. StepsOf[call.op][call.at] \notin {"execute", "report"}
    BY <1>3 DEF SetModule, Fetch, Running
  <2>4. Own'
    <3> SUFFICES ASSUME HintedCall'
                 PROVE  /\ call'.conn # None
                        /\ call'.at > 3 => monitored'[call'.conn] = call'.own
                        /\ ~(call'.at > 5)
      BY DEF Own
    <3>1. HintedCall /\ call.at \in 1..5 \ {3, 5}
      BY <1>1, <2>2, <2>3, StepsAre DEF HintedCall
    <3>2. ~(call'.at > 5) /\ (call'.at > 3 => call.at > 3)
      BY <2>2, <3>1
    <3> QED BY <1>1, <2>2, <3>1, <3>2 DEF IInv, Own, server
  <2> QED BY <1>1, <2>2, <2>4, CallOnlyStep
<1>4. CASE Report
  <2>1. call' = [call EXCEPT !.at = @ + 1, !.shown = monitored[call.conn]]
    BY <1>4 DEF Report
  <2>2. /\ call' \in Calls /\ call' # None /\ call'.conn = call.conn /\ call'.op = call.op
        /\ call'.sql = call.sql /\ call'.at = call.at + 1
        /\ call'.own = call.own /\ call'.shown = monitored[call.conn]
    <3> DEFINE shown == monitored[call.conn]
    <3>1. shown \in Nat /\ call.at + 1 \in 1..6
      BY <1>1
    <3>2. call' = [call EXCEPT !.at = call.at + 1, !.shown = shown]
      BY <1>1, <2>1 DEF Calls
    <3>3. shown = monitored[call.conn]
      OBVIOUS
    <3> HIDE DEF shown
    <3> QED BY <1>1, <3>1, <3>2, <3>3, NoneAssumption DEF Calls
  <2>3. StepsOf[call.op][call.at] = "report"
    BY <1>4 DEF Report, Running
  <2>4. Own'
    <3> SUFFICES ASSUME HintedCall'
                 PROVE  /\ call'.conn # None
                        /\ monitored'[call'.conn] = call'.own
                        /\ call'.shown = call'.own
      BY DEF Own
    <3>1. HintedCall /\ call.at = 5
      BY <1>1, <2>2, <2>3, StepsAre DEF HintedCall
    <3>2. monitored[call.conn] = call.own
      BY <3>1 DEF IInv, Own
    <3> QED BY <1>1, <2>2, <3>1, <3>2 DEF server
  <2> QED BY <1>1, <2>2, <2>4, CallOnlyStep
<1> QED BY <1>2, <1>3, <1>4 DEF Fetch

\* A connection that goes back is nobody's any more, and it is rolled back.
LEMMA GiveBackFacts ==
  ASSUME IInv, NEW c \in Connections, c \in Held, GiveBack(c), Held' = Held \ {c}
  PROVE  /\ opened' \subseteq Connections /\ idle' \subseteq opened'
         /\ tx' \in [Connections -> SUBSET {"plan", "target"}]
         /\ opened' \ idle' = Held' /\ UNCHANGED opened
         /\ \A d \in Connections \ Held' : tx'[d] = {}
<1>1. tx \in [Connections -> SUBSET {"plan", "target"}] /\ c \in opened
  BY DEF IInv, TypeOK, NoConnectionIsLost
<1>2. tx' = [tx EXCEPT ![c] = {}] /\ idle' = idle \cup {c} /\ opened' = opened
  BY DEF GiveBack
<1>3. tx' \in [Connections -> SUBSET {"plan", "target"}] /\ \A d \in Connections \ Held' : tx'[d] = {}
  BY <1>1, <1>2 DEF IInv, Clean
<1> QED BY <1>1, <1>2, <1>3 DEF IInv, TypeOK, NoConnectionIsLost

\* A method ends: its session goes back, or stays with its generator.
LEMMA ReleaseStep == IInv /\ Release => IInv'
<1> SUFFICES ASSUME IInv, Release PROVE IInv'
  OBVIOUS
<1>1. /\ call \in Calls /\ call # None /\ call.conn \in Connections /\ call.conn # None
      /\ call' = None /\ UNCHANGED <<committed, monitored, executions, calls>>
  BY PoolAssumption DEF IInv, TypeOK, Calls, Release, Over, Returned
<1>2. /\ Held = streams \cup {call.conn} /\ call.conn \notin streams /\ Held' = streams'
  BY <1>1 DEF Held, IInv, NoConnectionIsLost
<1>3. PICK outcome \in {"ok", "raised"} :
        /\ answer' = [op |-> call.op, sql |-> call.sql, outcome |-> outcome,
                      own |-> call.own, shown |-> call.shown]
        /\ outcome = "ok" => call.outcome # "raised"
  BY DEF Release, Returned
<1>4. answer' \in Answers /\ answer' # None
  <2>1. answer' \in Answers
    BY <1>1, <1>3 DEF Calls, Answers
  <2> QED BY <2>1, NoneAssumption
<1>5. HintedReportIsOwn'
  <2> SUFFICES ASSUME answer'.op = "execute_with_sql_monitor", answer'.outcome = "ok",
                      answer'.sql \in {"SELECT blank", "WITH blank"}
               PROVE  answer'.shown = answer'.own
    BY DEF HintedReportIsOwn
  <2>1. HintedCall /\ call.outcome # "raised"
    BY <1>1, <1>3 DEF HintedCall
  <2>2. call.at > 5
    <3>1. call.at > Len(StepsOf[call.op]) /\ call.op \in Ops /\ call.at \in 1..6
      BY <1>1, <2>1 DEF Release, Over, Calls
    <3>2. Len(StepsOf[call.op]) = 5
      BY <2>1, <3>1, StepsAre DEF HintedCall
    <3> QED BY <3>1, <3>2
  <2>3. call.shown = call.own
    BY <2>1, <2>2 DEF IInv, Own
  <2> QED BY <1>3, <2>3
<1>6. Own'
  BY <1>1 DEF Own, HintedCall
<1>7. CASE call.op = "stream" /\ call.outcome # "raised"
  <2>1. streams' = streams \cup {call.conn} /\ UNCHANGED <<idle, tx, opened>>
    BY <1>7 DEF Release
  <2>2. Held' = Held
    BY <1>2, <2>1
  <2>3. TypeOK'
    BY <1>1, <1>2, <1>4, <2>1 DEF IInv, TypeOK, NoConnectionIsLost
  <2>4. NoConnectionIsLost' /\ Clean'
    BY <1>1, <2>1, <2>2 DEF IInv, NoConnectionIsLost, Clean
  <2> QED BY <1>5, <1>6, <2>3, <2>4 DEF IInv
<1>8. CASE ~(call.op = "stream" /\ call.outcome # "raised")
  <2>1. GiveBack(call.conn) /\ UNCHANGED streams
    BY <1>8 DEF Release
  <2>2. Held' = Held \ {call.conn} /\ call.conn \in Held
    BY <1>2, <2>1
  <2>3. /\ opened' \subseteq Connections /\ idle' \subseteq opened'
        /\ tx' \in [Connections -> SUBSET {"plan", "target"}]
        /\ opened' \ idle' = Held' /\ UNCHANGED opened
        /\ \A d \in Connections \ Held' : tx'[d] = {}
    BY <1>1, <2>1, <2>2, GiveBackFacts
  <2>4. TypeOK'
    BY <1>1, <1>4, <2>1, <2>3 DEF IInv, TypeOK
  <2>5. NoConnectionIsLost' /\ Clean'
    BY <1>1, <2>3 DEF IInv, NoConnectionIsLost, Clean
  <2> QED BY <1>5, <1>6, <2>4, <2>5 DEF IInv
<1> QED BY <1>7, <1>8

\* A generator ends.
LEMMA EndStreamStep == IInv /\ EndStream => IInv'
<1> SUFFICES ASSUME IInv, EndStream PROVE IInv'
  OBVIOUS
<1>1. PICK c \in streams : GiveBack(c) /\ streams' = streams \ {c}
  BY DEF EndStream
<1>2. c \in Connections /\ call = None /\ UNCHANGED <<call, committed, monitored, executions, answer, calls>>
  BY <1>1 DEF IInv, TypeOK, EndStream
<1>3. Held = streams /\ Held' = Held \ {c} /\ c \in Held
  BY <1>1, <1>2 DEF Held
<1>4. /\ opened' \subseteq Connections /\ idle' \subseteq opened'
      /\ tx' \in [Connections -> SUBSET {"plan", "target"}]
      /\ opened' \ idle' = Held' /\ UNCHANGED opened
      /\ \A d \in Connections \ Held' : tx'[d] = {}
  BY <1>1, <1>2, <1>3, GiveBackFacts
<1>5. TypeOK'
  BY <1>1, <1>2, <1>4 DEF IInv, TypeOK
<1>6. NoConnectionIsLost' /\ Clean'
  BY <1>2, <1>4 DEF IInv, NoConnectionIsLost, Clean
<1>7. Own' /\ HintedReportIsOwn'
  BY <1>2 DEF IInv, Own, HintedCall, HintedReportIsOwn
<1> QED BY <1>5, <1>6, <1>7 DEF IInv

\* A new process: nobody held a session, so none carries a transaction.
LEMMA ReopenStep == IInv /\ Reopen => IInv'
<1> SUFFICES ASSUME IInv, Reopen PROVE IInv'
  OBVIOUS
<1>1. PICK c \in Connections : opened' = {c} /\ idle' = {c}
  BY DEF Reopen
<1>2. /\ call = None /\ streams = {} /\ answer' = None
      /\ UNCHANGED <<streams, call, tx, committed, monitored, executions, calls>>
  BY DEF Reopen, server
<1>3. Held = {} /\ Held' = {}
  BY <1>2 DEF Held
<1>4. TypeOK'
  BY <1>1, <1>2 DEF IInv, TypeOK
<1>5. NoConnectionIsLost' /\ Clean'
  BY <1>1, <1>2, <1>3 DEF IInv, NoConnectionIsLost, Clean
<1>6. Own' /\ HintedReportIsOwn'
  BY <1>2 DEF IInv, Own, HintedCall, HintedReportIsOwn
<1> QED BY <1>4, <1>5, <1>6 DEF IInv

\* A step that changes nothing.
LEMMA StutterStep == IInv /\ UNCHANGED vars => IInv'
<1> SUFFICES ASSUME IInv, UNCHANGED vars PROVE IInv'
  OBVIOUS
<1>1. /\ UNCHANGED <<opened, idle, streams, call>>
      /\ UNCHANGED <<tx, committed, monitored, executions, answer, calls>>
  BY DEF vars, pool, server
<1>2. Held' = Held
  BY <1>1 DEF Held
<1>3. TypeOK' /\ NoConnectionIsLost' /\ Clean'
  BY <1>1, <1>2 DEF IInv, TypeOK, NoConnectionIsLost, Clean
<1>4. Own' /\ HintedReportIsOwn'
  BY <1>1 DEF IInv, Own, HintedCall, HintedReportIsOwn
<1> QED BY <1>3, <1>4 DEF IInv

\* No step disturbs the invariant.
LEMMA SessionStep == IInv /\ [Next]_vars => IInv'
<1> SUFFICES ASSUME IInv, [Next]_vars PROVE IInv'
  OBVIOUS
<1>1. CASE \E op \in Ops, sql \in Statements : Call(op, sql)
  BY <1>1, CallStep
<1>2. CASE Acquire \/ AcquireFails \/ DropDead
  BY <1>2, AcquireStep, AcquireFailsStep, DropDeadStep
<1>3. CASE Server
  BY <1>3, ExecuteStep, OtherServerStep DEF Server
<1>4. CASE Release \/ EndStream \/ Reopen
  BY <1>4, ReleaseStep, EndStreamStep, ReopenStep
<1>5. CASE UNCHANGED vars
  BY <1>5, StutterStep
<1> QED BY <1>1, <1>2, <1>3, <1>4, <1>5 DEF Next

\* The inductive invariant, whatever raises in whatever call.
THEOREM SessionInvariance == Spec => []IInv
<1> QED BY SessionStep, InitIInv, PTL DEF Spec

\* Every variable of the pool, of the call and of the server keeps its type.
THEOREM SessionTypeCorrect == Spec => []TypeOK
<1>1. IInv => TypeOK
  BY DEF IInv
<1> QED BY <1>1, SessionInvariance, PTL

\* Whatever raises in whatever method, its connection is neither lost nor lent
\* to two users.
THEOREM PoolIsWhole == Spec => []NoConnectionIsLost
<1>1. IInv => NoConnectionIsLost
  BY DEF IInv
<1> QED BY <1>1, SessionInvariance, PTL

\* No call finds an open transaction of another one, and nothing is committed.
THEOREM CallsAreIsolated == Spec => []NothingOutlivesItsCall
<1>1. IInv => NothingOutlivesItsCall
  BY DEF IInv, TypeOK, NoConnectionIsLost, Clean, NothingOutlivesItsCall
<1> QED BY <1>1, SessionInvariance, PTL

-------------------------------------------------------------------------------
\* A call of the monitored method.
MonitorCall == call # None /\ call.op = "execute_with_sql_monitor"

\* What sessions remember is behind the last execution, which is the one of the
\* monitored call that has made it; and so is what its report shows.
Behind ==
  /\ \A c \in Connections : monitored[c] <= executions
  /\ MonitorCall => /\ call.at > 3 => call.own = executions
                    /\ call.at > 5 => call.shown <= call.own
  /\ answer # None /\ answer.op = "execute_with_sql_monitor" /\ answer.outcome = "ok" =>
       answer.shown <= answer.own

\* An execution is the last one, and all that is monitored is behind it.
LEMMA ExecuteBehind == IInv /\ Behind /\ Execute => Behind'
<1> SUFFICES ASSUME IInv, Behind, Execute PROVE Behind'
  OBVIOUS
<1>1. Running("execute")
  BY DEF Execute
<1>2. /\ call \in Calls /\ call # None /\ call.conn \in Connections
      /\ call.op \in Ops /\ call.at \in 1..5
  BY <1>1, RunningCall
<1>3. /\ call' # None /\ call'.op = call.op /\ call'.at = call.at + 1
      /\ Runs(call.op) => call'.own = executions + 1
  BY <1>2, NoneAssumption, ExecuteStep DEF Execute, Calls
<1>4. executions \in Nat /\ monitored \in [Connections -> Nat] /\ UNCHANGED answer
  BY DEF IInv, TypeOK, Execute
<1>5. \A c \in Connections : monitored'[c] <= executions'
  <2>1. CASE Runs(call.op)
    <3>1. executions' = executions + 1
      BY <2>1 DEF Execute
    <3>2. ASSUME NEW c \in Connections
          PROVE  monitored'[c] = executions + 1 \/ monitored'[c] = monitored[c]
      BY <1>2, <1>4, <2>1 DEF Execute
    <3>3. ASSUME NEW c \in Connections PROVE monitored[c] <= executions /\ monitored[c] \in Nat
      BY <1>4 DEF Behind
    <3> QED BY ONLY <1>4, <3>1, <3>2, <3>3
  <2>2. CASE ~Runs(call.op)
    BY <2>2 DEF Execute, Behind
  <2> QED BY <2>1, <2>2
<1>6. ASSUME MonitorCall'
      PROVE  /\ call'.at > 3 => call'.own = executions'
             /\ ~(call'.at > 5)
  <2>1. call.op = "execute_with_sql_monitor"
    BY <1>3, <1>6 DEF MonitorCall
  <2>2. StepsOf[call.op][call.at] = "execute"
    BY <1>1 DEF Running
  <2>3. call.at = 3
    BY ONLY <1>2, <2>1, <2>2, StepsAre
  <2>4. Runs(call.op) /\ executions' = executions + 1
    BY <2>1 DEF Runs, Execute
  <2> QED BY ONLY <1>3, <2>3, <2>4
<1> QED BY <1>4, <1>5, <1>6 DEF Behind

\* The other steps make no execution; a report shows what is monitored.
LEMMA OtherBehind ==
  IInv /\ Behind /\ (Fetch \/ SetModule \/ Report \/ Raise) => Behind'
<1> SUFFICES ASSUME IInv, Behind, Fetch \/ SetModule \/ Report \/ Raise PROVE Behind'
  OBVIOUS
<1>1. PICK step \in {"set_module", "sid", "execute", "fetch", "report"} :
        Running(step) /\ (step = "execute" => Raise)
  BY DEF Fetch, SetModule, Report, Raise
<1>2. /\ call \in Calls /\ call # None /\ call.conn \in Connections
      /\ call.op \in Ops /\ call.at \in 1..5
  BY <1>1, RunningCall
<1>3. UNCHANGED <<monitored, executions, answer>> /\ executions \in Nat /\ monitored \in [Connections -> Nat]
  BY DEF Fetch, SetModule, Report, Raise, server, IInv, TypeOK
<1>4. CASE Raise \/ (Fetch /\ call' = [call EXCEPT !.outcome = "raised"])
  <2>1. call' = [call EXCEPT !.outcome = "raised"]
    BY <1>4 DEF Raise
  <2>2. /\ call'.op = call.op /\ call'.at = call.at /\ call'.own = call.own
        /\ call'.shown = call.shown
    BY <1>2, <2>1 DEF Calls
  <2> QED BY <1>2, <1>3, <2>2 DEF Behind, MonitorCall
<1>5. CASE SetModule \/ (Fetch /\ call' = [call EXCEPT !.at = @ + 1])
  <2>1. call' = [call EXCEPT !.at = @ + 1]
    BY <1>5 DEF SetModule
  <2>2. /\ call'.op = call.op /\ call'.at = call.at + 1 /\ call'.own = call.own
        /\ call'.shown = call.shown
    BY <1>2, <2>1 DEF Calls
  <2>3. StepsOf[call.op][call.at] \notin {"execute", "report"}
    BY <1>5 DEF SetModule, Fetch, Running
  <2>4. ASSUME MonitorCall PROVE call.at \in {1, 2, 4}
    BY <1>2, <2>3, <2>4, StepsAre DEF MonitorCall
  <2>5. ASSUME MonitorCall'
        PROVE  /\ call'.at > 3 => call'.own = executions'
               /\ ~(call'.at > 5)
    <3>1. MonitorCall
      BY <1>2, <2>2, <2>5 DEF MonitorCall
    <3>2. (call.at > 3 => call.own = executions) /\ call.at \in {1, 2, 4}
      BY <2>4, <3>1 DEF Behind
    <3> QED BY ONLY <1>3, <2>2, <3>2
  <2> QED BY <1>3, <2>5 DEF Behind
<1>6. CASE Report
  <2>1. call' = [call EXCEPT !.at = @ + 1, !.shown = monitored[call.conn]]
    BY <1>6 DEF Report
  <2>2. /\ call'.op = call.op /\ call'.at = call.at + 1 /\ call'.own = call.own
        /\ call'.shown = monitored[call.conn]
    BY <1>2, <2>1 DEF Calls
  <2>3. StepsOf[call.op][call.at] = "report"
    BY <1>6 DEF Report, Running
  <2>4. monitored[call.conn] <= executions
    BY <1>2 DEF Behind
  <2>5. ASSUME MonitorCall'
        PROVE  call'.own = executions' /\ call'.shown <= call'.own
    <3>1. MonitorCall
      BY <1>2, <2>2, <2>5 DEF MonitorCall
    <3>2. call.at = 5
      BY <1>2, <2>3, <3>1, StepsAre DEF MonitorCall
    <3>3. call.own = executions
      BY <3>1, <3>2 DEF Behind
    <3> QED BY ONLY <1>3, <2>2, <2>4, <3>3
  <2> QED BY <1>3, <2>5 DEF Behind
<1> QED BY <1>4, <1>5, <1>6 DEF Fetch

\* What a method that ends had read is what its answer shows.
LEMMA ReleaseBehind == IInv /\ Behind /\ Release => Behind'
<1> SUFFICES ASSUME IInv, Behind, Release PROVE Behind'
  OBVIOUS
<1>1. /\ call \in Calls /\ call # None /\ call' = None
      /\ UNCHANGED <<monitored, executions>>
  BY DEF IInv, TypeOK, Release, Over, Returned
<1>2. PICK outcome \in {"ok", "raised"} :
        /\ answer' = [op |-> call.op, sql |-> call.sql, outcome |-> outcome,
                      own |-> call.own, shown |-> call.shown]
        /\ outcome = "ok" => call.outcome # "raised"
  BY DEF Release, Returned
<1>3. ASSUME answer'.op = "execute_with_sql_monitor", answer'.outcome = "ok"
      PROVE  answer'.shown <= answer'.own
  <2>1. MonitorCall /\ call.outcome # "raised" /\ call.op = "execute_with_sql_monitor"
    BY <1>1, <1>2, <1>3 DEF MonitorCall
  <2>2. call.at > Len(StepsOf[call.op]) /\ call.op \in Ops /\ call.at \in 1..6
    BY <1>1, <2>1 DEF Release, Over, Calls
  <2>3. Len(StepsOf[call.op]) = 5
    BY <2>1, <2>2, StepsAre
  <2>4. call.at > 5
    BY ONLY <2>2, <2>3
  <2>5. call.shown <= call.own
    BY <2>1, <2>4 DEF Behind
  <2> QED BY <1>2, <2>5
<1> QED BY <1>1, <1>3 DEF Behind, MonitorCall

\* No step lets a session remember what was not executed yet.
LEMMA BehindStep == IInv /\ Behind /\ [Next]_vars => Behind'
<1> SUFFICES ASSUME IInv, Behind, [Next]_vars PROVE Behind'
  OBVIOUS
<1>1. CASE \E op \in Ops, sql \in Statements : Call(op, sql)
  <2>1. PICK op \in Ops, sql \in Statements : Call(op, sql)
    BY <1>1
  <2>2. call'.at = 1 /\ answer' = None /\ UNCHANGED <<monitored, executions>>
    BY <2>1 DEF Call, server
  <2> QED BY <2>2 DEF Behind, MonitorCall
<1>2. CASE Acquire
  <2>1. PICK c \in Connections : call' = [call EXCEPT !.conn = c]
    BY <1>2 DEF Acquire
  <2>2. call \in Calls /\ call # None /\ UNCHANGED <<monitored, executions, answer>>
    BY <1>2 DEF IInv, TypeOK, Acquire, Waiting, server
  <2>3. /\ call'.op = call.op /\ call'.at = call.at /\ call'.own = call.own
        /\ call'.shown = call.shown
    BY <2>1, <2>2 DEF Calls
  <2> QED BY <2>2, <2>3 DEF Behind, MonitorCall
<1>3. CASE AcquireFails
  <2>1. call' = None /\ answer'.outcome = "raised" /\ UNCHANGED <<monitored, executions>>
    BY <1>3 DEF AcquireFails, Returned, server
  <2> QED BY <2>1 DEF Behind, MonitorCall
<1>4. CASE DropDead \/ EndStream \/ UNCHANGED vars
  <2>1. UNCHANGED <<call, monitored, executions, answer>>
    BY <1>4 DEF DropDead, EndStream, vars, server
  <2> QED BY <2>1 DEF Behind, MonitorCall
<1>5. CASE Server
  BY <1>5, ExecuteBehind, OtherBehind DEF Server
<1>6. CASE Release
  BY <1>6, ReleaseBehind
<1>7. CASE Reopen
  <2>1. call' = None /\ answer' = None /\ UNCHANGED <<monitored, executions>>
    BY <1>7 DEF Reopen, server
  <2> QED BY <2>1 DEF Behind, MonitorCall
<1> QED BY <1>1, <1>2, <1>3, <1>4, <1>5, <1>6, <1>7 DEF Next

\* The SQL Monitor report that a call returns is that of its own execution when
\* its text takes the hint, and of no later execution whatever its text.
THEOREM ReportsAreOwn == Spec => []ReportIsOfOwnExecution
<1>1. Init => Behind
  <2> SUFFICES ASSUME Init PROVE Behind
    OBVIOUS
  <2>1. executions = 0 /\ answer = None /\ call = None /\ \A c \in Connections : monitored[c] = 0
    BY DEF Init
  <2> QED BY <2>1 DEF Behind, MonitorCall
<1>2. IInv /\ Behind => ReportIsOfOwnExecution
  BY DEF IInv, HintedReportIsOwn, Behind, ReportIsOfOwnExecution
<1> QED BY <1>1, <1>2, BehindStep, SessionInvariance, PTL DEF Spec

-------------------------------------------------------------------------------
\* What callers promise on generators, kept by every call: the one in progress
\* has room for the generator it is to return.
Promise ==
  /\ Cardinality(streams) <= MaxStreams
  /\ call # None /\ call.op = "stream" => Cardinality(streams) < MaxStreams

\* The server has a step of the call to answer.
Answering ==
  /\ call # None /\ call.conn # None /\ call.outcome = "running"
  /\ call.at <= Len(StepsOf[call.op])

\* The sessions that generators hold are finitely many.
LEMMA StreamsAreFinite ==
  ASSUME IInv
  PROVE  IsFiniteSet(streams) /\ Cardinality(streams) \in Nat
<1>1. streams \subseteq Connections
  BY DEF IInv, TypeOK
<1> QED BY <1>1, PoolAssumption, FS_Subset, FS_CardinalityType

\* A generator is returned only where one more was promised to be held.
LEMMA PromiseStep == IInv /\ Promise /\ [Next]_vars => Promise'
<1> SUFFICES ASSUME IInv, Promise, [Next]_vars PROVE Promise'
  OBVIOUS
<1> USE NoneAssumption DEF Promise
<1>1. CASE \E op \in Ops, sql \in Statements : Call(op, sql)
  BY <1>1 DEF Call, pool
<1>2. CASE Acquire \/ AcquireFails \/ DropDead \/ Server \/ UNCHANGED vars
  <2>1. UNCHANGED streams /\ (call' # None => call # None /\ call'.op = call.op)
    <3>1. call \in Calls \cup {None}
      BY DEF IInv, TypeOK
    <3> QED BY <1>2, <3>1 DEF Acquire, AcquireFails, DropDead, Returned, Waiting, Server, Execute, Fetch, SetModule, Report, Raise,
              Running, Calls, vars, pool
  <2> QED BY <2>1
<1>3. CASE Release
  <2>1. call' = None /\ call # None
    BY <1>3 DEF Release, Returned, Over
  <2>2. CASE call.op = "stream" /\ call.outcome # "raised"
    <3>1. streams' = streams \cup {call.conn}
      BY <1>3, <2>2 DEF Release
    <3>2. Cardinality(streams') <= Cardinality(streams) + 1
      <4>1. Cardinality(streams \cup {call.conn}) \in {Cardinality(streams), Cardinality(streams) + 1}
        BY StreamsAreFinite, FS_AddElement
      <4>2. Cardinality(streams) \in Nat
        BY StreamsAreFinite
      <4> QED BY ONLY <3>1, <4>1, <4>2
    <3>3. Cardinality(streams) < MaxStreams /\ Cardinality(streams) \in Nat
      BY <2>1, <2>2, StreamsAreFinite
    <3>4. Cardinality(streams') \in Nat
      BY <3>1, StreamsAreFinite, FS_AddElement, FS_CardinalityType
    <3> QED BY <2>1, <3>2, <3>3, <3>4, PoolAssumption
  <2>3. CASE ~(call.op = "stream" /\ call.outcome # "raised")
    BY <1>3, <2>1, <2>3 DEF Release
  <2> QED BY <2>2, <2>3
<1>4. CASE EndStream
  <2>1. PICK c \in streams : streams' = streams \ {c}
    BY <1>4 DEF EndStream
  <2>2. Cardinality(streams') <= Cardinality(streams) /\ Cardinality(streams') \in Nat
    <3>1. streams' \in SUBSET streams
      BY <2>1
    <3> QED BY <3>1, StreamsAreFinite, FS_Subset, FS_CardinalityType
  <2>3. call' = None
    BY <1>4 DEF EndStream
  <2> QED BY <2>2, <2>3, StreamsAreFinite, PoolAssumption
<1>5. CASE Reopen
  BY <1>5 DEF Reopen
<1> QED BY <1>1, <1>2, <1>3, <1>4, <1>5 DEF Next

\* Callers hold no generator at first, and keep their promise from there on.
LEMMA PromiseAlways == Spec => []Promise
<1>1. Init => Promise
  BY FS_EmptySet, PoolAssumption DEF Init, Promise
<1> QED BY <1>1, PromiseStep, SessionInvariance, PTL DEF Spec

\* A call that waits for a connection finds one in the pool, or room for one to
\* be opened: generators alone do not hold them all, and nothing else holds any.
LEMMA RoomWhileWaiting == IInv /\ Promise /\ Waiting => idle # {} \/ opened # Connections
<1> SUFFICES ASSUME IInv, Promise, Waiting, idle = {}, opened = Connections PROVE FALSE
  OBVIOUS
<1>1. streams = Connections
  BY DEF IInv, NoConnectionIsLost, Held, Waiting
<1> QED BY <1>1, StreamsAreFinite, PoolAssumption DEF Promise

\* While callers keep their promise on generators, no call waits for a connection
\* that cannot come: pool.acquire, which has no timeout, never hangs.
THEOREM WaitersAreServed == Spec => [](Waiting => idle # {} \/ opened # Connections)
<1> QED BY RoomWhileWaiting, SessionInvariance, PromiseAlways, PTL

-------------------------------------------------------------------------------
\* What a call still has before it: to get a connection, its steps, its end.
Left ==
  IF Waiting THEN 7 ELSE IF Over THEN 1 ELSE Len(StepsOf[call.op]) + 2 - call.at

\* A call with at most n steps left, and that such a call comes to an end.
Near(n) == IInv /\ Promise /\ call # None /\ Left <= n
Ends(n) == Near(n) ~> (call = None)

\* A call waits, is answered or is over, one of the three.
LEMMA CallStages ==
  ASSUME IInv, call # None
  PROVE  /\ Waiting \/ Answering \/ Over
         /\ Answering => ~Waiting /\ ~Over /\ Left \in 2..6
         /\ Over => ~Waiting /\ Left = 1
         /\ Waiting => Left = 7
         /\ Left \in 1..7
<1>1. call \in Calls /\ call.op \in Ops /\ call.at \in 1..6 /\ call.outcome \in {"running", "raised"}
  BY DEF IInv, TypeOK, Calls
<1> DEFINE steps == Len(StepsOf[call.op])
<1>2. steps \in 1..5
  BY <1>1, StepsAre
<1>3. /\ Over <=> call.conn # None /\ (call.outcome = "raised" \/ call.at > steps)
      /\ Answering <=> call.conn # None /\ call.outcome = "running" /\ call.at <= steps
      /\ Waiting <=> call.conn = None
      /\ Left = IF Waiting THEN 7 ELSE IF Over THEN 1 ELSE steps + 2 - call.at
  BY DEF Waiting, Answering, Over, Left
<1> HIDE DEF steps
<1>4. Waiting \/ Answering \/ Over
  BY <1>1, <1>2, <1>3
<1>5. Over => ~Waiting /\ Left = 1
  BY <1>3
<1>6. Answering => ~Waiting /\ ~Over /\ Left \in 2..6
  BY <1>1, <1>2, <1>3
<1> QED BY <1>3, <1>4, <1>5, <1>6

\* The call that gets its connection has its steps before it.
LEMMA AcquireAdvances ==
  ASSUME IInv, Acquire
  PROVE  call' # None /\ Left' <= 6 /\ Left' \in Int
<1>1. IInv'
  BY AcquireStep
<1>2. call' # None /\ ~Waiting'
  <2>1. PICK c \in Connections : call' = [call EXCEPT !.conn = c]
    BY DEF Acquire
  <2>2. call \in Calls /\ call' \in Calls /\ call'.conn = c /\ c # None
    BY <2>1, PoolAssumption DEF IInv, TypeOK, Acquire, Waiting, Calls
  <2> QED BY <2>2, NoneAssumption DEF Waiting
<1> DEFINE steps == Len(StepsOf[call'.op])
<1>3. call'.op \in Ops /\ call'.at \in 1..6
  BY <1>1, <1>2 DEF IInv, TypeOK, Calls
<1>4. steps \in 1..5
  BY <1>3, StepsAre
<1>5. Left' = 1 \/ Left' = steps + 2 - call'.at
  BY <1>2 DEF Left
<1> HIDE DEF steps
<1> QED BY <1>2, <1>3, <1>4, <1>5

\* Each answer of the server is one step less, and an error ends the method.
LEMMA ServerAdvances ==
  ASSUME IInv, Server
  PROVE  Answering /\ call' # None /\ Left' < Left /\ Left' \in Int
<1>1. call # None /\ Answering
  BY DEF Server, Execute, Fetch, SetModule, Report, Raise, Running, Answering
<1>2. call \in Calls /\ call.op \in Ops /\ call.at \in 1..6 /\ call' # None
  BY <1>1, ExecuteStep, OtherServerStep DEF Server, IInv, TypeOK, Calls
<1> DEFINE steps == Len(StepsOf[call.op])
<1>3. steps \in 1..5
  BY <1>2, StepsAre
<1>4. call'.op = call.op /\ call'.conn = call.conn /\ (call'.outcome = "raised" \/ call'.at = call.at + 1)
  BY <1>2 DEF Server, Execute, Fetch, SetModule, Report, Raise, Calls
<1>5. /\ Left = steps + 2 - call.at /\ call.at <= steps
      /\ Left' = 1 \/ (Left' = steps + 2 - call'.at /\ call'.outcome # "raised")
  BY <1>1, <1>2, <1>4 DEF Answering, Left, Waiting, Over
<1> HIDE DEF steps
<1> QED BY <1>1, <1>2, <1>3, <1>4, <1>5

\* While a call is in progress what happens is its next step, or a dead session
\* is dropped while it waits.
LEMMA OnlyItsStep ==
  ASSUME IInv, call # None, [Next]_vars
  PROVE  \/ Waiting /\ (Acquire \/ AcquireFails \/ DropDead)
         \/ Answering /\ Server
         \/ Over /\ Release
         \/ UNCHANGED vars
<1>1. Acquire \/ AcquireFails \/ DropDead => Waiting
  BY DEF Acquire, AcquireFails, DropDead
<1>2. Server => Answering
  BY ServerAdvances
<1>3. Release => Over
  BY DEF Release
<1>4. ~EndStream /\ ~Reopen /\ \A op \in Ops, sql \in Statements : ~Call(op, sql)
  BY DEF EndStream, Reopen, Call
<1> QED BY <1>1, <1>2, <1>3, <1>4 DEF Next

\* The step of each stage, or nothing, is what follows it.
LEMMA StageSteps ==
  ASSUME NEW n \in Nat, Near(n + 1), [Next]_vars
  PROVE  /\ Waiting => (Near(n + 1) /\ Waiting)' \/ Near(n)' \/ call' = None
         /\ Answering => (Near(n + 1) /\ Answering)' \/ Near(n)'
         /\ Over => (Near(n + 1) /\ Over)' \/ call' = None
         /\ Acquire \/ Server => Near(n)'
         /\ Release => call' = None
<1>1. IInv /\ Promise /\ call # None /\ Left \in 1..7 /\ Left <= n + 1 /\ IInv' /\ Promise'
  BY SessionStep, PromiseStep, CallStages DEF Near
<1>2. Release => call' = None
  BY DEF Release, Returned
<1>3. Acquire => Near(n)'
  <2> SUFFICES ASSUME Acquire PROVE Near(n)'
    OBVIOUS
  <2>1. Left = 7
    BY <1>1, CallStages DEF Acquire
  <2>2. call' # None /\ Left' <= 6 /\ Left' \in Int
    BY <1>1, AcquireAdvances
  <2> QED BY <1>1, <2>1, <2>2 DEF Near
<1>4. Server => Near(n)'
  <2> SUFFICES ASSUME Server PROVE Near(n)'
    OBVIOUS
  <2>1. call' # None /\ Left' < Left /\ Left' \in Int
    BY <1>1, ServerAdvances
  <2> QED BY <1>1, <2>1 DEF Near
<1>8. AcquireFails => call' = None
  BY DEF AcquireFails, Returned
<1>9. DropDead => Near(n + 1)' /\ Waiting' = Waiting
  <2> SUFFICES ASSUME DropDead PROVE Near(n + 1)' /\ Waiting' = Waiting
    OBVIOUS
  <2>1. call' = call
    BY <1>1, DropDeadStep
  <2>2. Waiting' = Waiting /\ Over' = Over
    BY <2>1 DEF Waiting, Over
  <2>3. Left' = Left
    BY <2>1, <2>2 DEF Left
  <2> QED BY <1>1, <2>1, <2>2, <2>3 DEF Near
<1>5. UNCHANGED vars => Near(n + 1)' /\ Waiting' = Waiting /\ Answering' = Answering /\ Over' = Over
  <2> SUFFICES ASSUME UNCHANGED vars
               PROVE  Near(n + 1)' /\ Waiting' = Waiting /\ Answering' = Answering /\ Over' = Over
    OBVIOUS
  <2>1. call' = call
    BY DEF vars
  <2>2. Waiting' = Waiting /\ Answering' = Answering /\ Over' = Over /\ Left' = Left
    BY <2>1 DEF Waiting, Answering, Over, Left
  <2> QED BY <1>1, <2>1, <2>2 DEF Near
<1>6. /\ Waiting => ~Answering /\ ~Over
      /\ Answering => ~Waiting /\ ~Over
  BY <1>1, CallStages
<1>7. \/ Waiting /\ (Acquire \/ AcquireFails \/ DropDead)
      \/ Answering /\ Server
      \/ Over /\ Release
      \/ UNCHANGED vars
  BY <1>1, OnlyItsStep
<1> QED BY <1>8, <1>2, <1>3, <1>4, <1>5, <1>6, <1>7, <1>9

\* Each step is taken that can be taken: the pool serves a call that waits, or
\* fails it, while it has a session or room for one, the server answers, the method ends.
GoesOn ==
  /\ []<>~(Waiting /\ (idle # {} \/ opened # Connections)) \/ []<><<Acquire>>_vars
  /\ []<>~Answering \/ []<><<Server>>_vars
  /\ []<>~Over \/ []<><<Release>>_vars

\* What ends from n steps ends from one more.
LEMMA OneStepMore ==
  ASSUME NEW n \in Nat
  PROVE  Spec /\ GoesOn /\ Ends(n) => Ends(n + 1)
<1>1. Near(n + 1) => Waiting \/ Answering \/ Over
  BY CallStages DEF Near
<1>2. Near(n + 1) /\ Waiting => Waiting /\ (idle # {} \/ opened # Connections)
  BY RoomWhileWaiting DEF Near
<1>3. Near(n + 1) /\ Waiting /\ [Next]_vars =>
        (Near(n + 1) /\ Waiting)' \/ Near(n)' \/ (call = None)'
  BY StageSteps
<1>4. Near(n + 1) /\ Answering /\ [Next]_vars => (Near(n + 1) /\ Answering)' \/ Near(n)'
  BY StageSteps
<1>5. Near(n + 1) /\ Over /\ [Next]_vars => (Near(n + 1) /\ Over)' \/ (call = None)'
  BY StageSteps
<1>6. Near(n + 1) /\ [Next]_vars /\ <<Acquire>>_vars => Near(n)'
  BY StageSteps
<1>7. Near(n + 1) /\ [Next]_vars /\ <<Server>>_vars => Near(n)'
  BY StageSteps
<1>8. Near(n + 1) /\ [Next]_vars /\ <<Release>>_vars => (call = None)'
  BY StageSteps
<1> QED BY <1>1, <1>2, <1>3, <1>4, <1>5, <1>6, <1>7, <1>8, PTL DEF Spec, GoesOn, Ends

\* While callers keep their promise on generators, every call of every method
\* comes to an end, with its result or with what raised in it.
THEOREM EveryCallReturns == Spec /\ GoesOn => CallsReturn
<1>1. Spec /\ GoesOn => Ends(0)
  <2>1. ~Near(0)
    BY CallStages DEF Near
  <2> QED BY <2>1, PTL DEF Ends
<1>2. Spec /\ GoesOn => Ends(7)
  <2> SUFFICES ASSUME Spec, GoesOn PROVE Ends(7)
    OBVIOUS
  <2>1. \A n \in Nat : Ends(n) => Ends(n + 1)
    BY OneStepMore
  <2> QED BY <1>1, <2>1
<1>3. IInv /\ Promise /\ call # None => Near(7)
  BY CallStages DEF Near
<1> QED BY <1>2, <1>3, SessionInvariance, PromiseAlways, PTL DEF Ends, CallsReturn
================================================================================

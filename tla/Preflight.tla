------------------------------- MODULE Preflight -------------------------------
(***************************************************************************)
(* `infra verify` (cli.py, drivers/mongo.py, drivers/oracle.py): the       *)
(* questions it asks of both engines one after the other, the errors it    *)
(* takes for answers, and its exit status; beside it an operator who       *)
(* reconfigures mongod.  Scenario runs ask nothing: run_scenario calls no  *)
(* preflight, and what its records say of the engine is a literal.         *)
(***************************************************************************)
EXTENDS Naturals

CONSTANT None

ASSUME PreflightAssumption == None \notin {0, 1}

Frameworks == {"trySbeEngine", "forceClassicEngine"}
MongoSettings == [framework : Frameworks, journal : BOOLEAN, replica : BOOLEAN]

\* What a server is and what its user may read.
OracleSettings == [instance : BOOLEAN, bannerFull : BOOLEAN, parameters : BOOLEAN,
                   users : BOOLEAN, sga : 0..1, pga : 0..1, perfstat : BOOLEAN]

MongoQuestions == {"getParameter", "serverStatus", "replSetGetStatus"}
OracleQuestions == {"v$instance", "banner_full", "banner", "v$parameter", "dba_users"}

VARIABLES
  mongod,   \* its configuration now
  oracle,   \* that of the Oracle server
  at,       \* the question being asked, or "idle"
  status,   \* what the preflights have found so far
  failed,   \* the flag of infra_verify
  exit,     \* exit status of the last command, or None
  changed,  \* history: was mongod reconfigured since the command began
  lost      \* history: its questions whose call failed for no reason of configuration

command == <<at, status, failed, exit>>
history == <<changed, lost>>
vars == <<mongod, oracle, command, history>>

Blank == [framework |-> "unknown", journal |-> FALSE, replica |-> FALSE,
          version |-> FALSE, autonomous |-> FALSE, sga |-> 0, pga |-> 0, statspack |-> FALSE]

Init ==
  /\ mongod \in MongoSettings /\ oracle \in OracleSettings
  /\ at = "idle" /\ status = Blank /\ failed = FALSE /\ exit = None
  /\ changed = TRUE /\ lost = {}

Verify ==
  /\ at = "idle"
  /\ at' = "getParameter" /\ status' = Blank /\ failed' = FALSE
  /\ exit' = None /\ changed' = FALSE /\ lost' = {}
  /\ UNCHANGED <<mongod, oracle>>

\* A question is answered, and another one follows.
Ask(question, found, next) ==
  /\ at = question
  /\ status' = found /\ at' = next

\* MongoPreflightStatus.ok
MongoOk(s) == s.framework = "trySbeEngine" /\ s.journal /\ s.replica

OracleOk_AnyTarget(s) ==
  IF s.autonomous THEN s.version ELSE s.sga > 0 \/ s.pga > 0

OracleOk_Statspack(s) ==
  IF s.autonomous THEN s.version ELSE s.sga > 0 /\ s.pga > 0 /\ s.statspack

\* OraclePreflightStatus.ok
OracleOk(s) == IF s.autonomous THEN s.version ELSE s.sga > 0 /\ s.pga > 0

\* A server without a replica set answers with OperationFailure.
AskMongo ==
  /\ \/ Ask("getParameter", [status EXCEPT !.framework = mongod.framework], "serverStatus")
        /\ UNCHANGED failed
     \/ Ask("serverStatus", [status EXCEPT !.journal = mongod.journal], "replSetGetStatus")
        /\ UNCHANGED failed
     \/ Ask("replSetGetStatus", [status EXCEPT !.replica = mongod.replica], "v$instance")
        /\ failed' = ~MongoOk(status')
  /\ UNCHANGED <<mongod, oracle, exit, history>>

\* What the user may not read raises DatabaseError.
AskOracle ==
  /\ \/ oracle.instance /\ Ask("v$instance", [status EXCEPT !.version = TRUE], "v$parameter")
     \/ ~oracle.instance /\ Ask("v$instance", [status EXCEPT !.autonomous = TRUE], "banner_full")
     \/ oracle.bannerFull /\ Ask("banner_full", [status EXCEPT !.version = TRUE], "v$parameter")
     \/ ~oracle.bannerFull /\ Ask("banner_full", status, "banner")
     \/ Ask("banner", [status EXCEPT !.version = TRUE], "v$parameter")
     \/ oracle.parameters
        /\ Ask("v$parameter", [status EXCEPT !.sga = oracle.sga, !.pga = oracle.pga], "dba_users")
     \/ ~oracle.parameters /\ Ask("v$parameter", status, "dba_users")
     \/ Ask("dba_users", [status EXCEPT !.statspack = oracle.users /\ oracle.perfstat], "report")
  /\ UNCHANGED <<mongod, oracle, failed, exit, history>>

\* An exception of the first preflight; the second one is made all the same.
MongoRaises ==
  /\ at \in MongoQuestions
  /\ lost' = lost \cup {at}
  /\ failed' = TRUE /\ at' = "v$instance"
  /\ UNCHANGED <<mongod, oracle, status, exit, changed>>

\* A DatabaseError that has nothing to do with privileges is taken for one that has.
OracleErrs ==
  /\ lost' = lost \cup {at}
  /\ \/ Ask("v$instance", [status EXCEPT !.autonomous = TRUE], "banner_full") /\ UNCHANGED failed
     \/ Ask("banner_full", status, "banner") /\ UNCHANGED failed
     \/ Ask("banner", status, "exit") /\ failed' = TRUE
     \/ Ask("v$parameter", status, "dba_users") /\ UNCHANGED failed
     \/ Ask("dba_users", status, "report") /\ UNCHANGED failed
  /\ UNCHANGED <<mongod, oracle, exit, changed>>

\* Any other exception, or no connection.
OracleRaises ==
  /\ at \in OracleQuestions
  /\ lost' = lost \cup {at}
  /\ failed' = TRUE /\ at' = "exit"
  /\ UNCHANGED <<mongod, oracle, status, exit, changed>>

JudgeOracle ==
  /\ at = "report"
  /\ failed' = (failed \/ ~OracleOk(status))
  /\ at' = "exit"
  /\ UNCHANGED <<mongod, oracle, status, exit, history>>

Exit ==
  /\ at = "exit"
  /\ exit' = (IF failed THEN 1 ELSE 0) /\ at' = "idle"
  /\ UNCHANGED <<mongod, oracle, status, failed, history>>

\* setParameter, or a restart with another configuration file.
Reconfigure ==
  /\ mongod' \in MongoSettings \ {mongod}
  /\ changed' = TRUE
  /\ UNCHANGED <<oracle, command, lost>>

Next == \/ Verify \/ AskMongo \/ AskOracle \/ MongoRaises \/ OracleErrs \/ OracleRaises
        \/ JudgeOracle \/ Exit \/ Reconfigure
Spec == Init /\ [][Next]_vars

-------------------------------------------------------------------------------
\* Exit status 0 of a command during which mongod was left alone: it runs as the
\* benchmark needs it, and Oracle has both memory targets, unless v$instance was
\* not to be read or its call failed, which the driver takes for an Autonomous
\* Database.  No other call may fail and leave a server passed that should not.
ExitZeroIsEarned ==
  exit = 0 /\ ~changed =>
    /\ mongod = [framework |-> "trySbeEngine", journal |-> TRUE, replica |-> TRUE]
    /\ \/ oracle.sga > 0 /\ oracle.pga > 0
       \/ ~oracle.instance
       \/ "v$instance" \in lost

\* Engines set up as the documentation says, an Oracle Free with a user who may
\* read the views or an Autonomous Database with one who may not, with Statspack
\* or without, pass whenever no call fails.
GoodEnginesPass ==
  /\ exit # None /\ ~changed /\ lost = {}
  /\ mongod = [framework |-> "trySbeEngine", journal |-> TRUE, replica |-> TRUE]
  /\ \/ oracle.instance /\ oracle.parameters /\ oracle.sga > 0 /\ oracle.pga > 0
     \/ ~oracle.instance
  => exit = 0
================================================================================

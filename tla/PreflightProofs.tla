----------------------------- MODULE PreflightProofs -----------------------------
(* What exit status 0 means and who gets it, for any number of failing calls and *)
(* of reconfigurations: the status the command has built up so far says what the *)
(* servers are, as long as nothing failed or changed under it.                   *)
EXTENDS Preflight, TLAPS

Right == mongod = [framework |-> "trySbeEngine", journal |-> TRUE, replica |-> TRUE]
OracleStages == OracleQuestions \cup {"report", "exit"}
Found == [framework : Frameworks \cup {"unknown"}, journal : BOOLEAN, replica : BOOLEAN,
          version : BOOLEAN, autonomous : BOOLEAN, sga : 0..1, pga : 0..1, statspack : BOOLEAN]

Typed ==
  /\ mongod \in MongoSettings /\ oracle \in OracleSettings
  /\ at \in MongoQuestions \cup OracleStages \cup {"idle"}
  /\ status \in Found /\ failed \in BOOLEAN /\ changed \in BOOLEAN
  /\ lost \subseteq MongoQuestions \cup OracleQuestions
  /\ exit \in {None, 0, 1}
  /\ exit # None => at = "idle"

\* What is known of mongod at each question.
MongoFound ==
  ~changed =>
    /\ at \in {"serverStatus", "replSetGetStatus"} => status.framework = mongod.framework
    /\ at = "replSetGetStatus" => status.journal = mongod.journal
    /\ at \in OracleStages /\ ~failed => Right
    /\ exit = 0 => Right

\* What is known of Oracle: nothing that it is not, unless a call failed.
OracleFound ==
  /\ status.autonomous => ~oracle.instance \/ "v$instance" \in lost
  /\ (status.sga > 0 => oracle.sga > 0) /\ (status.pga > 0 => oracle.pga > 0)
  /\ ((at = "exit" /\ ~failed) \/ exit = 0) =>
       (oracle.sga > 0 /\ oracle.pga > 0) \/ ~oracle.instance \/ "v$instance" \in lost

\* A good server that no call failed on is not found wanting.
GoodOracle ==
  \/ oracle.instance /\ oracle.parameters /\ oracle.sga > 0 /\ oracle.pga > 0
  \/ ~oracle.instance

GoodFound ==
  ~changed /\ lost = {} /\ Right /\ GoodOracle =>
    /\ ~failed /\ exit # 1
    /\ at \in {"banner_full", "banner", "v$parameter", "dba_users", "report"} /\ ~oracle.instance
         => status.autonomous
    /\ at \in {"v$parameter", "dba_users", "report"} => status.version
    /\ at \in {"dba_users", "report"} /\ oracle.parameters
         => status.sga = oracle.sga /\ status.pga = oracle.pga

IInv == Typed /\ MongoFound /\ OracleFound /\ GoodFound

-------------------------------------------------------------------------------
LEMMA BlankFound == Blank \in Found
<1>1. 0 \in 0..1 /\ FALSE \in BOOLEAN
  OBVIOUS
<1> QED BY <1>1 DEF Blank, Found

LEMMA InitIInv == Init => IInv
<1> SUFFICES ASSUME Init PROVE IInv
  OBVIOUS
<1>1. Typed
  BY BlankFound DEF Init, Typed
<1>2. MongoFound /\ OracleFound
  BY PreflightAssumption DEF Init, MongoFound, OracleFound, OracleStages, OracleQuestions, Blank
<1>3. GoodFound
  BY DEF Init, GoodFound
<1> QED BY <1>1, <1>2, <1>3 DEF IInv

LEMMA VerifyStep == IInv /\ Verify => IInv'
<1> SUFFICES ASSUME IInv, Verify PROVE IInv'
  OBVIOUS
<1> USE DEF IInv, Verify
<1>1. Typed'
  <2>1. failed' \in BOOLEAN /\ changed' \in BOOLEAN /\ exit' = None /\ at' \in MongoQuestions
    BY DEF MongoQuestions
  <2> QED BY <2>1, BlankFound DEF Typed
<1>2. MongoFound'
  BY PreflightAssumption DEF MongoFound, OracleStages, OracleQuestions
<1>3. OracleFound'
  BY PreflightAssumption DEF OracleFound, Blank
<1>4. GoodFound'
  BY PreflightAssumption DEF GoodFound
<1> QED BY <1>1, <1>2, <1>3, <1>4

\* The last question to mongod settles whether it is as it should be.
LEMMA AskMongoStep == IInv /\ AskMongo => IInv'
<1> SUFFICES ASSUME IInv, AskMongo PROVE IInv'
  OBVIOUS
<1> USE DEF IInv
<1>0. /\ UNCHANGED <<mongod, oracle, exit, changed, lost>>
      /\ exit = None /\ mongod \in MongoSettings /\ status \in Found
  BY DEF AskMongo, history, Typed, Ask
<1>2. CASE /\ at = "getParameter" /\ at' = "serverStatus" /\ UNCHANGED failed
           /\ status' = [status EXCEPT !.framework = mongod.framework]
  <2>1. status' \in Found /\ status'.framework = mongod.framework
    BY <1>0, <1>2 DEF Found, MongoSettings
  <2>2. status'.autonomous = status.autonomous /\ status'.sga = status.sga /\ status'.pga = status.pga
    BY <1>2 DEF Found, Typed
  <2>3. Typed'
    BY <1>0, <1>2, <2>1 DEF Typed, MongoQuestions
  <2>4. MongoFound'
    BY <1>0, <1>2, <2>1, PreflightAssumption DEF MongoFound, OracleStages, OracleQuestions
  <2>5. OracleFound'
    BY <1>0, <1>2, <2>2, PreflightAssumption DEF OracleFound
  <2>6. GoodFound'
    BY <1>0, <1>2, PreflightAssumption DEF GoodFound, Right, GoodOracle
  <2> QED BY <2>3, <2>4, <2>5, <2>6
<1>3. CASE /\ at = "serverStatus" /\ at' = "replSetGetStatus" /\ UNCHANGED failed
           /\ status' = [status EXCEPT !.journal = mongod.journal]
  <2>1. status' \in Found /\ status'.journal = mongod.journal /\ status'.framework = status.framework
    BY <1>0, <1>3 DEF Found, MongoSettings
  <2>2. status'.autonomous = status.autonomous /\ status'.sga = status.sga /\ status'.pga = status.pga
    BY <1>3 DEF Found, Typed
  <2>3. Typed'
    BY <1>0, <1>3, <2>1 DEF Typed, MongoQuestions
  <2>4. MongoFound'
    BY <1>0, <1>3, <2>1, PreflightAssumption DEF MongoFound, OracleStages, OracleQuestions
  <2>5. OracleFound'
    BY <1>0, <1>3, <2>2, PreflightAssumption DEF OracleFound
  <2>6. GoodFound'
    BY <1>0, <1>3, PreflightAssumption DEF GoodFound, Right, GoodOracle
  <2> QED BY <2>3, <2>4, <2>5, <2>6
<1>4. CASE /\ at = "replSetGetStatus" /\ at' = "v$instance" /\ failed' = ~MongoOk(status')
           /\ status' = [status EXCEPT !.replica = mongod.replica]
  <2>1. /\ status' \in Found /\ status'.replica = mongod.replica
        /\ status'.framework = status.framework /\ status'.journal = status.journal
    BY <1>0, <1>4 DEF Found, MongoSettings
  <2>2. status'.autonomous = status.autonomous /\ status'.sga = status.sga /\ status'.pga = status.pga
    BY <1>4 DEF Found, Typed
  <2>3. failed' \in BOOLEAN
    BY <1>4
  <2>4. Typed'
    BY <1>0, <1>4, <2>1, <2>3 DEF Typed, OracleStages, OracleQuestions
  <2>5. ~changed' /\ ~failed' => Right'
    BY <1>0, <1>4, <2>1 DEF MongoFound, MongoOk, Right, MongoSettings, Found
  <2>6. MongoFound'
    BY <1>0, <1>4, <2>5, PreflightAssumption DEF MongoFound
  <2>7. OracleFound'
    BY <1>0, <1>4, <2>2, PreflightAssumption DEF OracleFound
  <2>8. ~changed' /\ Right' => ~failed'
    <3> SUFFICES ASSUME ~changed', Right' PROVE MongoOk(status')
      BY <1>4
    <3>1. ~changed /\ mongod.framework = "trySbeEngine" /\ mongod.journal = TRUE /\ mongod.replica = TRUE
      BY <1>0 DEF Right
    <3>2. status.framework = mongod.framework /\ status.journal = mongod.journal
      BY <1>4, <3>1 DEF MongoFound
    <3>3. status'.framework = "trySbeEngine" /\ status'.journal = TRUE /\ status'.replica = TRUE
      BY <2>1, <3>1, <3>2
    <3> QED BY <3>3 DEF MongoOk
  <2>9. GoodFound'
    BY <1>0, <1>4, <2>8, PreflightAssumption DEF GoodFound
  <2> QED BY <2>4, <2>6, <2>7, <2>9
<1> QED BY <1>2, <1>3, <1>4 DEF AskMongo, Ask

\* An answer of Oracle, or an error that is taken for one: what is kept of it is
\* true of the server unless the call failed.
LEMMA OracleAnswerStep ==
  ASSUME IInv, at \in OracleQuestions, at' \in OracleStages \ {"exit"}, status' \in Found,
         UNCHANGED <<mongod, oracle, failed, exit, changed>>,
         lost \subseteq lost', lost' \subseteq MongoQuestions \cup OracleQuestions,
         status'.autonomous => status.autonomous \/ ~oracle.instance \/ "v$instance" \in lost',
         (status'.sga > 0 => status.sga > 0 \/ oracle.sga > 0),
         (status'.pga > 0 => status.pga > 0 \/ oracle.pga > 0),
         GoodFound'
  PROVE  IInv'
<1> USE DEF IInv
<1>1. exit = None /\ at # "exit" /\ at' # "exit" /\ at' \in OracleStages /\ at \in OracleStages
  BY DEF Typed, OracleQuestions, OracleStages
<1>2. Typed'
  BY <1>1 DEF Typed
<1>3. MongoFound'
  BY <1>1, PreflightAssumption DEF MongoFound, Right, OracleStages, OracleQuestions
<1>4. OracleFound'
  <2>1. "v$instance" \in lost => "v$instance" \in lost'
    OBVIOUS
  <2> QED BY <1>1, <2>1, PreflightAssumption DEF OracleFound
<1> QED BY <1>2, <1>3, <1>4

\* What each question to Oracle leaves in the status.
LEMMA AskOracleStep == IInv /\ AskOracle => IInv'
<1> SUFFICES ASSUME IInv, AskOracle PROVE IInv'
  OBVIOUS
<1>0. /\ UNCHANGED <<mongod, oracle, failed, exit, changed, lost>>
      /\ lost \subseteq lost' /\ lost' \subseteq MongoQuestions \cup OracleQuestions
      /\ status \in Found /\ oracle \in OracleSettings
  BY DEF AskOracle, history, IInv, Typed
<1>1. CASE Ask("v$instance", [status EXCEPT !.version = TRUE], "v$parameter") /\ oracle.instance
  <2>1. /\ status' \in Found /\ status'.version /\ status'.autonomous = status.autonomous
        /\ status'.sga = status.sga /\ status'.pga = status.pga
        /\ at = "v$instance" /\ at' = "v$parameter"
    BY <1>0, <1>1 DEF Ask, Found
  <2>2. GoodFound'
    BY <1>0, <1>1, <2>1 DEF IInv, GoodFound, Right, GoodOracle
  <2> QED BY <1>0, <2>1, <2>2, OracleAnswerStep DEF OracleQuestions, OracleStages
<1>2. CASE Ask("v$instance", [status EXCEPT !.autonomous = TRUE], "banner_full") /\ ~oracle.instance
  <2>1. /\ status' \in Found /\ status'.autonomous
        /\ status'.sga = status.sga /\ status'.pga = status.pga
        /\ at = "v$instance" /\ at' = "banner_full"
    BY <1>0, <1>2 DEF Ask, Found
  <2>2. GoodFound'
    BY <1>0, <1>2, <2>1 DEF IInv, GoodFound, Right, GoodOracle
  <2> QED BY <1>0, <1>2, <2>1, <2>2, OracleAnswerStep DEF OracleQuestions, OracleStages
<1>3. CASE \E q \in {"banner_full", "banner"} : Ask(q, [status EXCEPT !.version = TRUE], "v$parameter")
  <2>1. /\ status' \in Found /\ status'.version /\ status'.autonomous = status.autonomous
        /\ status'.sga = status.sga /\ status'.pga = status.pga
        /\ at \in {"banner_full", "banner"} /\ at' = "v$parameter"
    BY <1>0, <1>3 DEF Ask, Found
  <2>2. GoodFound'
    BY <1>0, <2>1 DEF IInv, GoodFound, Right, GoodOracle
  <2> QED BY <1>0, <2>1, <2>2, OracleAnswerStep DEF OracleQuestions, OracleStages
<1>4. CASE Ask("banner_full", status, "banner")
  <2>1. status' = status /\ at = "banner_full" /\ at' = "banner"
    BY <1>4 DEF Ask
  <2>2. GoodFound'
    BY <1>0, <2>1 DEF IInv, GoodFound, Right, GoodOracle
  <2> QED BY <1>0, <2>1, <2>2, OracleAnswerStep DEF OracleQuestions, OracleStages
<1>5. CASE Ask("v$parameter", [status EXCEPT !.sga = oracle.sga, !.pga = oracle.pga], "dba_users")
  <2>1. /\ status' \in Found /\ status'.version = status.version
        /\ status'.autonomous = status.autonomous
        /\ status'.sga = oracle.sga /\ status'.pga = oracle.pga
        /\ at = "v$parameter" /\ at' = "dba_users"
    BY <1>0, <1>5 DEF Ask, Found, OracleSettings
  <2>2. GoodFound'
    BY <1>0, <2>1 DEF IInv, GoodFound, Right, GoodOracle
  <2> QED BY <1>0, <2>1, <2>2, OracleAnswerStep DEF OracleQuestions, OracleStages
<1>6. CASE Ask("v$parameter", status, "dba_users") /\ ~oracle.parameters
  <2>1. status' = status /\ at = "v$parameter" /\ at' = "dba_users"
    BY <1>6 DEF Ask
  <2>2. GoodFound'
    BY <1>0, <1>6, <2>1 DEF IInv, GoodFound, Right, GoodOracle
  <2> QED BY <1>0, <2>1, <2>2, OracleAnswerStep DEF OracleQuestions, OracleStages
<1>7. CASE Ask("dba_users", [status EXCEPT !.statspack = oracle.users /\ oracle.perfstat], "report")
  <2>1. /\ status' \in Found /\ status'.version = status.version
        /\ status'.autonomous = status.autonomous
        /\ status'.sga = status.sga /\ status'.pga = status.pga
        /\ at = "dba_users" /\ at' = "report"
    BY <1>0, <1>7 DEF Ask, Found, OracleSettings
  <2>2. GoodFound'
    BY <1>0, <2>1 DEF IInv, GoodFound, Right, GoodOracle
  <2> QED BY <1>0, <2>1, <2>2, OracleAnswerStep DEF OracleQuestions, OracleStages
<1> QED BY <1>1, <1>2, <1>3, <1>4, <1>5, <1>6, <1>7 DEF AskOracle

\* An error of Oracle that is taken for an answer, or ends the preflight.
LEMMA OracleErrsStep == IInv /\ OracleErrs => IInv'
<1> SUFFICES ASSUME IInv, OracleErrs PROVE IInv'
  OBVIOUS
<1>0. /\ UNCHANGED <<mongod, oracle, exit, changed>> /\ lost' = lost \cup {at}
      /\ lost \subseteq MongoQuestions \cup OracleQuestions
      /\ status \in Found /\ at \in OracleQuestions
  BY DEF OracleErrs, IInv, Typed, Ask, OracleQuestions
<1>1. lost \subseteq lost' /\ lost' \subseteq MongoQuestions \cup OracleQuestions /\ lost' # {}
  BY <1>0
<1>2. GoodFound'
  BY <1>1 DEF GoodFound
<1>3. CASE at' \in {"banner_full", "banner", "dba_users", "report"} /\ UNCHANGED failed
  <2>1. status' = status \/ (at = "v$instance" /\ status' = [status EXCEPT !.autonomous = TRUE])
    BY <1>3 DEF OracleErrs, Ask
  <2>2. status' \in Found /\ status'.sga = status.sga /\ status'.pga = status.pga
    BY <1>0, <2>1 DEF Found
  <2>3. status'.autonomous => status.autonomous \/ "v$instance" \in lost'
    BY <1>0, <2>1
  <2> QED BY <1>0, <1>1, <1>2, <1>3, <2>2, <2>3, OracleAnswerStep DEF OracleQuestions, OracleStages
<1>4. CASE at' = "exit" /\ failed' = TRUE /\ status' = status
  <2>1. exit = None /\ failed' \in BOOLEAN
    BY <1>0, <1>4 DEF IInv, Typed, OracleQuestions
  <2>2. Typed'
    BY <1>0, <1>1, <1>4, <2>1 DEF IInv, Typed, OracleStages
  <2>3. MongoFound' /\ OracleFound'
    BY <1>0, <1>1, <1>4, <2>1, PreflightAssumption
       DEF IInv, MongoFound, OracleFound, OracleStages, OracleQuestions
  <2> QED BY <1>2, <2>2, <2>3 DEF IInv
<1> QED BY <1>3, <1>4 DEF OracleErrs, Ask

\* An exception ends the preflight of its engine, with the flag set.
LEMMA RaisesStep == IInv /\ (MongoRaises \/ OracleRaises) => IInv'
<1> SUFFICES ASSUME IInv, MongoRaises \/ OracleRaises PROVE IInv'
  OBVIOUS
<1>1. /\ UNCHANGED <<mongod, oracle, status, exit, changed>>
      /\ lost' = lost \cup {at} /\ failed' = TRUE
      /\ at' \in {"v$instance", "exit"} /\ at # "idle" /\ at # "exit"
      /\ at \in MongoQuestions \cup OracleQuestions
  BY DEF MongoRaises, OracleRaises, IInv, Typed, MongoQuestions, OracleQuestions
<1>2. /\ exit = None /\ failed' \in BOOLEAN /\ lost \subseteq lost' /\ lost' # {}
      /\ lost' \subseteq MongoQuestions \cup OracleQuestions
  BY <1>1 DEF IInv, Typed
<1>3. Typed'
  BY <1>1, <1>2 DEF IInv, Typed, OracleStages, OracleQuestions
<1>4. MongoFound' /\ OracleFound' /\ GoodFound'
  BY <1>1, <1>2, PreflightAssumption
     DEF IInv, MongoFound, OracleFound, GoodFound, OracleStages, OracleQuestions
<1> QED BY <1>3, <1>4 DEF IInv

\* Oracle is judged by what was found of it.
LEMMA JudgeOracleStep == IInv /\ JudgeOracle => IInv'
<1> SUFFICES ASSUME IInv, JudgeOracle PROVE IInv'
  OBVIOUS
<1>1. /\ UNCHANGED <<mongod, oracle, status, exit, changed, lost>>
      /\ at = "report" /\ at' = "exit" /\ failed' = (failed \/ ~OracleOk(status))
  BY DEF JudgeOracle, history
<1>2. exit = None /\ failed' \in BOOLEAN /\ status \in Found /\ oracle \in OracleSettings
  BY <1>1 DEF IInv, Typed
<1>3. ~failed' <=> ~failed /\ OracleOk(status)
  BY <1>1 DEF IInv, Typed
<1>4. Typed'
  BY <1>1, <1>2 DEF IInv, Typed, OracleStages
<1>5. MongoFound'
  BY <1>1, <1>2, <1>3, PreflightAssumption DEF IInv, MongoFound, Right, OracleStages, OracleQuestions
<1>6. OracleFound'
  BY <1>1, <1>2, <1>3, PreflightAssumption DEF IInv, OracleFound, OracleOk
<1>7. GoodFound'
  <2> SUFFICES ASSUME ~changed, lost = {}, Right, GoodOracle PROVE ~failed'
    BY <1>1, <1>2, PreflightAssumption DEF GoodFound, Right, GoodOracle
  <2>1. ~failed /\ status.version /\ (~oracle.instance => status.autonomous)
        /\ (oracle.parameters => status.sga = oracle.sga /\ status.pga = oracle.pga)
    BY <1>1 DEF IInv, GoodFound
  <2>2. OracleOk(status)
    BY <2>1 DEF OracleOk, GoodOracle
  <2> QED BY <1>3, <2>1, <2>2
<1> QED BY <1>4, <1>5, <1>6, <1>7 DEF IInv

LEMMA ExitStep == IInv /\ Exit => IInv'
<1> SUFFICES ASSUME IInv, Exit PROVE IInv'
  OBVIOUS
<1>1. /\ UNCHANGED <<mongod, oracle, status, failed, changed, lost>>
      /\ at = "exit" /\ at' = "idle" /\ (failed => exit' = 1) /\ (~failed => exit' = 0)
  BY DEF Exit, history
<1>2. Typed'
  BY <1>1 DEF IInv, Typed
<1>3. MongoFound'
  BY <1>1 DEF IInv, MongoFound, Right, OracleStages, OracleQuestions
<1>4. OracleFound' /\ GoodFound'
  BY <1>1 DEF IInv, OracleFound, GoodFound, Right, GoodOracle
<1> QED BY <1>2, <1>3, <1>4 DEF IInv

\* A reconfigured mongod is not what was verified.
LEMMA ReconfigureStep == IInv /\ Reconfigure => IInv'
<1> SUFFICES ASSUME IInv, Reconfigure PROVE IInv'
  OBVIOUS
<1>1. /\ mongod' \in MongoSettings /\ changed' = TRUE
      /\ UNCHANGED <<oracle, at, status, failed, exit, lost>>
  BY DEF Reconfigure, command
<1>2. Typed'
  BY <1>1 DEF IInv, Typed
<1>3. MongoFound' /\ OracleFound' /\ GoodFound'
  BY <1>1 DEF IInv, MongoFound, OracleFound, GoodFound
<1> QED BY <1>2, <1>3 DEF IInv

\* The inductive invariant of infra verify and of what happens around it.
THEOREM PreflightInvariance == Spec => []IInv
<1>1. ASSUME IInv, [Next]_vars PROVE IInv'
  <2>1. CASE Next
    BY <1>1, <2>1, VerifyStep, AskMongoStep, AskOracleStep, OracleErrsStep, RaisesStep,
       JudgeOracleStep, ExitStep, ReconfigureStep DEF Next
  <2>2. CASE UNCHANGED vars
    <3>1. UNCHANGED <<mongod, oracle, at, status, failed, exit, changed, lost>>
      BY <2>2 DEF vars, command, history
    <3>2. Typed' /\ MongoFound'
      BY <1>1, <3>1 DEF IInv, Typed, MongoFound, Right
    <3>3. OracleFound' /\ GoodFound'
      BY <1>1, <3>1 DEF IInv, OracleFound, GoodFound, Right, GoodOracle
    <3> QED BY <3>2, <3>3 DEF IInv
  <2> QED BY <1>1, <2>1, <2>2
<1> QED BY <1>1, InitIInv, PTL DEF Spec

\* Exit status 0 of an undisturbed command means servers as the benchmark needs them.
THEOREM ZeroIsEarned == Spec => []ExitZeroIsEarned
<1>1. IInv => ExitZeroIsEarned
  BY DEF IInv, MongoFound, OracleFound, Right, ExitZeroIsEarned
<1> QED BY <1>1, PreflightInvariance, PTL

\* Servers as the documentation asks for them get exit status 0 unless a call fails.
THEOREM GoodPass == Spec => []GoodEnginesPass
<1>1. IInv => GoodEnginesPass
  BY DEF IInv, Typed, GoodFound, Right, GoodOracle, GoodEnginesPass
<1> QED BY <1>1, PreflightInvariance, PTL
==================================================================================

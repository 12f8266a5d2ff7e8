--------------------------- MODULE PairedMeasurement ---------------------------
(***************************************************************************)
(* What a benchmark run promises, without its loop, its lists and its      *)
(* phases: rounds in which both engines are observed once, of which the    *)
(* first `warmup` are set aside, and one report that is a function of the  *)
(* rounds.  Which rounds a negative warm-up sets aside is not promised,    *)
(* only that they are the first ones, and the same for both engines.       *)
(* ScenarioRunner implements it.                                           *)
(***************************************************************************)
EXTENDS Integers, Sequences

CONSTANTS Rows, EmptyRows, Times, Invocations

Engines == {"mongo", "oracle"}

VARIABLES
  inv,     \* the invocation: how many rounds are warm-up and how many measured
  rounds,  \* the finished rounds: what each engine answered
  report   \* Pending, Abandoned, or the report

vars == <<inv, rounds, report>>

Answer == { a \in [ok : BOOLEAN, rows : Rows, ms : Times] : ~a.ok => a.rows = EmptyRows }
Round == [Engines -> Answer]

Measured == { i \in DOMAIN rounds : i > inv.warmup }
Successes(e) == { i \in Measured : rounds[i][e].ok }

\* The answer of the last measured round in which e succeeded.
LastAnswer(e) ==
  IF Successes(e) = {} THEN EmptyRows
  ELSE rounds[CHOOSE i \in Successes(e) : \A j \in Successes(e) : j <= i][e].rows

Failures(e) == { i \in DOMAIN rounds : ~rounds[i][e].ok }

\* The number of rounds the invocation asks for.
Planned == IF inv.warmup + inv.measure > 0 THEN inv.warmup + inv.measure ELSE 0

\* The numbers of rounds that may be set aside: the warm-up, or all the rounds
\* when the loop ended within it.
SetAside == { n \in 0..Len(rounds) : inv.warmup >= 0 => n = inv.warmup \/ (n = Len(rounds) /\ n < inv.warmup) }

\* The times of the rounds after the first n.
Sample(e, n) == [k \in 1..(Len(rounds) - n) |-> rounds[n + k][e].ms]

Pending == [kind |-> "pending"]
Abandoned == [kind |-> "abandoned"]

Report(n) ==
  [kind     |-> "report",
   sample   |-> [e \in Engines |-> Sample(e, n)],
   failures |-> [e \in Engines |-> Failures(e)],
   match    |-> LastAnswer("mongo") = LastAnswer("oracle")]

Init ==
  /\ inv \in Invocations
  /\ rounds = <<>>
  /\ report = Pending

Observe ==
  /\ report = Pending
  /\ Len(rounds) < Planned
  /\ \E r \in Round : rounds' = Append(rounds, r)
  /\ UNCHANGED <<inv, report>>

Publish ==
  /\ report = Pending
  /\ Len(rounds) = Planned
  /\ \E n \in SetAside : report' = Report(n)
  /\ UNCHANGED <<inv, rounds>>

\* A run that ends early reports nothing.
Abandon ==
  /\ report = Pending
  /\ report' = Abandoned
  /\ UNCHANGED <<inv, rounds>>

Next == Observe \/ Publish \/ Abandon

Spec == Init /\ [][Next]_vars
===============================================================================

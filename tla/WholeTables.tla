------------------------------ MODULE WholeTables ------------------------------
(***************************************************************************)
(* What a load promises of the Oracle schema, whatever goes wrong in it    *)
(* and however often it is repeated: a table changes only by being dropped,*)
(* by being created empty, or by receiving the whole of one file of the    *)
(* directory being loaded in one step; and a load that succeeds leaves     *)
(* every table holding exactly that directory.                             *)
(***************************************************************************)
CONSTANTS
  Names,     \* the tables
  Absent,    \* the content of a table that does not exist
  Empty,     \* the content of a table without rows
  Contents   \* Contents[d][t]: what table t holds after a load of d

VARIABLES
  state,     \* "loading", "loaded" or "stopped"
  from,      \* the directory of the last load
  tables     \* the committed content of each table

Init ==
  /\ state = "stopped"
  /\ from \in DOMAIN Contents
  /\ tables = [t \in Names |-> Absent]

Begin ==
  /\ state # "loading"
  /\ state' = "loading"
  /\ from' \in DOMAIN Contents
  /\ UNCHANGED tables

Change(t, old, new) ==
  /\ state = "loading"
  /\ tables[t] \in old
  /\ tables' = [tables EXCEPT ![t] = new]
  /\ state' \in {"loading", "stopped"}
  /\ UNCHANGED from

Drop(t)   == tables[t] # Absent /\ Change(t, {tables[t]}, Absent)
Create(t) == Change(t, {Absent}, Empty)
Fill(t)   == Change(t, {Empty}, Contents[from][t])

Succeed ==
  /\ state = "loading"
  /\ tables = Contents[from]
  /\ state' = "loaded"
  /\ UNCHANGED <<from, tables>>

Stop ==
  /\ state = "loading"
  /\ state' = "stopped"
  /\ UNCHANGED <<from, tables>>

Next == Begin \/ Succeed \/ Stop \/ \E t \in Names : Drop(t) \/ Create(t) \/ Fill(t)

Spec == Init /\ [][Next]_<<state, from, tables>>
================================================================================

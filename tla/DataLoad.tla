------------------------------- MODULE DataLoad --------------------------------
(***************************************************************************)
(* The "data load" command (cli.data_load): load_mongodb, then             *)
(* create_schema and load_oracle, over directories the generator wrote.    *)
(* The operator repeats the command with any directory and target; any     *)
(* call to a database may fail, and the process may die between two calls. *)
(* MongoDB keeps every row of every batch sent; Oracle keeps what was      *)
(* committed, and DDL commits by itself.                                   *)
(*                                                                         *)
(* A row is a function from its key and reference columns to numbers, 0    *)
(* for NULL; the other columns and their coercion to types are left out.   *)
(* A collection that does not exist is a collection without rows.          *)
(***************************************************************************)
EXTENDS Naturals, Sequences, Functions

CONSTANTS
  Files,      \* Files[d][f]: the rows of the files of each directory
  BatchSize,  \* rows per bulk_write and per executemany
  Absent,     \* the content of a table that does not exist
  MaxFaults   \* bound: faults over the whole history

Dirs == DOMAIN Files
Null == 0

-------------------------------------------------------------------------------
(* The collections, tables and files.                                      *)

\* _ENTITIES: the collections in loading order, each named as its file.
MongoEntities == <<"regions", "suppliers", "categories", "products", "customers",
                   "orders", "employees", "parts", "bom_edges">>
Collections == Range(MongoEntities)

\* The collections with a unique index on the key the benchmark gives them.
UniquelyIndexed == {"customers", "products", "categories", "regions", "suppliers",
                    "employees", "parts"}

DropOrder_Forgets ==
  <<"customer_referrals", "bom_edges", "parts", "employees", "orders_doc", "products",
    "customers", "categories", "suppliers", "regions">>

DropOrder == <<"customer_referrals", "bom_edges", "parts", "employees",
               "customer_summary", "orders_doc", "products", "customers",
               "categories", "suppliers", "regions">>

\* The order of _DDL_STATEMENTS.
CreateOrder == <<"regions", "suppliers", "categories", "customers", "products",
                 "orders_doc", "customer_summary", "employees", "parts", "bom_edges",
                 "customer_referrals">>
Tables == Range(CreateOrder)

LoadOrder_ProductsFirst ==
  <<"regions", "suppliers", "products", "categories", "customers", "orders_doc",
    "employees", "parts", "bom_edges", "customer_referrals">>

\* The tables load_oracle fills, in order.
LoadOrder == <<"regions", "suppliers", "categories", "customers", "products",
               "orders_doc", "employees", "parts", "bom_edges", "customer_referrals">>

\* The REFERENCES clauses: a column of the table and the table it refers to.
ForeignKeys == [t \in Tables |->
  CASE t = "categories" -> {<<"parent_id", "categories">>}
    [] t = "customers"  -> {<<"region_id", "regions">>}
    [] t = "products"   -> {<<"category_id", "categories">>, <<"supplier_id", "suppliers">>}
    [] t = "employees"  -> {<<"manager_id", "employees">>}
    [] t = "bom_edges"  -> {<<"parent_part_id", "parts">>, <<"child_part_id", "parts">>}
    [] t = "customer_referrals" -> {<<"id", "customers">>, <<"referred_by", "customers">>}
    [] OTHER -> {}]

\* The file a table is loaded from, and the tables skipped without theirs.
FileOf == [t \in Tables |->
  CASE t = "orders_doc" -> "orders"
    [] t = "customer_referrals" -> "customers"
    [] OTHER -> t]
Optional == {"employees", "parts", "bom_edges"}

\* _load_categories: roots first, then children, each part in file order.
RootsFirst(rows) ==
  SelectSeq(rows, LAMBDA r : r.parent_id = Null) \o
  SelectSeq(rows, LAMBDA r : r.parent_id # Null)

\* The rows to insert in a table, none when nothing is loaded into it.
TableRows(d, t) ==
  IF t = "customer_summary" \/ FileOf[t] \notin DOMAIN Files[d] THEN <<>>
  ELSE IF t = "categories" THEN RootsFirst(Files[d][t])
  ELSE Files[d][FileOf[t]]

Contents == [d \in Dirs |-> [t \in Tables |-> TableRows(d, t)]]

Rows == UNION {UNION {Range(Files[d][f]) : f \in DOMAIN Files[d]} : d \in Dirs}

ASSUME LoadAssumption ==
  /\ BatchSize \in Nat \ {0}
  /\ MaxFaults \in Nat
  /\ Absent \notin Seq(Rows)
  /\ \A d \in Dirs : DOMAIN Files[d] \subseteq Collections
  /\ \A d \in Dirs : \A f \in DOMAIN Files[d] : Files[d][f] \in Seq(Rows)
  /\ \A d \in Dirs : \A t \in Tables : Contents[d][t] \in Seq(Rows)

-------------------------------------------------------------------------------
VARIABLES
  status,    \* "idle", "loading", "ok" or "failed"
  dir,       \* the directory of the command
  target,    \* --target
  pc,        \* the loop the command is in
  at,        \* the element of the order that loop is at
  sent,      \* the rows of the current file given to its engine
  mongo,     \* the content of each collection
  oracle,    \* the committed content of each table
  pending,   \* the uncommitted rows of the current table
  faults,    \* faults so far
  faulted    \* history: a fault hit the current command

cmd == <<dir, target>>
vars == <<status, cmd, pc, at, sent, mongo, oracle, pending, faults, faulted>>

Init ==
  /\ status = "idle"
  /\ dir \in Dirs /\ target \in {"both", "mongo", "oracle"}
  /\ pc = "mongo" /\ at = 1 /\ sent = 0
  /\ mongo = [c \in Collections |-> <<>>]
  /\ oracle = [t \in Tables |-> Absent]
  /\ pending = <<>>
  /\ faults = 0 /\ faulted = FALSE

\* The operator runs the command, whatever the last one left.
Run ==
  /\ status # "loading"
  /\ status' = "loading"
  /\ dir' \in Dirs /\ target' \in {"both", "mongo", "oracle"}
  /\ pc' = IF target' = "oracle" THEN "drop" ELSE "mongo"
  /\ at' = 1 /\ sent' = 0 /\ faulted' = FALSE
  /\ UNCHANGED <<mongo, oracle, pending, faults>>

\* The end of the command; what was not committed is rolled back.
End(s) ==
  /\ status' = s
  /\ pending' = <<>>
  /\ UNCHANGED <<cmd, pc, at, sent, faults, faulted>>

Fault == faults < MaxFaults /\ faults' = faults + 1 /\ faulted' = TRUE
NoFault == UNCHANGED <<faults, faulted>>

GoTo(p, i) == pc' = p /\ at' = i /\ sent' = 0

At(p) == status = "loading" /\ pc = p

-------------------------------------------------------------------------------
(* MongoDB: load_mongodb.                                                  *)

Entity == MongoEntities[at]
HasFile == Entity \in DOMAIN Files[dir]
Batch(rows) == SubSeq(rows, sent + 1,
                      IF sent + BatchSize < Len(rows) THEN sent + BatchSize ELSE Len(rows))

\* The next entity; a missing file is passed over before the drop.
NextEntity ==
  /\ IF at < Len(MongoEntities) THEN GoTo("mongo", at + 1) ELSE GoTo("mongo_index", 1)
  /\ NoFault
  /\ UNCHANGED <<status, cmd, oracle, pending>>

SkipEntity == At("mongo") /\ ~HasFile /\ NextEntity /\ UNCHANGED mongo

DropCollection ==
  /\ At("mongo") /\ HasFile
  /\ mongo' = [mongo EXCEPT ![Entity] = <<>>]
  /\ pc' = "mongo_batch" /\ NoFault
  /\ UNCHANGED <<status, cmd, at, sent, oracle, pending>>

BulkWrite ==
  /\ At("mongo_batch")
  /\ LET batch == Batch(Files[dir][Entity]) IN
     /\ batch # <<>>
     /\ mongo' = [mongo EXCEPT ![Entity] = @ \o batch]
     /\ sent' = sent + Len(batch)
  /\ NoFault
  /\ UNCHANGED <<status, cmd, pc, at, oracle, pending>>

EntityLoaded_ForgetsTheTail ==
  /\ At("mongo_batch")
  /\ sent + BatchSize > Len(Files[dir][Entity])
  /\ NextEntity
  /\ UNCHANGED mongo

EntityLoaded ==
  /\ At("mongo_batch")
  /\ sent = Len(Files[dir][Entity])
  /\ NextEntity
  /\ UNCHANGED mongo

\* bulk_write is unordered: when it raises, any part of the batch may be there.
BulkWriteFails ==
  /\ At("mongo_batch")
  /\ LET batch == Batch(Files[dir][Entity]) IN
     \E n \in 1 .. Len(batch) : \E part \in [1 .. n -> DOMAIN batch] :
       /\ \A i, j \in 1 .. n : i < j => part[i] < part[j]
       /\ mongo' = [mongo EXCEPT ![Entity] = @ \o [i \in 1 .. n |-> batch[part[i]]]]
  /\ Fault
  /\ status' = "failed"
  /\ UNCHANGED <<cmd, pc, at, sent, oracle, pending>>

\* _create_indexes; a duplicate key makes a unique index fail.
HasUniqueKeys(rows) == \A i, j \in DOMAIN rows : rows[i].id = rows[j].id => i = j
MongoIndexes ==
  /\ At("mongo_index")
  /\ IF \A c \in UniquelyIndexed : HasUniqueKeys(mongo[c])
     THEN IF target = "mongo"
          THEN End("ok")
          ELSE /\ GoTo("drop", 1) /\ NoFault
               /\ UNCHANGED <<status, cmd, pending>>
     ELSE End("failed")
  /\ UNCHANGED <<mongo, oracle>>

-------------------------------------------------------------------------------
(* Oracle: create_schema, load_oracle.                                     *)

\* DROP TABLE ... CASCADE CONSTRAINTS; an error is suppressed, also when it
\* is another than "the table does not exist".
DropTable ==
  /\ At("drop")
  /\ LET t == DropOrder[at] IN
     \/ oracle' = [oracle EXCEPT ![t] = Absent] /\ NoFault
     \/ oracle[t] # Absent /\ Fault /\ UNCHANGED oracle
  /\ IF at < Len(DropOrder) THEN GoTo("drop", at + 1) ELSE GoTo("create", 1)
  /\ UNCHANGED <<status, cmd, mongo, pending>>

\* CREATE TABLE: refused when the table exists or a table it refers to does not.
CanCreate(t) ==
  /\ oracle[t] = Absent
  /\ \A fk \in ForeignKeys[t] : fk[2] = t \/ oracle[fk[2]] # Absent

CreateTable_IfNotExists ==
  /\ At("create")
  /\ oracle' = [oracle EXCEPT ![CreateOrder[at]] = IF @ = Absent THEN <<>> ELSE @]
  /\ IF at < Len(CreateOrder) THEN GoTo("create", at + 1) ELSE GoTo("table", 1)
  /\ NoFault
  /\ UNCHANGED <<status, cmd, mongo, pending>>

CreateTable ==
  /\ At("create")
  /\ LET t == CreateOrder[at] IN
     IF CanCreate(t)
     THEN /\ oracle' = [oracle EXCEPT ![t] = <<>>]
          /\ IF at < Len(CreateOrder) THEN GoTo("create", at + 1) ELSE GoTo("table", 1)
          /\ NoFault
          /\ UNCHANGED <<status, cmd, pending>>
     ELSE End("failed") /\ UNCHANGED oracle
  /\ UNCHANGED <<mongo>>

Table == LoadOrder[at]
TableFile == FileOf[Table] \in DOMAIN Files[dir]

NextTable_Beyond == IF at <= Len(LoadOrder) THEN GoTo("table", at + 1) ELSE GoTo("index", 1)
NextTable == IF at < Len(LoadOrder) THEN GoTo("table", at + 1) ELSE GoTo("index", 1)

SkipTable ==
  /\ At("table") /\ ~TableFile /\ Table \in Optional
  /\ NextTable /\ NoFault
  /\ UNCHANGED <<status, cmd, mongo, oracle, pending>>

\* Opening a required file that is not there raises.
FileMissing ==
  /\ At("table") /\ ~TableFile /\ Table \notin Optional
  /\ End("failed")
  /\ UNCHANGED <<mongo, oracle>>

\* Whether the rows of table t, inserted after the first n of them, meet its
\* primary key and its foreign keys, row by row.
Accepts(t, rows, n) ==
  \A k \in n + 1 .. Len(rows) :
    /\ \A j \in 1 .. k - 1 : rows[j].id # rows[k].id
    /\ \A fk \in ForeignKeys[t] :
         \/ rows[k][fk[1]] = Null
         \/ \E r \in IF fk[2] = t THEN Range(SubSeq(rows, 1, k)) ELSE Range(oracle[fk[2]]) :
              r.id = rows[k][fk[1]]

InsertBatch_AutoCommit ==
  /\ At("table") /\ TableFile
  /\ LET batch == Batch(TableRows(dir, Table)) IN
     /\ batch # <<>>
     /\ oracle' = [oracle EXCEPT ![Table] = @ \o batch]
     /\ sent' = sent + Len(batch)
  /\ NoFault
  /\ UNCHANGED <<status, cmd, pc, at, mongo, pending>>

\* executemany inside the transaction of the table.
InsertBatch ==
  /\ At("table") /\ TableFile
  /\ LET batch == Batch(TableRows(dir, Table))
         known == oracle[Table] \o pending
     IN /\ batch # <<>>
        /\ IF Accepts(Table, known \o batch, Len(known))
           THEN /\ pending' = pending \o batch
                /\ sent' = sent + Len(batch)
                /\ NoFault
                /\ UNCHANGED <<status, cmd, pc, at>>
           ELSE End("failed")
  /\ UNCHANGED <<mongo, oracle>>

Publish == oracle' = [oracle EXCEPT ![Table] = @ \o pending]

\* The one commit of a table.
Commit ==
  /\ At("table") /\ TableFile
  /\ sent = Len(TableRows(dir, Table))
  /\ Publish
  /\ pending' = <<>>
  /\ NextTable /\ NoFault
  /\ UNCHANGED <<status, cmd, mongo>>

\* The connection breaks after Oracle committed and before it said so.
CommitUnanswered ==
  /\ At("table") /\ TableFile
  /\ sent = Len(TableRows(dir, Table))
  /\ Publish
  /\ status' = "failed" /\ pending' = <<>> /\ Fault
  /\ UNCHANGED <<cmd, pc, at, sent, mongo>>

\* _create_indexes: what an index DDL raises is suppressed; indexes are left out.
CreateIndexes ==
  /\ At("index")
  /\ GoTo("stats", 1) /\ NoFault
  /\ UNCHANGED <<status, cmd, mongo, oracle, pending>>

GatherStats == At("stats") /\ End("ok") /\ UNCHANGED <<mongo, oracle>>

-------------------------------------------------------------------------------
\* A call raises, or the process dies, between two steps.
Fail ==
  /\ status = "loading"
  /\ status' = "failed" /\ pending' = <<>> /\ Fault
  /\ UNCHANGED <<cmd, pc, at, sent, mongo, oracle>>

MongoStep == SkipEntity \/ DropCollection \/ BulkWrite \/ EntityLoaded \/ MongoIndexes
OracleStep == \/ DropTable \/ CreateTable
              \/ SkipTable \/ FileMissing \/ InsertBatch \/ Commit
              \/ CreateIndexes \/ GatherStats

Next == Run \/ MongoStep \/ OracleStep \/ BulkWriteFails \/ CommitUnanswered \/ Fail

Spec == Init /\ [][Next]_vars

\* A running command goes on; nobody has to run another one.
FairSpec == Spec /\ WF_vars(MongoStep \/ OracleStep)

-------------------------------------------------------------------------------
\* How many elements the order of each loop has.
Turns(p) == CASE p \in {"mongo", "mongo_batch"} -> Len(MongoEntities)
              [] p = "drop"   -> Len(DropOrder)
              [] p = "create" -> Len(CreateOrder)
              [] p = "table"  -> Len(LoadOrder)
              [] OTHER -> 1

\* Every variable has its type; the position stays inside the order it indexes.
TypeOK ==
  /\ status \in {"idle", "loading", "ok", "failed"}
  /\ dir \in Dirs /\ target \in {"both", "mongo", "oracle"}
  /\ pc \in {"mongo", "mongo_batch", "mongo_index", "drop", "create", "table",
             "index", "stats"}
  /\ at \in 1 .. Turns(pc)
  /\ sent \in Nat
  /\ mongo \in [Collections -> Seq(Rows)]
  /\ oracle \in [Tables -> Seq(Rows) \cup {Absent}]
  /\ pending \in Seq(Rows)
  /\ faulted \in BOOLEAN
  /\ faults \in 0 .. MaxFaults

\* A command that says it loaded Oracle left in every table exactly the rows
\* of its directory, whatever earlier commands, failures and suppressed drop
\* errors left there (create_schema drops without asking, one commit a table).
LoadedOracleIsDirectory ==
  status = "ok" /\ target # "mongo" => oracle = Contents[dir]

\* A command that says it loaded MongoDB left in the collection of every file
\* of its directory exactly the rows of the file, although a broken load left
\* part of a batch there and nothing is transactional (load_mongodb).
LoadedMongoIsDirectory ==
  status = "ok" /\ target # "oracle" =>
    \A c \in DOMAIN Files[dir] : mongo[c] = Files[dir][c]

\* A directory whose rows meet every constraint: keys are unique, and each
\* reference is to a row of another table or to one of the same that is
\* no later in the file.
WellFormed(d) ==
  /\ \A f \in DOMAIN Files[d] : HasUniqueKeys(Files[d][f])
  /\ \A t \in Tables : LET rows == Contents[d][t] IN
       /\ HasUniqueKeys(rows)
       /\ \A k \in DOMAIN rows : \A fk \in ForeignKeys[t] :
            \/ rows[k][fk[1]] = Null
            \/ \E r \in IF fk[2] = t THEN Range(SubSeq(rows, 1, k)) ELSE Range(Contents[d][fk[2]]) :
                 r.id = rows[k][fk[1]]

\* The orders of drops, creations and loads satisfy every foreign key: a
\* command fails only when a call failed or a required file is missing, never
\* because of what an earlier command left.
FailureHasACause ==
  status = "failed" =>
    \/ faulted
    \/ target # "mongo" /\ \E t \in Range(LoadOrder) :
                             t \notin Optional /\ FileOf[t] \notin DOMAIN Files[dir]

\* Once the faults are over, running the command again on a complete
\* directory loads it: nothing earlier commands left is in the way for good.
Complete(d) == \A t \in Range(LoadOrder) : FileOf[t] \in DOMAIN Files[d]
RetryLoads ==
  (status = "loading" /\ ~faulted /\ faults = MaxFaults /\ Complete(dir))
    ~> (status = "ok")

\* What the Oracle half implements: its committed content is the abstract one,
\* and a command that does not address Oracle is a load that stops.
AbstractState ==
  IF status = "loading" THEN "loading"
  ELSE IF status = "ok" /\ target # "mongo" THEN "loaded" ELSE "stopped"

Abstract == INSTANCE WholeTables WITH
  Names <- Tables, Empty <- <<>>, state <- AbstractState, from <- dir, tables <- oracle

\* Readers of Oracle see each table absent, empty or whole, whatever fails in
\* the middle of a batch, at a commit or between two tables (one commit per
\* table in _executemany_with_stats, DDL in create_schema).
ImplementsWholeTables == Abstract!Spec

-------------------------------------------------------------------------------
(* The inductive invariant behind the three properties of success: what    *)
(* each loop has done when it is at its at-th element.                     *)

IsLoaded(c) == c \in DOMAIN Files[dir] => mongo[c] = Files[dir][c]

MongoProgress == status = "loading" =>
  /\ pc = "mongo" => sent = 0
  /\ pc \in {"mongo", "mongo_batch"} => \A i \in 1 .. at - 1 : IsLoaded(MongoEntities[i])
  /\ pc = "mongo_batch" =>
       /\ HasFile
       /\ sent <= Len(Files[dir][Entity])
       /\ mongo[Entity] = SubSeq(Files[dir][Entity], 1, sent)
  /\ pc \notin {"mongo", "mongo_batch"} /\ target # "oracle" =>
       \A c \in Collections : IsLoaded(c)

LoadedBefore(n) == {LoadOrder[i] : i \in 1 .. n - 1}

OracleProgress ==
  /\ status # "loading" \/ pc # "table" => pending = <<>>
  /\ status = "loading" =>
       /\ pc = "create" => \A i \in 1 .. at - 1 : oracle[CreateOrder[i]] = <<>>
       /\ pc = "table" =>
            /\ \A t \in Tables :
                 oracle[t] = IF t \in LoadedBefore(at) THEN Contents[dir][t] ELSE <<>>
            /\ sent <= Len(Contents[dir][Table])
            /\ pending = SubSeq(Contents[dir][Table], 1, sent)
       /\ pc \in {"index", "stats"} => oracle = Contents[dir]

IInv == /\ TypeOK
        /\ MongoProgress
        /\ OracleProgress
        /\ LoadedOracleIsDirectory
        /\ LoadedMongoIsDirectory
================================================================================

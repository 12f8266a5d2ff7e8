---------------------------- MODULE DataLoadProofs -----------------------------
(***************************************************************************)
(* Proofs about DataLoad for all directories, rows, batch sizes and any    *)
(* number of faults and repeated commands.                                 *)
(***************************************************************************)
EXTENDS DataLoad, SequenceTheorems, WellFoundedInduction, TLAPS

-------------------------------------------------------------------------------
(* The orders.                                                             *)

LEMMA Orders ==
  /\ Len(MongoEntities) = 9 /\ Len(DropOrder) = 11
  /\ Len(CreateOrder) = 11 /\ Len(LoadOrder) = 10
  BY DEF MongoEntities, DropOrder, CreateOrder, LoadOrder

LEMMA TurnsAre ==
  /\ \A p \in {"mongo", "mongo_batch"} : Turns(p) = 9
  /\ Turns("drop") = 11 /\ Turns("create") = 11 /\ Turns("table") = 10
  /\ \A p \in {"mongo_index", "index", "stats"} : Turns(p) = 1
  BY Orders DEF Turns

LEMMA MongoEntitiesCover ==
  /\ \A i \in 1 .. 9 : MongoEntities[i] \in Collections
  /\ \A c \in Collections : \E i \in 1 .. 9 : MongoEntities[i] = c
  /\ \A i, j \in 1 .. 9 : MongoEntities[i] = MongoEntities[j] => i = j
<1>1. Collections = {MongoEntities[i] : i \in 1 .. 9}
  BY Orders DEF Collections, MongoEntities, Range
<1>2. \A i, j \in 1 .. 9 : MongoEntities[i] = MongoEntities[j] => i = j
  BY DEF MongoEntities
<1>. QED
  BY <1>1, <1>2

LEMMA CreateOrderCovers ==
  /\ \A i \in 1 .. 11 : CreateOrder[i] \in Tables
  /\ \A t \in Tables : \E i \in 1 .. 11 : CreateOrder[i] = t
<1>1. Tables = {CreateOrder[i] : i \in 1 .. 11}
  BY Orders DEF Tables, CreateOrder, Range
<1>. QED
  BY <1>1

LEMMA TablesAre ==
  Tables = {"regions", "suppliers", "categories", "customers", "products", "orders_doc",
            "customer_summary", "employees", "parts", "bom_edges", "customer_referrals"}
  BY DEF Tables, CreateOrder, Range

\* Every table is loaded once, but for customer_summary, which stays empty.
LEMMA LoadOrderCovers ==
  /\ \A i \in 1 .. 10 : LoadOrder[i] \in Tables
  /\ \A t \in Tables : t = "customer_summary" \/ \E i \in 1 .. 10 : LoadOrder[i] = t
  /\ \A i, j \in 1 .. 10 : LoadOrder[i] = LoadOrder[j] => i = j
<1>1. \A i \in 1 .. 10 : LoadOrder[i] \in Tables
  BY TablesAre DEF LoadOrder
<1>2. \A t \in Tables : t = "customer_summary" \/ \E i \in 1 .. 10 : LoadOrder[i] = t
  BY TablesAre DEF LoadOrder
<1>3. \A i, j \in 1 .. 10 : LoadOrder[i] = LoadOrder[j] => i = j
  BY DEF LoadOrder
<1>. QED
  BY <1>1, <1>2, <1>3

LEMMA DropOrderTables == \A i \in 1 .. 11 : DropOrder[i] \in Tables
  BY TablesAre DEF DropOrder

LEMMA ContentsType ==
  /\ \A d \in Dirs : Contents[d] \in [Tables -> Seq(Rows)]
  /\ \A d \in Dirs : Contents[d]["customer_summary"] = <<>>
  /\ \A d \in Dirs, t \in Tables : FileOf[t] \notin DOMAIN Files[d] => Contents[d][t] = <<>>
  /\ \A d \in Dirs, t \in Tables : TableRows(d, t) = Contents[d][t]
<1>1. \A d \in Dirs : Contents[d] \in [Tables -> Seq(Rows)]
  BY LoadAssumption DEF Contents
<1>2. \A d \in Dirs, t \in Tables : TableRows(d, t) = Contents[d][t]
  BY DEF Contents
<1>3. \A d \in Dirs : Contents[d]["customer_summary"] = <<>>
  BY TablesAre, <1>2 DEF TableRows
<1>4. \A d \in Dirs, t \in Tables : FileOf[t] \notin DOMAIN Files[d] => Contents[d][t] = <<>>
  BY <1>2 DEF TableRows
<1>. QED
  BY <1>1, <1>2, <1>3, <1>4

-------------------------------------------------------------------------------
(* Batches.                                                                *)

\* A batch is the next piece of the rows, and adding it to what was sent
\* gives a longer prefix.
LEMMA BatchExtends ==
  ASSUME NEW rows \in Seq(Rows), sent \in Nat, sent <= Len(rows), Batch(rows) # <<>>
  PROVE  /\ Batch(rows) \in Seq(Rows)
         /\ sent + Len(Batch(rows)) \in Nat
         /\ sent + Len(Batch(rows)) <= Len(rows)
         /\ SubSeq(rows, 1, sent) \o Batch(rows) = SubSeq(rows, 1, sent + Len(Batch(rows)))
<1>1. PICK n \in Nat : /\ n <= Len(rows) /\ Batch(rows) = SubSeq(rows, sent + 1, n)
                       /\ n > sent
  <2>1. PICK m \in Nat : m <= Len(rows) /\ Batch(rows) = SubSeq(rows, sent + 1, m)
    BY LoadAssumption DEF Batch
  <2>2. m > sent
    BY <2>1, SubSeqEmpty
  <2>. QED
    BY <2>1, <2>2
<1>2. Batch(rows) \in Seq(Rows) /\ Len(Batch(rows)) = n - sent
  BY <1>1
<1>3. SubSeq(rows, 1, sent) \o SubSeq(rows, sent + 1, n) = SubSeq(rows, 1, n)
  BY <1>1
<1>. QED
  BY <1>1, <1>2, <1>3

LEMMA BatchType ==
  ASSUME NEW rows \in Seq(Rows), sent \in Nat
  PROVE  Batch(rows) \in Seq(Rows)
<1>1. PICK m \in Nat : m <= Len(rows) /\ Batch(rows) = SubSeq(rows, sent + 1, m)
  BY LoadAssumption DEF Batch
<1>. QED
  BY <1>1

LEMMA WholePrefix ==
  ASSUME NEW rows \in Seq(Rows)
  PROVE  /\ SubSeq(rows, 1, Len(rows)) = rows
         /\ SubSeq(rows, 1, 0) = <<>>
         /\ <<>> \o rows = rows
  OBVIOUS

-------------------------------------------------------------------------------
(* The initial state and the start of a command.                           *)

LEMMA InitInvariant == Init => IInv
<1>. SUFFICES ASSUME Init PROVE IInv
  OBVIOUS
<1>1. TypeOK
  <2>1. at \in 1 .. Turns(pc) /\ sent \in Nat
    BY TurnsAre DEF Init
  <2>2. faults \in 0 .. MaxFaults
    BY LoadAssumption DEF Init
  <2>3. /\ mongo \in [Collections -> Seq(Rows)] /\ pending \in Seq(Rows)
        /\ oracle \in [Tables -> Seq(Rows) \cup {Absent}]
    BY DEF Init
  <2>4. status \in {"idle"} /\ pc \in {"mongo"} /\ faulted \in BOOLEAN
    BY DEF Init
  <2>. QED
    BY <2>1, <2>2, <2>3, <2>4 DEF Init, TypeOK
<1>2. MongoProgress /\ OracleProgress
  BY DEF Init, MongoProgress, OracleProgress
<1>3. LoadedOracleIsDirectory /\ LoadedMongoIsDirectory
  BY DEF Init, LoadedOracleIsDirectory, LoadedMongoIsDirectory
<1>. QED
  BY <1>1, <1>2, <1>3 DEF IInv

LEMMA RunInvariant == IInv /\ Run => IInv'
<1>. SUFFICES ASSUME IInv, Run PROVE IInv'
  OBVIOUS
<1>. USE DEF IInv, Run
<1>1. TypeOK'
  <2>1. pc' \in {"mongo", "drop"} /\ at' \in 1 .. Turns(pc')
    BY TurnsAre
  <2>2. faulted' \in BOOLEAN
    OBVIOUS
  <2>. QED
    BY <2>1, <2>2 DEF TypeOK
<1>2. MongoProgress'
  BY DEF MongoProgress
<1>3. OracleProgress'
  BY DEF OracleProgress
<1>4. LoadedOracleIsDirectory' /\ LoadedMongoIsDirectory'
  BY DEF LoadedOracleIsDirectory, LoadedMongoIsDirectory
<1>. QED
  BY <1>1, <1>2, <1>3, <1>4

\* A command that fails without touching the databases.
LEMMA EndFailed ==
  ASSUME IInv, status' = "failed", pending' = <<>>,
         UNCHANGED <<cmd, pc, at, sent, mongo, oracle>>,
         faults' \in 0 .. MaxFaults, faulted' \in BOOLEAN
  PROVE  IInv'
<1>1. TypeOK'
  BY DEF IInv, TypeOK, cmd
<1>2. MongoProgress' /\ OracleProgress'
  BY DEF MongoProgress, OracleProgress
<1>3. LoadedOracleIsDirectory' /\ LoadedMongoIsDirectory'
  BY DEF LoadedOracleIsDirectory, LoadedMongoIsDirectory
<1>. QED
  BY <1>1, <1>2, <1>3 DEF IInv

LEMMA FaultType ==
  ASSUME IInv, Fault \/ NoFault
  PROVE  faults' \in 0 .. MaxFaults /\ faulted' \in BOOLEAN
<1>1. faults' \in 0 .. MaxFaults
  BY LoadAssumption DEF IInv, TypeOK, Fault, NoFault
<1>2. faulted' \in BOOLEAN
  BY Zenon DEF IInv, TypeOK, Fault, NoFault
<1>. QED
  BY <1>1, <1>2

-------------------------------------------------------------------------------
(* MongoDB.                                                                *)

\* The current collection holds what it must: on to the next one.
LEMMA NextEntityInvariant ==
  ASSUME IInv, status = "loading", pc \in {"mongo", "mongo_batch"},
         IsLoaded(Entity), NextEntity, UNCHANGED mongo
  PROVE  IInv'
<1>. USE DEF IInv
<1>1. at \in 1 .. 9
  BY TurnsAre DEF TypeOK
<1>2. \A i \in 1 .. at : IsLoaded(MongoEntities[i])
  BY <1>1 DEF MongoProgress, Entity
<1>3. \A c : IsLoaded(c)' <=> IsLoaded(c)
  BY DEF IsLoaded, NextEntity, cmd
<1>4. CASE at < 9
  <2>1. pc' = "mongo" /\ at' = at + 1 /\ sent' = 0
    BY <1>4, Orders DEF NextEntity, GoTo
  <2>2. TypeOK'
    BY <1>1, <1>4, <2>1, FaultType, TurnsAre DEF TypeOK, NextEntity, cmd
  <2>3. MongoProgress'
    BY <1>1, <1>2, <1>3, <2>1 DEF MongoProgress
  <2>4. OracleProgress'
    BY <2>1 DEF OracleProgress, NextEntity
  <2>5. LoadedOracleIsDirectory' /\ LoadedMongoIsDirectory'
    BY DEF LoadedOracleIsDirectory, LoadedMongoIsDirectory, NextEntity
  <2>. QED
    BY <2>2, <2>3, <2>4, <2>5
<1>5. CASE at = 9
  <2>1. pc' = "mongo_index" /\ at' = 1 /\ sent' = 0
    BY <1>5, Orders DEF NextEntity, GoTo
  <2>2. TypeOK'
    BY <2>1, FaultType, TurnsAre DEF TypeOK, NextEntity, cmd
  <2>3. \A c \in Collections : IsLoaded(c)
    BY <1>2, <1>5, MongoEntitiesCover
  <2>4. MongoProgress'
    BY <1>3, <2>1, <2>3 DEF MongoProgress
  <2>5. OracleProgress'
    BY <2>1 DEF OracleProgress, NextEntity
  <2>6. LoadedOracleIsDirectory' /\ LoadedMongoIsDirectory'
    BY DEF LoadedOracleIsDirectory, LoadedMongoIsDirectory, NextEntity
  <2>. QED
    BY <2>2, <2>4, <2>5, <2>6
<1>. QED
  BY <1>1, <1>4, <1>5

LEMMA SkipEntityInvariant == IInv /\ SkipEntity => IInv'
<1>. SUFFICES ASSUME IInv, SkipEntity PROVE IInv'
  OBVIOUS
<1>1. IsLoaded(Entity)
  BY DEF SkipEntity, HasFile, IsLoaded
<1>. QED
  BY <1>1, NextEntityInvariant DEF SkipEntity, At

LEMMA EntityLoadedInvariant == IInv /\ EntityLoaded => IInv'
<1>. SUFFICES ASSUME IInv, EntityLoaded PROVE IInv'
  OBVIOUS
<1>1. HasFile /\ mongo[Entity] = SubSeq(Files[dir][Entity], 1, sent)
  BY DEF EntityLoaded, At, IInv, MongoProgress
<1>2. Files[dir][Entity] \in Seq(Rows)
  BY <1>1, LoadAssumption DEF HasFile, IInv, TypeOK
<1>3. IsLoaded(Entity)
  BY <1>1, <1>2, WholePrefix DEF EntityLoaded, IsLoaded
<1>. QED
  BY <1>3, NextEntityInvariant DEF EntityLoaded, At

LEMMA DropCollectionInvariant == IInv /\ DropCollection => IInv'
<1>. SUFFICES ASSUME IInv, DropCollection PROVE IInv'
  OBVIOUS
<1>. USE DEF IInv, DropCollection, At, cmd
<1>1. at \in 1 .. 9 /\ Entity \in Collections
  BY TurnsAre, MongoEntitiesCover DEF TypeOK, Entity
<1>2. TypeOK'
  BY <1>1, FaultType, TurnsAre DEF TypeOK
<1>3. mongo'[Entity] = <<>> /\ \A c \in Collections : c # Entity => mongo'[c] = mongo[c]
  BY <1>1 DEF TypeOK
<1>4. \A i \in 1 .. at - 1 : MongoEntities[i] \in Collections /\ MongoEntities[i] # Entity
  BY <1>1, MongoEntitiesCover DEF Entity
<1>5. MongoProgress'
  <2>1. \A i \in 1 .. at - 1 : IsLoaded(MongoEntities[i])'
    BY <1>3, <1>4 DEF MongoProgress, IsLoaded
  <2>2. Entity' = Entity /\ HasFile'
    BY DEF Entity, HasFile
  <2>3. sent' = 0
    BY DEF MongoProgress
  <2>4. Files[dir][Entity] \in Seq(Rows)
    BY LoadAssumption DEF HasFile, TypeOK
  <2>5. sent' <= Len(Files[dir][Entity]) /\ SubSeq(Files[dir][Entity], 1, sent') = <<>>
    BY <2>3, <2>4, WholePrefix
  <2>. QED
    BY <1>3, <2>1, <2>2, <2>5 DEF MongoProgress
<1>6. OracleProgress'
  BY DEF OracleProgress
<1>7. LoadedOracleIsDirectory' /\ LoadedMongoIsDirectory'
  BY DEF LoadedOracleIsDirectory, LoadedMongoIsDirectory
<1>. QED
  BY <1>2, <1>5, <1>6, <1>7

LEMMA BulkWriteInvariant == IInv /\ BulkWrite => IInv'
<1>. SUFFICES ASSUME IInv, BulkWrite PROVE IInv'
  OBVIOUS
<1>. USE DEF IInv, At, cmd
<1>. DEFINE file == Files[dir][Entity]
<1>1. at \in 1 .. 9 /\ Entity \in Collections
  BY TurnsAre, MongoEntitiesCover DEF TypeOK, Entity, BulkWrite
<1>2. HasFile /\ sent <= Len(file) /\ mongo[Entity] = SubSeq(file, 1, sent)
  BY DEF MongoProgress, BulkWrite
<1>3. file \in Seq(Rows) /\ sent \in Nat
  BY <1>2, LoadAssumption DEF HasFile, TypeOK
<1>4. /\ Batch(file) \in Seq(Rows) /\ Batch(file) # <<>>
      /\ sent' = sent + Len(Batch(file))
      /\ sent' \in Nat /\ sent' <= Len(file)
      /\ SubSeq(file, 1, sent) \o Batch(file) = SubSeq(file, 1, sent')
  BY <1>2, <1>3, BatchExtends DEF BulkWrite
<1>5. /\ mongo' \in [Collections -> Seq(Rows)]
      /\ mongo'[Entity] = SubSeq(file, 1, sent')
      /\ \A c \in Collections : c # Entity => mongo'[c] = mongo[c]
  <2>1. mongo[Entity] \o Batch(file) \in Seq(Rows)
    BY <1>1, <1>4 DEF TypeOK
  <2>2. mongo' = [mongo EXCEPT ![Entity] = mongo[Entity] \o Batch(file)]
    BY DEF BulkWrite
  <2>. QED
    BY <1>1, <1>2, <1>4, <2>1, <2>2 DEF TypeOK
<1>6. UNCHANGED <<status, dir, target, pc, at, oracle, pending>> /\ pc = "mongo_batch"
  BY DEF BulkWrite
<1>7. TypeOK'
  BY <1>4, <1>5, <1>6, FaultType DEF TypeOK, BulkWrite
<1>8. MongoProgress'
  <2>1. \A i \in 1 .. at - 1 : MongoEntities[i] \in Collections /\ MongoEntities[i] # Entity
    BY <1>1, MongoEntitiesCover DEF Entity
  <2>2. \A i \in 1 .. at - 1 : IsLoaded(MongoEntities[i])'
    BY <1>5, <1>6, <2>1 DEF MongoProgress, IsLoaded, BulkWrite
  <2>3. HasFile' /\ Entity' = Entity /\ Files[dir'][Entity'] = file
    BY <1>2, <1>6 DEF HasFile, Entity
  <2>. QED
    BY <1>4, <1>5, <1>6, <2>2, <2>3 DEF MongoProgress
<1>9. OracleProgress'
  BY <1>6 DEF OracleProgress
<1>10. LoadedOracleIsDirectory' /\ LoadedMongoIsDirectory'
  BY <1>6 DEF LoadedOracleIsDirectory, LoadedMongoIsDirectory, BulkWrite
<1>. QED
  BY <1>7, <1>8, <1>9, <1>10

\* A batch of which only a part arrived: typed, and nothing is promised.
LEMMA BulkWriteFailsInvariant == IInv /\ BulkWriteFails => IInv'
<1>. SUFFICES ASSUME IInv, BulkWriteFails PROVE IInv'
  OBVIOUS
<1>. USE DEF IInv, At, cmd
<1>. DEFINE file == Files[dir][Entity]
<1>1. at \in 1 .. 9 /\ Entity \in Collections
  BY TurnsAre, MongoEntitiesCover DEF TypeOK, Entity, BulkWriteFails
<1>2. HasFile /\ file \in Seq(Rows) /\ sent \in Nat
  BY LoadAssumption DEF MongoProgress, BulkWriteFails, HasFile, TypeOK
<1>3. Batch(file) \in Seq(Rows)
  BY <1>2, BatchType
<1>. PICK n \in 1 .. Len(Batch(file)) : \E part \in [1 .. n -> DOMAIN Batch(file)] :
        mongo' = [mongo EXCEPT ![Entity] =
                    mongo[Entity] \o [i \in 1 .. n |-> Batch(file)[part[i]]]]
  BY DEF BulkWriteFails
<1>4. PICK part \in [1 .. n -> DOMAIN Batch(file)] :
        mongo' = [mongo EXCEPT ![Entity] =
                    mongo[Entity] \o [i \in 1 .. n |-> Batch(file)[part[i]]]]
  OBVIOUS
<1>5. [i \in 1 .. n |-> Batch(file)[part[i]]] \in Seq(Rows)
  <2>1. n \in Nat
    BY <1>3
  <2>2. \A i \in 1 .. n : Batch(file)[part[i]] \in Rows
    BY <1>3
  <2>3. [i \in 1 .. n |-> Batch(file)[part[i]]] \in [1 .. n -> Rows]
    BY <2>2
  <2>. QED
    BY <2>1, <2>3
<1>6. mongo' \in [Collections -> Seq(Rows)]
  <2>1. mongo[Entity] \o [i \in 1 .. n |-> Batch(file)[part[i]]] \in Seq(Rows)
    BY <1>1, <1>5 DEF TypeOK
  <2>. QED
    BY <1>4, <2>1 DEF TypeOK
<1>7. TypeOK'
  BY <1>6, FaultType DEF TypeOK, BulkWriteFails
<1>8. MongoProgress' /\ OracleProgress'
  BY DEF MongoProgress, OracleProgress, BulkWriteFails
<1>9. LoadedOracleIsDirectory' /\ LoadedMongoIsDirectory'
  BY DEF LoadedOracleIsDirectory, LoadedMongoIsDirectory, BulkWriteFails
<1>. QED
  BY <1>7, <1>8, <1>9

LEMMA MongoIndexesInvariant == IInv /\ MongoIndexes => IInv'
<1>. SUFFICES ASSUME IInv, MongoIndexes PROVE IInv'
  OBVIOUS
<1>. USE DEF At, cmd
<1>1. pc = "mongo_index" /\ status = "loading" /\ UNCHANGED <<dir, target, mongo, oracle>>
  BY DEF MongoIndexes, End
<1>2. pending = <<>>
  BY <1>1 DEF IInv, OracleProgress
<1>3. CASE status' = "failed"
  <2>1. pending' = <<>> /\ UNCHANGED <<cmd, pc, at, sent, faults, faulted>>
    BY <1>1, <1>3 DEF MongoIndexes, End
  <2>. QED
    BY <1>1, <1>3, <2>1, EndFailed, FaultType DEF NoFault
<1>4. CASE status' # "failed" /\ target = "mongo"
  <2>1. /\ status' = "ok" /\ pending' = <<>>
        /\ UNCHANGED <<cmd, pc, at, sent, faults, faulted>>
    BY <1>1, <1>4 DEF MongoIndexes, End
  <2>2. TypeOK'
    BY <1>1, <2>1, FaultType DEF IInv, TypeOK, NoFault
  <2>3. MongoProgress' /\ OracleProgress'
    BY <1>1, <2>1 DEF MongoProgress, OracleProgress
  <2>4. \A c \in Collections : IsLoaded(c)
    BY <1>1, <1>4 DEF IInv, MongoProgress
  <2>5. DOMAIN Files[dir] \subseteq Collections
    BY LoadAssumption DEF IInv, TypeOK
  <2>6. LoadedMongoIsDirectory'
    BY <1>1, <2>4, <2>5 DEF LoadedMongoIsDirectory, IsLoaded
  <2>7. LoadedOracleIsDirectory'
    BY <1>1, <1>4 DEF LoadedOracleIsDirectory
  <2>. QED
    BY <2>2, <2>3, <2>6, <2>7 DEF IInv
<1>5. CASE status' # "failed" /\ target # "mongo"
  <2>1. /\ pc' = "drop" /\ at' = 1 /\ sent' = 0 /\ NoFault
        /\ UNCHANGED <<status, cmd, pending>>
    BY <1>1, <1>5 DEF MongoIndexes, GoTo, End
  <2>2. TypeOK'
    BY <1>1, <2>1, TurnsAre, FaultType DEF IInv, TypeOK
  <2>3. MongoProgress'
    BY <1>1, <2>1 DEF IInv, MongoProgress, IsLoaded
  <2>4. OracleProgress'
    BY <1>2, <2>1 DEF OracleProgress
  <2>5. LoadedOracleIsDirectory' /\ LoadedMongoIsDirectory'
    BY <1>1, <2>1 DEF LoadedOracleIsDirectory, LoadedMongoIsDirectory
  <2>. QED
    BY <2>2, <2>3, <2>4, <2>5 DEF IInv
<1>. QED
  BY <1>3, <1>4, <1>5

-------------------------------------------------------------------------------
(* Oracle.                                                                 *)

\* A step of the Oracle half that leaves MongoDB, and success, alone.
LEMMA OracleHalf ==
  ASSUME IInv, status = "loading", status' = "loading",
         pc \notin {"mongo", "mongo_batch"}, pc' \notin {"mongo", "mongo_batch"},
         UNCHANGED <<cmd, mongo>>
  PROVE  MongoProgress' /\ LoadedOracleIsDirectory' /\ LoadedMongoIsDirectory'
<1>1. MongoProgress'
  BY DEF IInv, MongoProgress, IsLoaded, cmd
<1>2. LoadedOracleIsDirectory' /\ LoadedMongoIsDirectory'
  BY DEF LoadedOracleIsDirectory, LoadedMongoIsDirectory
<1>. QED
  BY <1>1, <1>2

LEMMA DropTableInvariant == IInv /\ DropTable => IInv'
<1>. SUFFICES ASSUME IInv, DropTable PROVE IInv'
  OBVIOUS
<1>1. /\ pc = "drop" /\ status = "loading" /\ status' = "loading"
      /\ UNCHANGED <<cmd, mongo, pending>>
  BY DEF DropTable, At
<1>2. at \in 1 .. 11 /\ DropOrder[at] \in Tables
  BY <1>1, TurnsAre, DropOrderTables DEF IInv, TypeOK
<1>3. \/ pc' = "drop" /\ at' = at + 1 /\ at < 11 /\ sent' = 0
      \/ pc' = "create" /\ at' = 1 /\ sent' = 0
  BY Orders DEF DropTable, GoTo
<1>4. oracle' \in [Tables -> Seq(Rows) \cup {Absent}]
  BY <1>2 DEF DropTable, IInv, TypeOK
<1>5. TypeOK'
  <2>1. Fault \/ NoFault
    BY DEF DropTable
  <2>. QED
    BY <1>1, <1>2, <1>3, <1>4, <2>1, FaultType, TurnsAre DEF IInv, TypeOK, cmd
<1>6. OracleProgress'
  <2>1. pending = <<>>
    BY <1>1 DEF IInv, OracleProgress
  <2>. QED
    BY <1>1, <1>3, <2>1 DEF OracleProgress
<1>. QED
  BY <1>1, <1>3, <1>5, <1>6, OracleHalf DEF IInv

LEMMA CreateTableInvariant == IInv /\ CreateTable => IInv'
<1>. SUFFICES ASSUME IInv, CreateTable PROVE IInv'
  OBVIOUS
<1>1. pc = "create" /\ status = "loading" /\ UNCHANGED <<cmd, mongo>>
  BY DEF CreateTable, At, End
<1>2. at \in 1 .. 11 /\ CreateOrder[at] \in Tables
  BY <1>1, TurnsAre, CreateOrderCovers DEF IInv, TypeOK
<1>3. CASE ~CanCreate(CreateOrder[at])
  <2>1. End("failed") /\ UNCHANGED oracle
    BY <1>3 DEF CreateTable
  <2>2. NoFault
    BY <2>1 DEF End, NoFault
  <2>. QED
    BY <1>1, <2>1, <2>2, EndFailed, FaultType DEF End
<1>4. CASE CanCreate(CreateOrder[at])
  <2>1. /\ oracle' = [oracle EXCEPT ![CreateOrder[at]] = <<>>] /\ NoFault
        /\ UNCHANGED <<status, pending>>
        /\ \/ at < 11 /\ pc' = "create" /\ at' = at + 1 /\ sent' = 0
           \/ at = 11 /\ pc' = "table" /\ at' = 1 /\ sent' = 0
    BY <1>2, <1>4, Orders DEF CreateTable, GoTo
  <2>2. /\ oracle' \in [Tables -> Seq(Rows) \cup {Absent}]
        /\ \A i \in 1 .. at : oracle'[CreateOrder[i]] = <<>>
    <3>1. \A i \in 1 .. at - 1 : oracle[CreateOrder[i]] = <<>>
      BY <1>1 DEF IInv, OracleProgress
    <3>2. \A i \in 1 .. at : CreateOrder[i] \in Tables
      BY <1>2, CreateOrderCovers
    <3>3. \A i \in 1 .. at : oracle'[CreateOrder[i]] = <<>>
      BY <1>2, <2>1, <3>1, <3>2 DEF IInv, TypeOK
    <3>4. oracle' \in [Tables -> Seq(Rows) \cup {Absent}]
      BY <1>2, <2>1 DEF IInv, TypeOK
    <3>. QED
      BY <3>3, <3>4
  <2>3. TypeOK'
    BY <1>1, <1>2, <2>1, <2>2, FaultType, TurnsAre DEF IInv, TypeOK, cmd
  <2>4. pending = <<>>
    BY <1>1 DEF IInv, OracleProgress
  <2>5. ASSUME at < 11 PROVE OracleProgress'
    <3>1. pc' = "create" /\ at' = at + 1
      BY <2>1, <2>5
    <3>2. \A i \in 1 .. at' - 1 : oracle'[CreateOrder[i]] = <<>>
      BY <1>2, <2>2, <3>1
    <3>3. CreateOrder' = CreateOrder /\ pending' = <<>>
      BY <2>1, <2>4
    <3>. QED
      BY <3>1, <3>2, <3>3 DEF OracleProgress
  <2>6. ASSUME at = 11 PROVE OracleProgress'
    <3>1. \A t \in Tables : oracle'[t] = <<>>
      BY <2>2, <2>6, CreateOrderCovers
    <3>2. pc' = "table" /\ at' = 1 /\ sent' = 0
      BY <2>1, <2>6
    <3>3. LoadedBefore(at') = {}
      BY <3>2 DEF LoadedBefore
    <3>4. Contents[dir'][Table'] \in Seq(Rows)
      BY <3>2, <1>1, LoadOrderCovers, ContentsType DEF IInv, TypeOK, Table, cmd
    <3>5. sent' <= Len(Contents[dir'][Table']) /\ SubSeq(Contents[dir'][Table'], 1, sent') = <<>>
      BY <3>2, <3>4, WholePrefix
    <3>6. OracleProgress'
      BY <2>1, <2>4, <3>1, <3>2, <3>3, <3>5 DEF OracleProgress
    <3>. QED
      BY <3>6
  <2>7. OracleProgress'
    BY <1>2, <2>5, <2>6
  <2>8. MongoProgress' /\ LoadedOracleIsDirectory' /\ LoadedMongoIsDirectory'
    BY <1>1, <2>1, OracleHalf
  <2>. QED
    BY <2>3, <2>7, <2>8 DEF IInv
<1>. QED
  BY <1>3, <1>4

\* The table holds what it must: on to the next one, or to the indexes.
LEMMA NextTableInvariant ==
  ASSUME IInv, At("table"), NextTable, NoFault, UNCHANGED <<status, cmd, mongo>>,
         pending' = <<>>, oracle' \in [Tables -> Seq(Rows) \cup {Absent}],
         oracle'[Table] = Contents[dir][Table],
         \A t \in Tables : t # Table => oracle'[t] = oracle[t]
  PROVE  IInv'
<1>1. at \in 1 .. 10 /\ Table \in Tables /\ pc = "table" /\ status = "loading" /\ dir \in Dirs
  BY TurnsAre, LoadOrderCovers DEF IInv, TypeOK, At, Table
<1>2. \A t \in Tables : oracle[t] = IF t \in LoadedBefore(at) THEN Contents[dir][t] ELSE <<>>
  BY <1>1 DEF IInv, OracleProgress
<1>3. \A t \in Tables : t \in LoadedBefore(at + 1) <=> t = Table \/ t \in LoadedBefore(at)
  BY <1>1 DEF LoadedBefore, Table
<1>4. \A t \in Tables :
        oracle'[t] = IF t \in LoadedBefore(at + 1) THEN Contents[dir][t] ELSE <<>>
  BY <1>2, <1>3
<1>5. CASE at < 10
  <2>1. pc' = "table" /\ at' = at + 1 /\ sent' = 0
    BY <1>5, Orders DEF NextTable, GoTo
  <2>2. TypeOK'
    BY <1>1, <1>5, <2>1, FaultType, TurnsAre DEF IInv, TypeOK, cmd
  <2>3. dir' = dir /\ Contents[dir][Table'] \in Seq(Rows)
    <3>1. Table' \in Tables
      BY <1>1, <1>5, <2>1, LoadOrderCovers DEF Table
    <3>. QED
      BY <1>1, <3>1, ContentsType DEF cmd
  <2>4. sent' <= Len(Contents[dir][Table']) /\ SubSeq(Contents[dir][Table'], 1, sent') = <<>>
    BY <2>1, <2>3, WholePrefix
  <2>5. OracleProgress'
    BY <1>1, <1>4, <2>1, <2>3, <2>4 DEF OracleProgress
  <2>6. MongoProgress' /\ LoadedOracleIsDirectory' /\ LoadedMongoIsDirectory'
    BY <1>1, <2>1, OracleHalf
  <2>. QED
    BY <2>2, <2>5, <2>6 DEF IInv
<1>6. CASE at = 10
  <2>1. pc' = "index" /\ at' = 1 /\ sent' = 0
    BY <1>6, Orders DEF NextTable, GoTo
  <2>2. TypeOK'
    BY <1>1, <2>1, FaultType, TurnsAre DEF IInv, TypeOK, cmd
  <2>3. oracle' = Contents[dir]
    <3>1. \A t \in Tables : t = "customer_summary" \/ t \in LoadedBefore(11)
      BY LoadOrderCovers DEF LoadedBefore
    <3>2. \A t \in Tables : oracle'[t] = Contents[dir][t]
      BY <1>1, <1>4, <1>6, <3>1, ContentsType
    <3>3. Contents[dir] \in [Tables -> Seq(Rows)]
      BY <1>1, ContentsType
    <3>. QED
      BY <3>2, <3>3
  <2>4. OracleProgress'
    BY <2>1, <2>3 DEF OracleProgress, cmd
  <2>5. MongoProgress' /\ LoadedOracleIsDirectory' /\ LoadedMongoIsDirectory'
    BY <1>1, <2>1, OracleHalf
  <2>. QED
    BY <2>2, <2>4, <2>5 DEF IInv
<1>. QED
  BY <1>1, <1>5, <1>6

\* What the invariant says of the table being loaded.
LEMMA CurrentTable ==
  ASSUME IInv, At("table")
  PROVE  /\ Table \in Tables /\ dir \in Dirs /\ sent \in Nat
         /\ Contents[dir][Table] \in Seq(Rows)
         /\ TableRows(dir, Table) = Contents[dir][Table]
         /\ oracle[Table] = <<>>
         /\ sent <= Len(Contents[dir][Table])
         /\ pending = SubSeq(Contents[dir][Table], 1, sent)
<1>1. at \in 1 .. 10 /\ Table \in Tables /\ dir \in Dirs /\ sent \in Nat
  BY TurnsAre, LoadOrderCovers DEF IInv, TypeOK, At, Table
<1>2. Table \notin LoadedBefore(at)
  BY <1>1, LoadOrderCovers DEF LoadedBefore, Table
<1>. QED
  BY <1>1, <1>2, ContentsType DEF IInv, OracleProgress, At

LEMMA SkipTableInvariant == IInv /\ SkipTable => IInv'
<1>. SUFFICES ASSUME IInv, SkipTable PROVE IInv'
  OBVIOUS
<1>1. At("table") /\ NextTable /\ NoFault /\ UNCHANGED <<status, cmd, mongo, oracle, pending>>
  BY DEF SkipTable
<1>2. Contents[dir][Table] = <<>>
  BY <1>1, CurrentTable, ContentsType DEF SkipTable, TableFile
<1>3. pending = <<>> /\ oracle[Table] = Contents[dir][Table]
  <2>1. Len(Contents[dir][Table]) = 0
    BY <1>2
  <2>2. sent = 0
    BY <1>1, <2>1, CurrentTable
  <2>. QED
    BY <1>1, <1>2, <2>2, CurrentTable, WholePrefix
<1>4. oracle \in [Tables -> Seq(Rows) \cup {Absent}]
  BY DEF IInv, TypeOK
<1>. QED
  BY <1>1, <1>3, <1>4, NextTableInvariant

LEMMA CommitInvariant == IInv /\ Commit => IInv'
<1>. SUFFICES ASSUME IInv, Commit PROVE IInv'
  OBVIOUS
<1>1. /\ At("table") /\ NextTable /\ NoFault /\ UNCHANGED <<status, cmd, mongo>>
      /\ pending' = <<>> /\ sent = Len(TableRows(dir, Table)) /\ Publish
  BY DEF Commit
<1>2. oracle[Table] \o pending = Contents[dir][Table]
  BY <1>1, CurrentTable, WholePrefix
<1>3. oracle' = [oracle EXCEPT ![Table] = Contents[dir][Table]]
  BY <1>1, <1>2 DEF Publish
<1>4. /\ oracle' \in [Tables -> Seq(Rows) \cup {Absent}]
      /\ oracle'[Table] = Contents[dir][Table]
      /\ \A t \in Tables : t # Table => oracle'[t] = oracle[t]
  BY <1>1, <1>3, CurrentTable DEF IInv, TypeOK
<1>. QED
  BY <1>1, <1>4, NextTableInvariant

LEMMA CommitUnansweredInvariant == IInv /\ CommitUnanswered => IInv'
<1>. SUFFICES ASSUME IInv, CommitUnanswered PROVE IInv'
  OBVIOUS
<1>1. /\ At("table") /\ Fault /\ Publish /\ sent = Len(TableRows(dir, Table))
      /\ status' = "failed" /\ pending' = <<>>
      /\ UNCHANGED <<cmd, pc, at, sent, mongo>>
  BY DEF CommitUnanswered
<1>2. oracle' \in [Tables -> Seq(Rows) \cup {Absent}]
  <2>1. oracle[Table] \o pending = Contents[dir][Table]
    BY <1>1, CurrentTable, WholePrefix
  <2>. QED
    BY <1>1, <2>1, CurrentTable DEF Publish, IInv, TypeOK
<1>3. TypeOK'
  BY <1>1, <1>2, FaultType DEF IInv, TypeOK, cmd
<1>4. MongoProgress' /\ OracleProgress'
  BY <1>1 DEF MongoProgress, OracleProgress
<1>5. LoadedOracleIsDirectory' /\ LoadedMongoIsDirectory'
  BY <1>1 DEF LoadedOracleIsDirectory, LoadedMongoIsDirectory
<1>. QED
  BY <1>3, <1>4, <1>5 DEF IInv

LEMMA InsertBatchInvariant == IInv /\ InsertBatch => IInv'
<1>. SUFFICES ASSUME IInv, InsertBatch PROVE IInv'
  OBVIOUS
<1>. DEFINE rows == Contents[dir][Table]
<1>1. At("table") /\ UNCHANGED <<mongo, oracle>> /\ Batch(rows) # <<>>
  BY CurrentTable DEF InsertBatch
<1>2. CASE End("failed")
  <2>1. NoFault
    BY <1>2 DEF End, NoFault
  <2>. QED
    BY <1>1, <1>2, <2>1, EndFailed, FaultType DEF End
<1>3. CASE ~End("failed")
  <2>1. /\ pending' = pending \o Batch(rows) /\ sent' = sent + Len(Batch(rows)) /\ NoFault
        /\ UNCHANGED <<status, cmd, pc, at>>
    BY <1>1, <1>3, CurrentTable DEF InsertBatch
  <2>2. sent' \in Nat /\ sent' <= Len(rows) /\ pending' = SubSeq(rows, 1, sent')
    BY <1>1, <2>1, CurrentTable, BatchExtends
  <2>3. pending' \in Seq(Rows)
    BY <1>1, <2>2, CurrentTable
  <2>4. TypeOK'
    BY <1>1, <2>1, <2>2, <2>3, FaultType DEF IInv, TypeOK, cmd
  <2>5. OracleProgress'
    <3>1. Contents[dir'][Table'] = rows /\ dir' = dir
      BY <2>1 DEF Table, cmd
    <3>2. \A n : LoadedBefore(n)' = LoadedBefore(n)
      BY DEF LoadedBefore
    <3>. QED
      BY <1>1, <2>1, <2>2, <3>1, <3>2 DEF IInv, OracleProgress, At
  <2>6. MongoProgress' /\ LoadedOracleIsDirectory' /\ LoadedMongoIsDirectory'
    BY <1>1, <2>1, OracleHalf DEF At
  <2>. QED
    BY <2>4, <2>5, <2>6 DEF IInv
<1>. QED
  BY <1>2, <1>3

LEMMA FileMissingInvariant == IInv /\ FileMissing => IInv'
<1>. SUFFICES ASSUME IInv, FileMissing PROVE IInv'
  OBVIOUS
<1>1. End("failed") /\ UNCHANGED <<mongo, oracle>> /\ NoFault
  BY DEF FileMissing, End, NoFault
<1>. QED
  BY <1>1, EndFailed, FaultType DEF End

LEMMA FailInvariant == IInv /\ Fail => IInv'
<1>. SUFFICES ASSUME IInv, Fail PROVE IInv'
  OBVIOUS
<1>. QED
  BY EndFailed, FaultType DEF Fail

LEMMA CreateIndexesInvariant == IInv /\ CreateIndexes => IInv'
<1>. SUFFICES ASSUME IInv, CreateIndexes PROVE IInv'
  OBVIOUS
<1>1. /\ status = "loading" /\ pc = "index" /\ pc' = "stats" /\ at' = 1 /\ sent' = 0
      /\ NoFault /\ UNCHANGED <<status, cmd, mongo, oracle, pending>>
  BY DEF CreateIndexes, At, GoTo
<1>2. TypeOK'
  BY <1>1, FaultType, TurnsAre DEF IInv, TypeOK, cmd
<1>3. OracleProgress'
  BY <1>1 DEF IInv, OracleProgress, cmd
<1>. QED
  BY <1>1, <1>2, <1>3, OracleHalf DEF IInv

LEMMA GatherStatsInvariant == IInv /\ GatherStats => IInv'
<1>. SUFFICES ASSUME IInv, GatherStats PROVE IInv'
  OBVIOUS
<1>1. /\ status = "loading" /\ pc = "stats" /\ status' = "ok" /\ pending' = <<>>
      /\ NoFault /\ UNCHANGED <<cmd, pc, at, sent, mongo, oracle>>
  BY DEF GatherStats, At, End, NoFault
<1>2. TypeOK'
  BY <1>1, FaultType DEF IInv, TypeOK, cmd
<1>3. MongoProgress' /\ OracleProgress'
  BY <1>1 DEF MongoProgress, OracleProgress
<1>4. LoadedOracleIsDirectory'
  BY <1>1 DEF IInv, OracleProgress, LoadedOracleIsDirectory, cmd
<1>5. LoadedMongoIsDirectory'
  <2>1. target # "oracle" => \A c \in Collections : IsLoaded(c)
    BY <1>1 DEF IInv, MongoProgress
  <2>2. DOMAIN Files[dir] \subseteq Collections
    BY LoadAssumption DEF IInv, TypeOK
  <2>. QED
    BY <1>1, <2>1, <2>2 DEF LoadedMongoIsDirectory, IsLoaded, cmd
<1>. QED
  BY <1>2, <1>3, <1>4, <1>5 DEF IInv

LEMMA StutterInvariant == IInv /\ UNCHANGED vars => IInv'
<1>. SUFFICES ASSUME IInv, UNCHANGED vars PROVE IInv'
  OBVIOUS
<1>. USE DEF IInv, vars, cmd
<1>1. TypeOK'
  <2>1. faults' \in 0 .. MaxFaults /\ faulted' \in BOOLEAN
    BY FaultType DEF NoFault
  <2>. QED
    BY <2>1 DEF TypeOK
<1>2. MongoProgress'
  BY DEF MongoProgress, IsLoaded, HasFile, Entity
<1>3. OracleProgress'
  BY DEF OracleProgress, LoadedBefore, Table
<1>4. LoadedOracleIsDirectory' /\ LoadedMongoIsDirectory'
  BY DEF LoadedOracleIsDirectory, LoadedMongoIsDirectory
<1>. QED
  BY <1>1, <1>2, <1>3, <1>4

-------------------------------------------------------------------------------
(* The theorems.                                                           *)

LEMMA NextInvariant ==
  ASSUME IInv, [Next]_vars PROVE IInv'
<1>1. CASE Run
  BY <1>1, RunInvariant
<1>2. CASE MongoStep
  BY <1>2, SkipEntityInvariant, DropCollectionInvariant, BulkWriteInvariant,
     EntityLoadedInvariant, MongoIndexesInvariant DEF MongoStep
<1>3. CASE OracleStep
  BY <1>3, DropTableInvariant, CreateTableInvariant, SkipTableInvariant,
     FileMissingInvariant, InsertBatchInvariant, CommitInvariant,
     CreateIndexesInvariant, GatherStatsInvariant DEF OracleStep
<1>4. CASE BulkWriteFails
  BY <1>4, BulkWriteFailsInvariant
<1>5. CASE CommitUnanswered
  BY <1>5, CommitUnansweredInvariant
<1>6. CASE Fail
  BY <1>6, FailInvariant
<1>7. CASE UNCHANGED vars
  BY <1>7, StutterInvariant
<1>. QED
  BY <1>1, <1>2, <1>3, <1>4, <1>5, <1>6, <1>7 DEF Next

\* The inductive invariant holds in every reachable state.
THEOREM Invariance == Spec => []IInv
<1>. QED
  BY InitInvariant, NextInvariant, PTL DEF Spec

\* Every variable of the load keeps its type (data_load, both loaders).
THEOREM TypeCorrect == Spec => []TypeOK
<1>1. IInv => TypeOK
  BY DEF IInv
<1>. QED
  BY <1>1, Invariance, PTL

\* Success of the command means Oracle holds exactly the directory, after any
\* history of failed and repeated commands (create_schema, load_oracle).
THEOREM OracleSound == Spec => []LoadedOracleIsDirectory
<1>1. IInv => LoadedOracleIsDirectory
  BY DEF IInv
<1>. QED
  BY <1>1, Invariance, PTL

\* Success of the command means the collection of every file holds exactly
\* the file (load_mongodb).
THEOREM MongoSound == Spec => []LoadedMongoIsDirectory
<1>1. IInv => LoadedMongoIsDirectory
  BY DEF IInv
<1>. QED
  BY <1>1, Invariance, PTL

-------------------------------------------------------------------------------
(* The Oracle half implements WholeTables.                                 *)

LEMMA DirsAreLoaded == DOMAIN Contents = Dirs
  BY DEF Contents

LEMMA AbstractInit == Init => Abstract!Init
  BY DirsAreLoaded DEF Init, AbstractState, Abstract!Init

\* A step that leaves Oracle and the directory alone stutters or stops.
LEMMA QuietStep ==
  ASSUME UNCHANGED <<dir, target, oracle>>,
         \/ status' = status
         \/ status = "loading" /\ AbstractState' = "stopped"
  PROVE  [Abstract!Next]_<<AbstractState, dir, oracle>>
<1>1. CASE status' = status
  BY <1>1 DEF AbstractState
<1>2. CASE status = "loading" /\ AbstractState' = "stopped"
  BY <1>2 DEF Abstract!Next, Abstract!Stop, AbstractState
<1>. QED
  BY <1>1, <1>2

LEMMA AbstractMongo ==
  ASSUME MongoStep \/ BulkWriteFails \/ Fail \/ FileMissing \/ SkipTable \/ CreateIndexes
  PROVE  [Abstract!Next]_<<AbstractState, dir, oracle>>
<1>1. UNCHANGED <<dir, target, oracle>>
  BY DEF MongoStep, SkipEntity, DropCollection, BulkWrite, EntityLoaded, MongoIndexes,
         NextEntity, End, BulkWriteFails, Fail, FileMissing, SkipTable, CreateIndexes, cmd
<1>2. \/ status' = status
      \/ status = "loading" /\ (status' = "failed" \/ (status' = "ok" /\ target = "mongo"))
  <2>1. CASE MongoIndexes
    <3>1. status = "loading"
      BY <2>1 DEF MongoIndexes, At
    <3>2. End("failed") \/ (End("ok") /\ target = "mongo") \/ status' = status
      BY <2>1, Zenon DEF MongoIndexes
    <3>. QED
      BY <3>1, <3>2 DEF End
  <2>2. CASE SkipEntity \/ DropCollection \/ BulkWrite \/ EntityLoaded
    BY <2>2 DEF SkipEntity, DropCollection, BulkWrite, EntityLoaded, NextEntity
  <2>3. CASE BulkWriteFails \/ Fail \/ FileMissing
    <3>1. status = "loading" /\ status' = "failed"
      BY <2>3, Zenon DEF BulkWriteFails, Fail, FileMissing, End, At
    <3>. QED
      BY <3>1
  <2>4. CASE SkipTable \/ CreateIndexes
    BY <2>4 DEF SkipTable, CreateIndexes
  <2>. QED
    BY <2>1, <2>2, <2>3, <2>4 DEF MongoStep
<1>3. (status' = "failed" \/ (status' = "ok" /\ target = "mongo")) => AbstractState' = "stopped"
  BY <1>1 DEF AbstractState
<1>. QED
  BY <1>1, <1>2, <1>3, QuietStep

LEMMA AbstractRun == IInv /\ Run => [Abstract!Next]_<<AbstractState, dir, oracle>>
  BY DirsAreLoaded DEF Run, AbstractState, Abstract!Next, Abstract!Begin

LEMMA AbstractDrop == IInv /\ DropTable => [Abstract!Next]_<<AbstractState, dir, oracle>>
<1>. SUFFICES ASSUME IInv, DropTable PROVE [Abstract!Next]_<<AbstractState, dir, oracle>>
  OBVIOUS
<1>. DEFINE t == DropOrder[at]
<1>1. /\ status = "loading" /\ pc = "drop" /\ UNCHANGED <<status, dir, target>>
      /\ oracle' = [oracle EXCEPT ![t] = Absent] \/ UNCHANGED oracle
  BY DEF DropTable, At, cmd
<1>2. t \in Tables
  BY <1>1, TurnsAre, DropOrderTables DEF IInv, TypeOK
<1>3. CASE oracle[t] = Absent \/ UNCHANGED oracle
  <2>1. UNCHANGED oracle
    BY <1>1, <1>2, <1>3 DEF IInv, TypeOK
  <2>. QED
    BY <1>1, <2>1, QuietStep
<1>4. CASE oracle[t] # Absent /\ oracle' = [oracle EXCEPT ![t] = Absent]
  <2>1. Abstract!Drop(t)
    BY <1>1, <1>4 DEF Abstract!Drop, Abstract!Change, AbstractState
  <2>. QED
    BY <1>2, <2>1 DEF Abstract!Next
<1>. QED
  BY <1>1, <1>3, <1>4

LEMMA AbstractCreate == IInv /\ CreateTable => [Abstract!Next]_<<AbstractState, dir, oracle>>
<1>. SUFFICES ASSUME IInv, CreateTable PROVE [Abstract!Next]_<<AbstractState, dir, oracle>>
  OBVIOUS
<1>. DEFINE t == CreateOrder[at]
<1>1. status = "loading" /\ pc = "create" /\ UNCHANGED <<dir, target>>
  BY DEF CreateTable, At, End, cmd
<1>2. t \in Tables
  BY <1>1, TurnsAre, CreateOrderCovers DEF IInv, TypeOK
<1>3. CASE ~CanCreate(t)
  <2>1. status' = "failed" /\ UNCHANGED oracle
    BY <1>3 DEF CreateTable, End
  <2>. QED
    BY <1>1, <2>1, QuietStep DEF AbstractState
<1>4. CASE CanCreate(t)
  <2>1. oracle' = [oracle EXCEPT ![t] = <<>>] /\ UNCHANGED status /\ oracle[t] = Absent
    BY <1>4 DEF CreateTable, CanCreate
  <2>2. Abstract!Create(t)
    BY <1>1, <2>1 DEF Abstract!Create, Abstract!Change, AbstractState
  <2>. QED
    BY <1>2, <2>2 DEF Abstract!Next
<1>. QED
  BY <1>3, <1>4

LEMMA AbstractInsert == IInv /\ InsertBatch => [Abstract!Next]_<<AbstractState, dir, oracle>>
<1>. SUFFICES ASSUME IInv, InsertBatch PROVE [Abstract!Next]_<<AbstractState, dir, oracle>>
  OBVIOUS
<1>1. status = "loading" /\ UNCHANGED <<dir, target, oracle>>
  BY DEF InsertBatch, At, End, cmd
<1>2. status' = status \/ status' = "failed"
  BY DEF InsertBatch, End
<1>. QED
  BY <1>1, <1>2, QuietStep DEF AbstractState

\* The one commit of a table, answered or not, is the abstract Fill.
LEMMA AbstractCommit ==
  IInv /\ (Commit \/ CommitUnanswered) => [Abstract!Next]_<<AbstractState, dir, oracle>>
<1>. SUFFICES ASSUME IInv, Commit \/ CommitUnanswered
              PROVE  [Abstract!Next]_<<AbstractState, dir, oracle>>
  OBVIOUS
<1>1. /\ At("table") /\ sent = Len(TableRows(dir, Table)) /\ Publish
      /\ UNCHANGED <<dir, target>> /\ (status' = status \/ status' = "failed")
  BY DEF Commit, CommitUnanswered, cmd
<1>2. oracle[Table] = <<>> /\ oracle' = [oracle EXCEPT ![Table] = Contents[dir][Table]]
  <2>1. /\ Contents[dir][Table] \in Seq(Rows) /\ oracle[Table] = <<>>
        /\ TableRows(dir, Table) = Contents[dir][Table]
        /\ pending = SubSeq(Contents[dir][Table], 1, sent)
    BY <1>1, CurrentTable
  <2>2. <<>> \o pending = Contents[dir][Table]
    BY <1>1, <2>1, WholePrefix
  <2>3. oracle' = [oracle EXCEPT ![Table] = @ \o pending]
    BY <1>1 DEF Publish
  <2> QED BY ONLY <2>1, <2>2, <2>3
<1>3. AbstractState = "loading" /\ AbstractState' \in {"loading", "stopped"}
  BY <1>1 DEF AbstractState, At
<1>4. Abstract!Fill(Table)
  BY <1>1, <1>2, <1>3 DEF Abstract!Fill, Abstract!Change
<1>5. Table \in Tables
  BY <1>1, CurrentTable
<1>. QED
  BY <1>4, <1>5 DEF Abstract!Next

LEMMA AbstractStats == IInv /\ GatherStats => [Abstract!Next]_<<AbstractState, dir, oracle>>
<1>. SUFFICES ASSUME IInv, GatherStats PROVE [Abstract!Next]_<<AbstractState, dir, oracle>>
  OBVIOUS
<1>1. /\ status = "loading" /\ pc = "stats" /\ status' = "ok"
      /\ UNCHANGED <<dir, target, oracle>>
  BY DEF GatherStats, At, End, cmd
<1>2. CASE target = "mongo"
  BY <1>1, <1>2, QuietStep DEF AbstractState
<1>3. CASE target # "mongo"
  <2>1. oracle = Contents[dir]
    BY <1>1 DEF IInv, OracleProgress
  <2>. QED
    BY <1>1, <1>3, <2>1 DEF Abstract!Next, Abstract!Succeed, AbstractState
<1>. QED
  BY <1>2, <1>3

\* The Oracle half of the command implements WholeTables: in every history of
\* commands and faults each table is absent, empty or one whole file, and
\* success means the whole directory (create_schema, load_oracle).
THEOREM Refinement == Spec => ImplementsWholeTables
<1>1. IInv /\ [Next]_vars => [Abstract!Next]_<<AbstractState, dir, oracle>>
  <2>. SUFFICES ASSUME IInv, [Next]_vars
                PROVE  [Abstract!Next]_<<AbstractState, dir, oracle>>
    OBVIOUS
  <2>1. CASE Run
    BY <2>1, AbstractRun
  <2>2. CASE MongoStep \/ BulkWriteFails \/ Fail
    BY <2>2, AbstractMongo
  <2>3. CASE OracleStep
    BY <2>3, AbstractMongo, AbstractDrop, AbstractCreate, AbstractInsert, AbstractCommit,
       AbstractStats DEF OracleStep
  <2>4. CASE CommitUnanswered
    BY <2>4, AbstractCommit
  <2>5. CASE UNCHANGED vars
    BY <2>5, QuietStep DEF vars, cmd
  <2>. QED
    BY <2>1, <2>2, <2>3, <2>4, <2>5 DEF Next
<1>. QED
  BY <1>1, AbstractInit, Invariance, PTL DEF Spec, ImplementsWholeTables, Abstract!Spec

-------------------------------------------------------------------------------
(* A command fails for a reason, when the rows of the directories meet     *)
(* their constraints.                                                      *)

\* A unique index can always be created, whatever part of a batch was left.
KeysAreUnique == \A c \in UniquelyIndexed : HasUniqueKeys(mongo[c])

\* What a command that met no fault has dropped and has not yet created.
NothingInTheWay ==
  status = "loading" =>
    /\ pc \notin {"mongo", "mongo_batch", "mongo_index"} => target # "mongo"
    /\ ~faulted /\ pc = "drop" => \A i \in 1 .. at - 1 : oracle[DropOrder[i]] = Absent
    /\ ~faulted /\ pc = "create" => \A i \in at .. 11 : oracle[CreateOrder[i]] = Absent

CauseInv == KeysAreUnique /\ NothingInTheWay /\ FailureHasACause

\* A table refers to tables created and loaded before it, or to itself.
LEMMA ReferencesGoBack ==
  /\ \A i \in 1 .. 11 : \A fk \in ForeignKeys[CreateOrder[i]] :
       fk[2] = CreateOrder[i] \/ \E j \in 1 .. i - 1 : fk[2] = CreateOrder[j]
  /\ \A i \in 1 .. 10 : \A fk \in ForeignKeys[LoadOrder[i]] :
       fk[2] \in Tables /\ (fk[2] = LoadOrder[i] \/ fk[2] \in LoadedBefore(i))
<1>1. \A i \in 1 .. 11 : \A fk \in ForeignKeys[CreateOrder[i]] :
        fk[2] = CreateOrder[i] \/ \E j \in 1 .. i - 1 : fk[2] = CreateOrder[j]
  <2>1. SUFFICES ASSUME NEW i \in 1 .. 11, NEW fk \in ForeignKeys[CreateOrder[i]]
                 PROVE  fk[2] = CreateOrder[i] \/ \E j \in 1 .. i - 1 : fk[2] = CreateOrder[j]
    OBVIOUS
  <2>2. CreateOrder[i] \in Tables
    BY CreateOrderCovers
  <2> QED BY <2>2, TablesAre DEF ForeignKeys, CreateOrder
<1>2. \A i \in 1 .. 10 : \A fk \in ForeignKeys[LoadOrder[i]] :
        fk[2] \in Tables /\ (fk[2] = LoadOrder[i] \/ \E j \in 1 .. i - 1 : fk[2] = LoadOrder[j])
  <2>1. SUFFICES ASSUME NEW i \in 1 .. 10, NEW fk \in ForeignKeys[LoadOrder[i]]
                 PROVE  /\ fk[2] \in Tables
                        /\ fk[2] = LoadOrder[i] \/ \E j \in 1 .. i - 1 : fk[2] = LoadOrder[j]
    OBVIOUS
  <2>2. LoadOrder[i] \in Tables
    BY LoadOrderCovers
  <2> QED BY <2>2, TablesAre DEF ForeignKeys, LoadOrder
<1> QED BY <1>1, <1>2 DEF LoadedBefore

LEMMA DropOrderCovers == \A t \in Tables : \E i \in 1 .. 11 : DropOrder[i] = t
  BY TablesAre DEF DropOrder

LEMMA BatchPiece ==
  ASSUME NEW rows \in Seq(Rows), sent \in Nat
  PROVE  \E m \in Nat : m <= Len(rows) /\ Batch(rows) = SubSeq(rows, sent + 1, m)
  BY LoadAssumption DEF Batch

LEMMA CauseInit == Init => CauseInv
<1> SUFFICES ASSUME Init PROVE CauseInv
  OBVIOUS
<1>1. \A c \in UniquelyIndexed : c \in Collections
  BY DEF UniquelyIndexed, Collections, MongoEntities, Range
<1>2. \A c \in UniquelyIndexed : mongo[c] = <<>>
  BY <1>1 DEF Init
<1>3. KeysAreUnique
  BY <1>2 DEF KeysAreUnique, HasUniqueKeys
<1> QED BY <1>3 DEF Init, CauseInv, NothingInTheWay, FailureHasACause

LEMMA CauseRun == CauseInv /\ Run => CauseInv'
  BY DEF CauseInv, Run, KeysAreUnique, NothingInTheWay, FailureHasACause

\* A fault is a cause, and it frees the command of what it owes.
LEMMA CauseFault ==
  ASSUME CauseInv, KeysAreUnique', Fault, status' = "failed" PROVE CauseInv'
  BY DEF CauseInv, NothingInTheWay, FailureHasACause, Fault

\* The steps that have nothing to do with constraints.
LEMMA CauseQuiet ==
  ASSUME IInv, CauseInv, KeysAreUnique', NoFault, UNCHANGED <<cmd, oracle>>, status = "loading",
         \/ status' = "ok"
         \/ status' = "loading" /\ pc' = pc /\ pc \notin {"drop", "create"}
         \/ status' = "loading" /\ pc' \in {"mongo", "mongo_batch", "mongo_index"}
         \/ status' = "loading" /\ pc' = "drop" /\ at' = 1 /\ target # "mongo"
         \/ /\ status' = "loading" /\ pc' \in {"table", "index", "stats"}
            /\ pc \notin {"mongo", "mongo_batch", "mongo_index"}
  PROVE  CauseInv'
<1>1. FailureHasACause'
  BY DEF FailureHasACause
<1>2. NothingInTheWay'
  BY DEF CauseInv, NothingInTheWay, cmd, NoFault
<1> QED BY <1>1, <1>2 DEF CauseInv

LEMMA CauseMongo ==
  ASSUME \A d \in Dirs : WellFormed(d), IInv, CauseInv, MongoStep PROVE CauseInv'
<1> USE DEF At
<1>1. CASE SkipEntity \/ EntityLoaded
  <2>1. KeysAreUnique'
    BY <1>1 DEF CauseInv, KeysAreUnique, SkipEntity, EntityLoaded
  <2>2. /\ NoFault /\ UNCHANGED <<status, cmd, oracle>> /\ status = "loading"
        /\ pc' \in {"mongo", "mongo_index"}
    BY <1>1 DEF SkipEntity, EntityLoaded, NextEntity, GoTo
  <2> QED BY <2>1, <2>2, CauseQuiet
<1>2. CASE DropCollection
  <2>1. /\ mongo' = [mongo EXCEPT ![Entity] = <<>>] /\ status = "loading" /\ NoFault
        /\ pc' = "mongo_batch" /\ UNCHANGED <<status, cmd, oracle>>
    BY <1>2 DEF DropCollection
  <2>2. \A c \in UniquelyIndexed : mongo'[c] = <<>> \/ mongo'[c] = mongo[c]
    <3>1. \A c \in UniquelyIndexed : c \in Collections
      BY DEF UniquelyIndexed, Collections, MongoEntities, Range
    <3> QED BY <2>1, <3>1 DEF IInv, TypeOK
  <2>3. KeysAreUnique'
    <3>1. HasUniqueKeys(<<>>)
      BY DEF HasUniqueKeys
    <3> QED BY <2>2, <3>1 DEF CauseInv, KeysAreUnique
  <2> QED BY <2>1, <2>3, CauseQuiet
<1>3. CASE BulkWrite
  <2> DEFINE file == Files[dir][Entity]
  <2>1. /\ status = "loading" /\ pc = "mongo_batch" /\ NoFault
        /\ UNCHANGED <<status, cmd, pc, at, oracle>>
    BY <1>3 DEF BulkWrite
  <2>2. at \in 1 .. 9 /\ Entity \in Collections
    BY <2>1, TurnsAre, MongoEntitiesCover DEF IInv, TypeOK, Entity
  <2>3. /\ Entity \in DOMAIN Files[dir] /\ dir \in Dirs /\ file \in Seq(Rows) /\ sent \in Nat
        /\ sent <= Len(file) /\ mongo[Entity] = SubSeq(file, 1, sent)
    BY <2>1, LoadAssumption DEF IInv, TypeOK, MongoProgress, HasFile
  <2>4. /\ sent' \in Nat /\ sent' <= Len(file)
        /\ mongo[Entity] \o Batch(file) = SubSeq(file, 1, sent')
    BY <1>3, <2>3, BatchExtends DEF BulkWrite
  <2>5. mongo' = [mongo EXCEPT ![Entity] = SubSeq(file, 1, sent')]
    BY <1>3, <2>4 DEF BulkWrite
  <2>6. HasUniqueKeys(SubSeq(file, 1, sent'))
    <3>1. HasUniqueKeys(file)
      BY <2>3 DEF WellFormed
    <3>2. /\ DOMAIN SubSeq(file, 1, sent') = 1 .. sent' /\ 1 .. sent' \subseteq DOMAIN file
          /\ \A i \in 1 .. sent' : SubSeq(file, 1, sent')[i] = file[i]
      BY <2>3, <2>4
    <3> HIDE DEF file
    <3> QED BY <3>1, <3>2 DEF HasUniqueKeys
  <2>7. KeysAreUnique'
    <3>1. \A c \in UniquelyIndexed : c \in Collections
      BY DEF UniquelyIndexed, Collections, MongoEntities, Range
    <3>2. \A c \in UniquelyIndexed : mongo'[c] = (IF c = Entity THEN SubSeq(file, 1, sent') ELSE mongo[c])
      BY <2>2, <2>5, <3>1 DEF IInv, TypeOK
    <3> QED BY <2>6, <3>2 DEF CauseInv, KeysAreUnique
  <2> QED BY <2>1, <2>7, CauseQuiet
<1>4. CASE MongoIndexes
  <2>1. \A c \in UniquelyIndexed : HasUniqueKeys(mongo[c])
    BY DEF CauseInv, KeysAreUnique
  <2>2. /\ status = "loading" /\ UNCHANGED <<mongo, oracle, cmd>> /\ NoFault
        /\ \/ status' = "ok"
           \/ status' = "loading" /\ pc' = "drop" /\ at' = 1 /\ target # "mongo"
    BY <1>4, <2>1 DEF MongoIndexes, End, GoTo, NoFault
  <2>3. KeysAreUnique'
    BY <2>2 DEF CauseInv, KeysAreUnique
  <2> QED BY <2>2, <2>3, CauseQuiet
<1> QED BY <1>1, <1>2, <1>3, <1>4 DEF MongoStep

\* Positions of a concatenation.
LEMMA Joined ==
  ASSUME NEW h \in Seq(Rows), NEW t \in Seq(Rows), NEW a \in Nat, NEW b \in Nat, Len(h) = a, Len(t) = b
  PROVE  /\ DOMAIN (h \o t) = 1 .. a + b
         /\ \A i \in 1 .. a : (h \o t)[i] = h[i]
         /\ \A i \in a + 1 .. a + b : (h \o t)[i] = t[i - a]
<1>1. h \o t \in Seq(Rows) /\ Len(h \o t) = a + b /\ a + b \in Nat
  OBVIOUS
<1>2. DOMAIN (h \o t) = 1 .. a + b
  BY <1>1
<1>3. \A i \in 1 .. a : (h \o t)[i] = h[i]
  OBVIOUS
<1>4. ASSUME NEW i \in a + 1 .. a + b PROVE (h \o t)[i] = t[i - a]
  <2>1. i \in 1 .. Len(h) + Len(t) /\ ~(i <= Len(h))
    OBVIOUS
  <2> QED BY <2>1
<1> QED BY <1>1, <1>2, <1>3, <1>4

\* Rows at growing positions behind a prefix: no key twice.
LEMMA PartIsUnique ==
  ASSUME NEW rows, NEW m \in Nat, DOMAIN rows = 1 .. m, HasUniqueKeys(rows),
         NEW k \in Nat, k <= m, NEW n \in Nat,
         NEW place \in [1 .. n -> k + 1 .. m],
         \A i, j \in 1 .. n : i < j => place[i] < place[j],
         NEW left, DOMAIN left = 1 .. k + n,
         \A i \in 1 .. k : left[i] = rows[i],
         \A i \in k + 1 .. k + n : left[i] = rows[place[i - k]]
  PROVE  HasUniqueKeys(left)
<1>1. k + n \in Nat
  OBVIOUS
<1>2. ASSUME NEW i \in k + 1 .. k + n
      PROVE  i - k \in 1 .. n /\ place[i - k] \in k + 1 .. m /\ place[i - k] \in 1 .. m /\ place[i - k] \in Nat
  <2>1. i - k \in 1 .. n
    OBVIOUS
  <2>2. place[i - k] \in k + 1 .. m
    BY <2>1
  <2> QED BY <2>1, <2>2
<1>3. ASSUME NEW i \in 1 .. k + n, NEW j \in 1 .. k + n, i < j
      PROVE  left[i].id # left[j].id
  <2>1. CASE j <= k
    <3>1. i \in 1 .. k /\ j \in 1 .. k /\ i # j /\ i \in DOMAIN rows /\ j \in DOMAIN rows
      BY <2>1, <1>3
    <3> QED BY <3>1 DEF HasUniqueKeys
  <2>2. CASE i <= k /\ ~(j <= k)
    <3>1. i \in 1 .. k /\ j \in k + 1 .. k + n
      BY <2>2
    <3>2. i # place[j - k] /\ i \in 1 .. m
      BY <1>2, <3>1
    <3>3. left[i] = rows[i] /\ left[j] = rows[place[j - k]] /\ i \in DOMAIN rows /\ place[j - k] \in DOMAIN rows
      BY <1>2, <3>1, <3>2
    <3> QED BY ONLY <3>2, <3>3, HasUniqueKeys(rows) DEF HasUniqueKeys
  <2>3. CASE ~(i <= k)
    <3>1. i \in k + 1 .. k + n /\ j \in k + 1 .. k + n /\ i - k < j - k
      BY <2>3, <1>3
    <3>2. place[i - k] < place[j - k]
      BY <1>2, <3>1
    <3>3. place[i - k] # place[j - k]
      BY <1>2, <3>1, <3>2
    <3>4. /\ left[i] = rows[place[i - k]] /\ left[j] = rows[place[j - k]]
          /\ place[i - k] \in DOMAIN rows /\ place[j - k] \in DOMAIN rows
      BY <1>2, <3>1
    <3> QED BY ONLY <3>3, <3>4, HasUniqueKeys(rows) DEF HasUniqueKeys
  <2> QED BY <2>1, <2>2, <2>3
<1>4. \A i, j \in 1 .. k + n : i < j \/ j < i \/ i = j
  BY <1>1
<1> QED BY <1>1, <1>3, <1>4 DEF HasUniqueKeys

\* Part of a batch behind the prefix of the file that was sent.
LEMMA PartOfBatch ==
  ASSUME NEW rows \in Seq(Rows), HasUniqueKeys(rows), NEW k \in Nat, k <= Len(rows),
         NEW some \in Seq(Rows),
         \A i \in DOMAIN some : k + i \in DOMAIN rows /\ some[i] = rows[k + i],
         NEW n \in Nat, NEW part \in [1 .. n -> DOMAIN some],
         \A i, j \in 1 .. n : i < j => part[i] < part[j]
  PROVE  HasUniqueKeys(SubSeq(rows, 1, k) \o [i \in 1 .. n |-> some[part[i]]])
<1> DEFINE before == SubSeq(rows, 1, k)
           added == [i \in 1 .. n |-> some[part[i]]]
           place == [i \in 1 .. n |-> k + part[i]]
           left == before \o added
<1>1. before \in Seq(Rows) /\ Len(before) = k /\ \A i \in 1 .. k : before[i] = rows[i]
  OBVIOUS
<1>2. /\ DOMAIN some = 1 .. Len(some) /\ Len(some) \in Nat
      /\ DOMAIN rows = 1 .. Len(rows) /\ Len(rows) \in Nat
  OBVIOUS
<1>3. ASSUME NEW i \in 1 .. n
      PROVE  /\ part[i] \in Nat /\ part[i] \in DOMAIN some /\ some[part[i]] \in Rows
             /\ k + part[i] \in k + 1 .. Len(rows) /\ some[part[i]] = rows[k + part[i]]
  <2>1. part[i] \in DOMAIN some
    OBVIOUS
  <2>2. part[i] \in 1 .. Len(some) /\ k + part[i] \in 1 .. Len(rows) /\ some[part[i]] = rows[k + part[i]]
    BY <1>2, <2>1
  <2>3. some[part[i]] \in Rows
    BY <2>1
  <2> QED BY <2>1, <2>2, <2>3
<1>4. added \in Seq(Rows) /\ Len(added) = n
  <2>1. added \in [1 .. n -> Rows]
    BY <1>3
  <2> QED BY <2>1
<1>5. place \in [1 .. n -> k + 1 .. Len(rows)]
  BY <1>3
<1>6. \A i, j \in 1 .. n : i < j => place[i] < place[j]
  BY <1>3
<1>7. \A i \in 1 .. n : added[i] = rows[place[i]]
  BY <1>3
<1> HIDE DEF before, added, place
<1>8. /\ DOMAIN left = 1 .. k + n
      /\ \A i \in 1 .. k : left[i] = before[i]
      /\ \A i \in k + 1 .. k + n : left[i] = added[i - k]
  <2>1. before \in Seq(Rows) /\ Len(before) = k /\ added \in Seq(Rows) /\ Len(added) = n /\ k \in Nat /\ n \in Nat
    BY <1>1, <1>4
  <2>2. DOMAIN left = 1 .. k + n
    BY ONLY <2>1, Joined
  <2>3. \A i \in 1 .. k : left[i] = before[i]
    BY ONLY <2>1, Joined
  <2>4. ASSUME NEW i \in k + 1 .. k + n PROVE left[i] = added[i - k]
    <3>1. i \in 1 .. Len(before) + Len(added) /\ ~(i <= Len(before))
      BY <2>1
    <3>2. (before \o added)[i] = added[i - Len(before)]
      BY ONLY <2>1, <3>1, ConcatProperties
    <3> QED BY <2>1, <3>2
  <2> QED BY <2>2, <2>3, <2>4
<1> HIDE DEF left
<1>9. \A i \in k + 1 .. k + n : left[i] = rows[place[i - k]]
  <2> SUFFICES ASSUME NEW i \in k + 1 .. k + n PROVE left[i] = rows[place[i - k]]
    OBVIOUS
  <2>1. i - k \in 1 .. n
    OBVIOUS
  <2> QED BY <1>7, <1>8, <2>1
<1>10. \A i \in 1 .. k : left[i] = rows[i]
  BY <1>1, <1>8
<1>11. HasUniqueKeys(left)
  <2>1. k \in Nat /\ k <= Len(rows) /\ n \in Nat /\ HasUniqueKeys(rows)
    OBVIOUS
  <2>2. DOMAIN left = 1 .. k + n
    BY <1>8
  <2> QED BY ONLY <1>2, <1>5, <1>6, <1>9, <1>10, <2>1, <2>2, PartIsUnique
<1> QED BY <1>11 DEF left, before, added

\* Part of a batch behind the prefix that was sent: rows of the file, none twice.
LEMMA CauseBulkWriteFails ==
  ASSUME \A d \in Dirs : WellFormed(d), IInv, CauseInv, BulkWriteFails PROVE CauseInv'
<1> DEFINE file == Files[dir][Entity]
           batch == Batch(file)
<1>1. status = "loading" /\ pc = "mongo_batch" /\ Fault /\ status' = "failed"
  BY DEF BulkWriteFails, At
<1>2. at \in 1 .. 9 /\ Entity \in Collections
  BY <1>1, TurnsAre, MongoEntitiesCover DEF IInv, TypeOK, Entity
<1>3. /\ Entity \in DOMAIN Files[dir] /\ dir \in Dirs /\ file \in Seq(Rows) /\ sent \in Nat
      /\ sent <= Len(file) /\ mongo[Entity] = SubSeq(file, 1, sent)
  BY <1>1, LoadAssumption DEF IInv, TypeOK, MongoProgress, HasFile
<1>4. HasUniqueKeys(file)
  BY <1>3 DEF WellFormed
<1>5. PICK m \in Nat : m <= Len(file) /\ batch = SubSeq(file, sent + 1, m)
  BY <1>3, BatchPiece
<1> batch \in Seq(Rows)
  BY <1>3, BatchType
<1>. PICK n \in 1 .. Len(batch) : \E part \in [1 .. n -> DOMAIN batch] :
        /\ \A i, j \in 1 .. n : i < j => part[i] < part[j]
        /\ mongo' = [mongo EXCEPT ![Entity] = @ \o [i \in 1 .. n |-> batch[part[i]]]]
  BY DEF BulkWriteFails
<1>6. PICK part \in [1 .. n -> DOMAIN batch] :
        /\ \A i, j \in 1 .. n : i < j => part[i] < part[j]
        /\ mongo' = [mongo EXCEPT ![Entity] = @ \o [i \in 1 .. n |-> batch[part[i]]]]
  OBVIOUS
<1> DEFINE left == SubSeq(file, 1, sent) \o [i \in 1 .. n |-> batch[part[i]]]
<1>7. /\ Len(batch) \in Nat /\ n \in Nat /\ DOMAIN batch = 1 .. Len(batch)
      /\ \A i \in DOMAIN batch : sent + i \in DOMAIN file /\ batch[i] = file[sent + i]
  <2>1. CASE m > sent
    <3>1. Len(batch) = m - sent /\ batch \in Seq(Rows)
      BY <1>3, <1>5, <2>1
    <3>2. \A i \in 1 .. m - sent : sent + i \in DOMAIN file /\ batch[i] = file[sent + i]
      BY <1>3, <1>5, <2>1
    <3> HIDE DEF batch, file
    <3> QED BY <1>3, <3>1, <3>2
  <2>2. CASE ~(m > sent)
    <3>1. batch = <<>>
      BY <1>3, <1>5, <2>2
    <3>2. Len(batch) = 0
      BY <3>1
    <3> HIDE DEF batch, file
    <3> QED BY <3>2
  <2> QED BY <2>1, <2>2
<1>8. HasUniqueKeys(left)
  <2>1. n \in Nat /\ sent \in Nat
    BY <1>3, <1>7
  <2>2. HasUniqueKeys(SubSeq(file, 1, sent) \o [i \in 1 .. n |-> batch[part[i]]])
    <3> HIDE DEF batch, file
    <3>1. /\ file \in Seq(Rows) /\ sent <= Len(file) /\ batch \in Seq(Rows)
          /\ part \in [1 .. n -> DOMAIN batch]
      BY <1>3, <1>6
    <3>2. \A i, j \in 1 .. n : i < j => part[i] < part[j]
      BY <1>6
    <3>3. \A i \in DOMAIN batch : sent + i \in DOMAIN file /\ batch[i] = file[sent + i]
      BY <1>7
    <3> QED BY ONLY <1>4, <2>1, <3>1, <3>2, <3>3, PartOfBatch
  <2> QED BY <2>2
<1>9. KeysAreUnique'
  <2>1. \A c \in UniquelyIndexed : c \in Collections
    BY DEF UniquelyIndexed, Collections, MongoEntities, Range
  <2>2. mongo' = [mongo EXCEPT ![Entity] = left]
    BY <1>3, <1>6
  <2> HIDE DEF left
  <2>3. \A c \in UniquelyIndexed : mongo'[c] = (IF c = Entity THEN left ELSE mongo[c])
    BY <1>2, <2>1, <2>2 DEF IInv, TypeOK
  <2> QED BY <1>8, <2>3 DEF CauseInv, KeysAreUnique
<1> QED BY <1>1, <1>9, CauseFault

\* A batch never violates a constraint.
LEMMA BatchAccepted ==
  ASSUME \A d \in Dirs : WellFormed(d), IInv, At("table"), TableFile, Batch(TableRows(dir, Table)) # <<>>
  PROVE  LET known == oracle[Table] \o pending
         IN  Accepts(Table, known \o Batch(TableRows(dir, Table)), Len(known))
<1> DEFINE rows == Contents[dir][Table]
           known == oracle[Table] \o pending
           all == known \o Batch(rows)
           size == sent + Len(Batch(rows))
<1>1. /\ Table \in Tables /\ dir \in Dirs /\ sent \in Nat /\ rows \in Seq(Rows)
      /\ TableRows(dir, Table) = rows /\ sent <= Len(rows) /\ known = SubSeq(rows, 1, sent)
  <2>1. SubSeq(Contents[dir][Table], 1, sent) \in Seq(Rows)
    BY CurrentTable
  <2> QED BY <2>1, CurrentTable, WholePrefix
<1>2. size \in Nat /\ size <= Len(rows) /\ all = SubSeq(rows, 1, size) /\ Len(known) = sent
  <2>1. Batch(rows) # <<>>
    BY <1>1
  <2>2. /\ size \in Nat /\ size <= Len(rows)
        /\ SubSeq(rows, 1, sent) \o Batch(rows) = SubSeq(rows, 1, size)
    BY <1>1, <2>1, BatchExtends
  <2>3. Len(SubSeq(rows, 1, sent)) = sent
    <3> HIDE DEF rows
    <3> QED BY <1>1
  <2>4. all = SubSeq(rows, 1, sent) \o Batch(rows) /\ Len(known) = sent
    BY <1>1, <2>3
  <2> QED BY <2>2, <2>4
<1>3. /\ DOMAIN all = 1 .. size /\ Len(all) = size /\ 1 .. size \subseteq DOMAIN rows
      /\ \A k \in 1 .. size : all[k] = rows[k]
      /\ \A k \in 1 .. size : SubSeq(all, 1, k) = SubSeq(rows, 1, k)
  <2> HIDE DEF rows, all, size, known
  <2> QED BY <1>1, <1>2
<1>4. /\ HasUniqueKeys(rows)
      /\ \A k \in DOMAIN rows : \A fk \in ForeignKeys[Table] :
           \/ rows[k][fk[1]] = Null
           \/ \E r \in IF fk[2] = Table THEN Range(SubSeq(rows, 1, k))
                                        ELSE Range(Contents[dir][fk[2]]) : r.id = rows[k][fk[1]]
  BY <1>1 DEF WellFormed
<1>5. \A fk \in ForeignKeys[Table] : fk[2] = Table \/ oracle[fk[2]] = Contents[dir][fk[2]]
  <2>1. at \in 1 .. 10
    BY TurnsAre DEF IInv, TypeOK, At
  <2>2. \A fk \in ForeignKeys[Table] : fk[2] \in Tables /\ (fk[2] = Table \/ fk[2] \in LoadedBefore(at))
    BY <2>1, ReferencesGoBack DEF Table
  <2> QED BY <2>2 DEF IInv, OracleProgress, At
<1> HIDE DEF rows, all, size, known
<1>6. ASSUME NEW k \in sent + 1 .. size
      PROVE  /\ \A j \in 1 .. k - 1 : all[j].id # all[k].id
             /\ \A fk \in ForeignKeys[Table] :
                  \/ all[k][fk[1]] = Null
                  \/ \E r \in IF fk[2] = Table THEN Range(SubSeq(all, 1, k)) ELSE Range(oracle[fk[2]]) :
                       r.id = all[k][fk[1]]
  <2>1. k \in 1 .. size /\ k \in DOMAIN rows /\ all[k] = rows[k] /\ SubSeq(all, 1, k) = SubSeq(rows, 1, k)
    BY <1>1, <1>2, <1>3
  <2>2. ASSUME NEW j \in 1 .. k - 1 PROVE all[j].id # all[k].id
    <3>1. j \in 1 .. size /\ j # k /\ j \in DOMAIN rows /\ all[j] = rows[j]
      BY <1>2, <1>3, <2>1
    <3> QED BY <1>4, <2>1, <3>1 DEF HasUniqueKeys
  <2>3. ASSUME NEW fk \in ForeignKeys[Table]
        PROVE  \/ all[k][fk[1]] = Null
               \/ \E r \in IF fk[2] = Table THEN Range(SubSeq(all, 1, k)) ELSE Range(oracle[fk[2]]) :
                    r.id = all[k][fk[1]]
    BY <1>4, <1>5, <2>1
  <2> QED BY <2>2, <2>3
<1>7. Accepts(Table, all, Len(known))
  BY <1>2, <1>3, <1>6 DEF Accepts
<1> QED BY <1>1, <1>7 DEF known, all

LEMMA CauseOracle ==
  ASSUME \A d \in Dirs : WellFormed(d), IInv, CauseInv, OracleStep PROVE CauseInv'
<1> USE DEF At
<1>1. UNCHANGED mongo /\ KeysAreUnique'
  <2>1. UNCHANGED mongo
    BY DEF OracleStep, DropTable, CreateTable, SkipTable, FileMissing, InsertBatch, Commit,
           CreateIndexes, GatherStats
  <2> QED BY <2>1 DEF CauseInv, KeysAreUnique
<1>2. CASE DropTable
  <2>1. /\ status = "loading" /\ pc = "drop" /\ UNCHANGED <<status, cmd>>
        /\ at \in 1 .. 11 /\ DropOrder[at] \in Tables /\ oracle \in [Tables -> Seq(Rows) \cup {Absent}]
    BY <1>2, TurnsAre, DropOrderTables DEF DropTable, IInv, TypeOK
  <2>2. \/ pc' = "drop" /\ at' = at + 1
        \/ pc' = "create" /\ at' = 1 /\ at = 11
    BY <1>2, <2>1, Orders DEF DropTable, GoTo
  <2>3. ASSUME ~faulted' PROVE ~faulted /\ \A i \in 1 .. at : oracle'[DropOrder[i]] = Absent
    <3>1. oracle' = [oracle EXCEPT ![DropOrder[at]] = Absent] /\ ~faulted
      BY <1>2, <2>3 DEF DropTable, Fault, NoFault
    <3>2. \A i \in 1 .. at - 1 : oracle[DropOrder[i]] = Absent /\ DropOrder[i] \in Tables
      BY <2>1, <3>1, DropOrderTables DEF CauseInv, NothingInTheWay
    <3> QED BY <2>1, <3>1, <3>2
  <2>4. ASSUME ~faulted', pc' = "create" PROVE \A i \in at' .. 11 : oracle'[CreateOrder[i]] = Absent
    <3>1. at = 11 /\ at' = 1
      BY <2>2, <2>4
    <3>2. \A t \in Tables : oracle'[t] = Absent
      BY <2>3, <2>4, <3>1, DropOrderCovers
    <3> QED BY <3>1, <3>2, CreateOrderCovers
  <2>5. target' # "mongo"
    BY <2>1 DEF CauseInv, NothingInTheWay, cmd
  <2>6. NothingInTheWay'
    <3>1. ASSUME ~faulted', pc' = "drop" PROVE \A i \in 1 .. at' - 1 : oracle'[DropOrder[i]] = Absent
      BY <2>1, <2>2, <2>3, <3>1
    <3> QED BY <2>4, <2>5, <3>1 DEF NothingInTheWay, DropOrder, CreateOrder
  <2> QED BY <1>1, <2>1, <2>6 DEF CauseInv, FailureHasACause
<1>3. CASE CreateTable
  <2> DEFINE t == CreateOrder[at]
  <2>1. /\ status = "loading" /\ pc = "create" /\ UNCHANGED <<cmd, faults, faulted>>
        /\ at \in 1 .. 11 /\ t \in Tables /\ oracle \in [Tables -> Seq(Rows) \cup {Absent}]
    BY <1>3, TurnsAre, CreateOrderCovers DEF CreateTable, End, NoFault, IInv, TypeOK
  <2>2. CASE faulted
    BY <1>1, <2>1, <2>2 DEF CauseInv, NothingInTheWay, FailureHasACause, CreateTable, End, GoTo, cmd
  <2>3. CASE ~faulted
    <3>1. \A i \in at .. 11 : oracle[CreateOrder[i]] = Absent
      BY <2>1, <2>3 DEF CauseInv, NothingInTheWay
    <3>2. CanCreate(t)
      <4>1. oracle[t] = Absent
        BY <2>1, <3>1
      <4>2. ASSUME NEW fk \in ForeignKeys[t] PROVE fk[2] = t \/ oracle[fk[2]] = <<>>
        <5>1. fk[2] = t \/ \E j \in 1 .. at - 1 : fk[2] = CreateOrder[j]
          BY <2>1, ReferencesGoBack
        <5>2. \A j \in 1 .. at - 1 : oracle[CreateOrder[j]] = <<>>
          BY <2>1 DEF IInv, OracleProgress
        <5> QED BY <5>1, <5>2
      <4>3. <<>> # Absent
        <5>1. <<>> \in Seq(Rows)
          OBVIOUS
        <5> QED BY <5>1, LoadAssumption
      <4> QED BY <4>1, <4>2, <4>3 DEF CanCreate
    <3>3. /\ oracle' = [oracle EXCEPT ![t] = <<>>] /\ status' = "loading"
          /\ (pc' = "create" /\ at' = at + 1) \/ pc' = "table"
      BY <1>3, <2>1, <3>2 DEF CreateTable, GoTo
    <3>4. ASSUME pc' = "create" PROVE \A i \in at' .. 11 : oracle'[CreateOrder[i]] = Absent
      <4>1. at' = at + 1
        BY <3>3, <3>4
      <4>2. \A i \in at' .. 11 : i \in at .. 11 /\ CreateOrder[i] # t /\ CreateOrder[i] \in Tables
        BY <2>1, <4>1, CreateOrderCovers DEF CreateOrder
      <4> QED BY <2>1, <3>1, <3>3, <4>2
    <3>5. target' # "mongo"
      BY <2>1 DEF CauseInv, NothingInTheWay, cmd
    <3> QED BY <1>1, <3>3, <3>4, <3>5 DEF CauseInv, NothingInTheWay, FailureHasACause, CreateOrder
  <2> QED BY <2>2, <2>3
<1>4. CASE SkipTable
  <2>1. /\ status = "loading" /\ pc = "table" /\ NoFault /\ UNCHANGED <<status, cmd, oracle>>
        /\ pc' \in {"table", "index"}
    BY <1>4 DEF SkipTable, NextTable, GoTo
  <2> QED BY <1>1, <2>1, CauseQuiet
<1>5. CASE FileMissing
  <2>1. /\ status = "loading" /\ pc = "table" /\ status' = "failed" /\ UNCHANGED <<cmd, at, faulted>>
        /\ FileOf[Table] \notin DOMAIN Files[dir] /\ Table \notin Optional
    BY <1>5 DEF FileMissing, End, TableFile
  <2>2. Table \in Range(LoadOrder)
    <3>1. at \in DOMAIN LoadOrder
      BY <2>1, TurnsAre, Orders DEF IInv, TypeOK, LoadOrder
    <3> QED BY <3>1 DEF Range, Table
  <2>3. target # "mongo"
    BY <2>1 DEF CauseInv, NothingInTheWay
  <2> QED BY <1>1, <2>1, <2>2, <2>3 DEF CauseInv, NothingInTheWay, FailureHasACause, cmd
<1>6. CASE InsertBatch
  <2>1. status = "loading" /\ pc = "table" /\ UNCHANGED oracle
    BY <1>6 DEF InsertBatch
  <2>2. NoFault /\ UNCHANGED <<status, cmd, pc, at>>
    BY <1>6, BatchAccepted DEF InsertBatch
  <2> QED BY <1>1, <2>1, <2>2, CauseQuiet
<1>7. CASE Commit
  <2>1. status = "loading" /\ status' = "loading" /\ pc = "table" /\ NoFault /\ UNCHANGED cmd /\ pc' \in {"table", "index"}
    BY <1>7 DEF Commit, NextTable, GoTo
  <2>2. target' # "mongo"
    BY <2>1 DEF CauseInv, NothingInTheWay, cmd
  <2>3. NothingInTheWay'
    BY <2>1, <2>2 DEF NothingInTheWay
  <2> QED BY <1>1, <2>1, <2>3 DEF CauseInv, FailureHasACause
<1>8. CASE CreateIndexes \/ GatherStats
  <2>1. /\ status = "loading" /\ pc \in {"index", "stats"} /\ NoFault /\ UNCHANGED <<cmd, oracle>>
        /\ status' = "ok" \/ (status' = "loading" /\ pc' = "stats")
    BY <1>8 DEF CreateIndexes, GatherStats, End, GoTo, NoFault
  <2> QED BY <1>1, <2>1, CauseQuiet
<1> QED BY <1>2, <1>3, <1>4, <1>5, <1>6, <1>7, <1>8 DEF OracleStep

LEMMA CauseStep ==
  ASSUME \A d \in Dirs : WellFormed(d), IInv, CauseInv, [Next]_vars PROVE CauseInv'
<1>1. CASE Run
  BY <1>1, CauseRun
<1>2. CASE MongoStep
  BY <1>2, CauseMongo
<1>3. CASE OracleStep
  BY <1>3, CauseOracle
<1>4. CASE BulkWriteFails
  BY <1>4, CauseBulkWriteFails
<1>5. CASE CommitUnanswered \/ Fail
  <2>1. UNCHANGED mongo /\ Fault /\ status' = "failed"
    BY <1>5 DEF CommitUnanswered, Fail
  <2>2. KeysAreUnique'
    BY <2>1 DEF CauseInv, KeysAreUnique
  <2> QED BY <2>1, <2>2, CauseFault
<1>6. CASE UNCHANGED vars
  BY <1>6 DEF vars, cmd, CauseInv, KeysAreUnique, NothingInTheWay, FailureHasACause
<1> QED BY <1>1, <1>2, <1>3, <1>4, <1>5, <1>6 DEF Next

LEMMA CausesAlways ==
  ASSUME \A d \in Dirs : WellFormed(d) PROVE Spec => []CauseInv
<1>1. ASSUME IInv, CauseInv, [Next]_vars PROVE CauseInv'
  BY <1>1, CauseStep
<1> QED BY <1>1, CauseInit, Invariance, PTL DEF Spec

\* When the rows of every directory meet their constraints, a command fails only
\* because a call failed or a required file is missing: the orders of drops,
\* creations and loads are right for whatever earlier commands left
\* (create_schema, load_oracle, _create_indexes).
THEOREM FailuresHaveCauses ==
  ASSUME \A d \in Dirs : WellFormed(d)
  PROVE  Spec => []FailureHasACause
<1>1. CauseInv => FailureHasACause
  BY DEF CauseInv
<1> QED BY <1>1, CausesAlways, PTL

-------------------------------------------------------------------------------
(* A command ends.                                                         *)

\* What holds of zero, and of n + 1 where it holds of n, holds of every number.
LEMMA Induction ==
  ASSUME NEW f, f[0], \A n \in Nat : f[n] => f[n + 1]
  PROVE  \A n \in Nat : f[n]
<1> DEFINE Counter == {n \in Nat : ~f[n]}
           R == OpToRel(<, Nat)
<1> SUFFICES ASSUME Counter # {} PROVE FALSE
  OBVIOUS
<1>1. IsWellFoundedOn(R, Nat)
  BY NatLessThanWellFounded
<1>2. \A a, b \in Nat : a < b => <<a, b>> \in R
  BY DEF OpToRel
<1>3. PICK n \in Counter : \A m \in Counter : ~(<<m, n>> \in R)
  <2>1. Counter \subseteq Nat
    OBVIOUS
  <2> HIDE DEF Counter, R
  <2> QED BY <1>1, <2>1, WFMin
<1> HIDE DEF R
<1>4. n # 0 /\ n \in Nat
  OBVIOUS
<1>5. n - 1 \in Nat /\ (n - 1) + 1 = n /\ n - 1 < n
  BY <1>4
<1>6. n - 1 \notin Counter
  <2> HIDE DEF Counter
  <2> QED BY <1>2, <1>3, <1>4, <1>5
<1> QED BY <1>5, <1>6

\* Finitely many numbers have a bound.
LEMMA Bounded ==
  ASSUME NEW n \in Nat, NEW f \in [1 .. n -> Nat]
  PROVE  \E m \in Nat : \A i \in 1 .. n : f[i] <= m
<1> DEFINE Has(k) == k <= n => \E m \in Nat : \A i \in 1 .. k : f[i] <= m
<1>1. Has(0)
  OBVIOUS
<1>2. ASSUME NEW k \in Nat, Has(k) PROVE Has(k + 1)
  <2> SUFFICES ASSUME k + 1 <= n PROVE \E m \in Nat : \A i \in 1 .. k + 1 : f[i] <= m
    OBVIOUS
  <2>1. PICK m \in Nat : \A i \in 1 .. k : f[i] <= m
    BY <1>2
  <2>2. f[k + 1] \in Nat /\ \A i \in 1 .. k : f[i] \in Nat
    OBVIOUS
  <2>3. \A i \in 1 .. k + 1 : f[i] <= m + f[k + 1]
    BY <2>1, <2>2
  <2>4. m + f[k + 1] \in Nat
    BY <2>2
  <2> QED BY <2>3, <2>4
<1>3. Has(n)
  <2> HIDE DEF Has
  <2> DEFINE table == [k \in Nat |-> Has(k)]
  <2>1. \A k \in Nat : table[k] <=> Has(k)
    OBVIOUS
  <2> HIDE DEF table
  <2>2. table[0] /\ \A k \in Nat : table[k] => table[k + 1]
    BY <1>1, <1>2, <2>1
  <2>3. \A k \in Nat : table[k]
    BY <2>2, Induction
  <2> QED BY <2>1, <2>3
<1> QED BY <1>3

\* A bound on the rows of each file and each table of the directory.
TableLen(t) == Len(Contents[dir][t])
BoundsLengths(m) ==
  /\ \A c \in DOMAIN Files[dir] : Len(Files[dir][c]) <= m
  /\ \A i \in 1 .. 10 : TableLen(LoadOrder[i]) <= m
Longest == CHOOSE m \in Nat : BoundsLengths(m)

\* The turns of the loops the command has before it, and the rows left in this turn.
TurnsLeft ==
  CASE pc = "mongo"       -> 55 - 2 * at
    [] pc = "mongo_batch" -> 54 - 2 * at
    [] pc = "mongo_index" -> 35
    [] pc = "drop"        -> 35 - at
    [] pc = "create"      -> 24 - at
    [] pc = "table"       -> 13 - at
    [] pc = "index"       -> 2
    [] OTHER              -> 1
RowsLeft ==
  CASE pc = "mongo_batch" -> Len(Files[dir][Entity]) - sent
    [] pc = "table"       -> TableLen(Table) - sent
    [] OTHER              -> 0
StepsLeft == TurnsLeft * (Longest + 1) + RowsLeft

\* The bound exists: there are nine files and ten tables.
LEMMA LongestIs ==
  ASSUME IInv
  PROVE  Longest \in Nat /\ BoundsLengths(Longest)
<1> DEFINE file == [i \in 1 .. 9 |-> IF MongoEntities[i] \in DOMAIN Files[dir]
                                     THEN Len(Files[dir][MongoEntities[i]]) ELSE 0]
           table == [i \in 1 .. 10 |-> TableLen(LoadOrder[i])]
<1>1. dir \in Dirs
  BY DEF IInv, TypeOK
<1>2. file \in [1 .. 9 -> Nat]
  <2>1. \A e \in DOMAIN Files[dir] : Files[dir][e] \in Seq(Rows)
    BY <1>1, LoadAssumption
  <2>2. \A e \in DOMAIN Files[dir] : Len(Files[dir][e]) \in Nat
    BY <2>1
  <2> QED BY <2>2
<1>3. table \in [1 .. 10 -> Nat]
  <2>1. \A t \in Tables : Contents[dir][t] \in Seq(Rows)
    BY <1>1, ContentsType
  <2>2. \A t \in Tables : TableLen(t) \in Nat
    BY <2>1 DEF TableLen
  <2> QED BY <2>2, LoadOrderCovers
<1>4. PICK m \in Nat : \A i \in 1 .. 9 : file[i] <= m
  <2> HIDE DEF file
  <2> QED BY <1>2, Bounded
<1>5. PICK n \in Nat : \A i \in 1 .. 10 : table[i] <= n
  <2> HIDE DEF table
  <2> QED BY <1>3, Bounded
<1>6. ASSUME NEW c \in DOMAIN Files[dir] PROVE Len(Files[dir][c]) <= m + n
  <2>1. PICK i \in 1 .. 9 : MongoEntities[i] = c
    BY <1>1, LoadAssumption, MongoEntitiesCover
  <2>2. file[i] = Len(Files[dir][c]) /\ file[i] \in Nat /\ file[i] <= m
    BY <1>2, <1>4, <2>1
  <2> QED BY <2>2
<1>7. ASSUME NEW i \in 1 .. 10 PROVE TableLen(LoadOrder[i]) <= m + n
  <2>1. table[i] = TableLen(LoadOrder[i]) /\ table[i] \in Nat /\ table[i] <= n
    BY <1>3, <1>5
  <2> QED BY <2>1
<1>8. BoundsLengths(m + n) /\ m + n \in Nat
  BY <1>6, <1>7 DEF BoundsLengths
<1> QED BY <1>8 DEF Longest

\* Numbers in base M + 1: a smaller first digit is a smaller number.
LEMMA FirstDigit ==
  ASSUME NEW j \in Nat, NEW k \in Nat, j < k, NEW M \in Nat, NEW a \in 0 .. M, NEW b \in 0 .. M
  PROVE  j * (M + 1) + a < k * (M + 1) + b
<1>1. PICK e \in Nat : k = j + 1 + e
  <2>1. k - j - 1 \in Nat /\ k = j + 1 + (k - j - 1)
    OBVIOUS
  <2> QED BY <2>1
<1>2. e * (M + 1) \in Nat /\ j * (M + 1) \in Nat
  OBVIOUS
<1>3. k * (M + 1) = j * (M + 1) + (M + 1) + e * (M + 1)
  BY <1>1
<1> QED BY <1>2, <1>3

\* While a command runs it has a turn left, and no more rows in it than the bound.
Measured ==
  /\ Longest \in Nat
  /\ TurnsLeft \in Nat \ {0}
  /\ RowsLeft \in 0 .. Longest
  /\ StepsLeft \in Nat \ {0}

LEMMA Measures == IInv /\ status = "loading" => Measured
<1> SUFFICES ASSUME IInv, status = "loading" PROVE Measured
  OBVIOUS
<1>1. Longest \in Nat /\ BoundsLengths(Longest)
  BY LongestIs
<1>2. at \in 1 .. Turns(pc) /\ sent \in Nat /\ dir \in Dirs
  BY DEF IInv, TypeOK
<1>3. TurnsLeft \in Nat \ {0}
  <2>1. pc \in {"mongo", "mongo_batch", "mongo_index", "drop", "create", "table", "index", "stats"}
    BY DEF IInv, TypeOK
  <2>2. /\ pc \in {"mongo", "mongo_batch"} => at \in 1 .. 9
        /\ pc \in {"drop", "create"} => at \in 1 .. 11
        /\ pc = "table" => at \in 1 .. 10
    BY ONLY <1>2, TurnsAre
  <2> QED BY ONLY <2>1, <2>2 DEF TurnsLeft
<1>4. RowsLeft \in 0 .. Longest
  <2>1. CASE pc = "mongo_batch"
    <3>1. Entity \in DOMAIN Files[dir] /\ sent <= Len(Files[dir][Entity])
      BY <2>1 DEF IInv, MongoProgress, HasFile
    <3>2. Len(Files[dir][Entity]) \in Nat /\ Len(Files[dir][Entity]) <= Longest
      BY <1>1, <1>2, <3>1, LoadAssumption DEF BoundsLengths
    <3> QED BY <1>1, <1>2, <2>1, <3>1, <3>2 DEF RowsLeft
  <2>2. CASE pc = "table"
    <3>1. at \in 1 .. 10
      BY <1>2, <2>2, TurnsAre
    <3>2. sent <= TableLen(Table) /\ TableLen(Table) \in Nat
      BY <2>2, CurrentTable DEF At, TableLen
    <3>3. TableLen(Table) <= Longest
      BY <1>1, <3>1 DEF BoundsLengths, Table
    <3> QED BY <1>1, <1>2, <2>2, <3>2, <3>3 DEF RowsLeft
  <2>3. CASE pc \notin {"mongo_batch", "table"}
    BY <1>1, <2>3 DEF RowsLeft
  <2> QED BY <2>1, <2>2, <2>3
<1>5. StepsLeft \in Nat \ {0}
  <2>1. 0 * (Longest + 1) + 0 < TurnsLeft * (Longest + 1) + RowsLeft
    BY <1>1, <1>3, <1>4, FirstDigit
  <2>2. TurnsLeft * (Longest + 1) \in Nat
    BY <1>1, <1>3
  <2> QED BY <1>1, <1>4, <2>1, <2>2 DEF StepsLeft
<1> QED BY <1>1, <1>3, <1>4, <1>5 DEF Measured

LEMMA MeasuresNext == (IInv /\ status = "loading" => Measured)'
  BY Measures, PTL

\* A step to a later turn, and one with fewer rows in the same turn.
LEMMA Closer ==
  ASSUME IInv, IInv', status = "loading", status' = "loading", dir' = dir,
         \/ TurnsLeft' < TurnsLeft
         \/ TurnsLeft' = TurnsLeft /\ RowsLeft' < RowsLeft
  PROVE  StepsLeft' < StepsLeft
<1>1. Measured /\ Measured'
  BY Measures, MeasuresNext
<1>2. Longest' = Longest
  BY DEF Longest, BoundsLengths, TableLen
<1>3. TurnsLeft' * (Longest + 1) + RowsLeft' < TurnsLeft * (Longest + 1) + RowsLeft
  <2>1. CASE TurnsLeft' < TurnsLeft
    BY <1>1, <1>2, <2>1, FirstDigit DEF Measured
  <2>2. CASE TurnsLeft' = TurnsLeft /\ RowsLeft' < RowsLeft
    <3>1. TurnsLeft * (Longest + 1) \in Nat
      BY <1>1 DEF Measured
    <3>2. TurnsLeft' * (Longest + 1) = TurnsLeft * (Longest + 1)
      BY <2>2
    <3>3. \A k, r, q \in Int : r < q => k + r < k + q
      OBVIOUS
    <3>4. RowsLeft \in Int /\ RowsLeft' \in Int
      BY <1>1, <1>2 DEF Measured
    <3> QED BY <2>2, <3>1, <3>2, <3>3, <3>4
  <2> QED BY <2>1, <2>2
<1> QED BY <1>2, <1>3 DEF StepsLeft

\* Each turn of a loop is passed once, and each batch has a row: a step that
\* does not end the command brings its end closer, whatever it does.
LEMMA StepIsCloser ==
  ASSUME IInv, Next, status = "loading", status' = "loading"
  PROVE  StepsLeft' < StepsLeft /\ dir' = dir /\ target' = target
<1> USE DEF At, GoTo, cmd
<1>0. IInv'
  BY NextInvariant
<1>1. at \in 1 .. Turns(pc) /\ sent \in Nat
  BY DEF IInv, TypeOK
<1>2. CASE SkipEntity \/ EntityLoaded
  <2>1. /\ pc \in {"mongo", "mongo_batch"} /\ at \in 1 .. 9 /\ UNCHANGED <<dir, target>>
        /\ \/ at < 9 /\ pc' = "mongo" /\ at' = at + 1
           \/ at = 9 /\ pc' = "mongo_index"
    BY <1>1, <1>2, Orders, TurnsAre DEF SkipEntity, EntityLoaded, NextEntity
  <2>2. TurnsLeft' < TurnsLeft
    BY <2>1 DEF TurnsLeft
  <2> QED BY <1>0, <2>1, <2>2, Closer
<1>3. CASE DropCollection
  <2>1. /\ pc = "mongo" /\ pc' = "mongo_batch" /\ at' = at /\ at \in 1 .. 9
        /\ UNCHANGED <<dir, target>>
    BY <1>1, <1>3, TurnsAre DEF DropCollection
  <2>2. TurnsLeft' < TurnsLeft
    BY <2>1 DEF TurnsLeft
  <2> QED BY <1>0, <2>1, <2>2, Closer
<1>4. CASE BulkWrite
  <2> DEFINE rows == Files[dir][Entity]
  <2>1. /\ pc = "mongo_batch" /\ UNCHANGED <<pc, at, dir, target>>
        /\ Batch(rows) # <<>> /\ sent' = sent + Len(Batch(rows))
    BY <1>4 DEF BulkWrite
  <2>2. rows \in Seq(Rows)
    BY <2>1, LoadAssumption DEF IInv, TypeOK, MongoProgress, HasFile
  <2>3. Len(Batch(rows)) \in Nat \ {0}
    BY <1>1, <2>1, <2>2, BatchType
  <2>4. Files'[dir'][Entity'] = rows /\ TurnsLeft' = TurnsLeft /\ Len(rows) \in Nat
    BY <2>1, <2>2 DEF Entity, TurnsLeft
  <2>5. RowsLeft' < RowsLeft
    <3> HIDE DEF rows
    <3>1. RowsLeft = Len(rows) - sent /\ RowsLeft' = Len(rows) - sent'
      BY <2>1, <2>4 DEF RowsLeft, rows
    <3> QED BY <1>1, <2>1, <2>3, <2>4, <3>1
  <2> QED BY <1>0, <2>1, <2>4, <2>5, Closer
<1>5. CASE MongoIndexes \/ CreateIndexes
  <2>1. /\ UNCHANGED <<dir, target>>
        /\ \/ pc = "mongo_index" /\ pc' = "drop" /\ at' = 1
           \/ pc = "index" /\ pc' = "stats"
    BY <1>5 DEF MongoIndexes, CreateIndexes, End
  <2>2. TurnsLeft' < TurnsLeft
    BY <2>1 DEF TurnsLeft
  <2> QED BY <1>0, <2>1, <2>2, Closer
<1>6. CASE DropTable \/ CreateTable
  <2>1. /\ UNCHANGED <<dir, target>> /\ at \in 1 .. 11
        /\ \/ pc \in {"drop", "create"} /\ pc' = pc /\ at' = at + 1
           \/ pc = "drop" /\ pc' = "create" /\ at' = 1
           \/ pc = "create" /\ pc' = "table" /\ at' = 1
    BY <1>1, <1>6, Orders, TurnsAre DEF DropTable, CreateTable, End
  <2>2. TurnsLeft' < TurnsLeft
    BY <2>1 DEF TurnsLeft
  <2> QED BY <1>0, <2>1, <2>2, Closer
<1>7. CASE SkipTable \/ Commit
  <2>1. /\ UNCHANGED <<dir, target>> /\ at \in 1 .. 10 /\ pc = "table"
        /\ \/ pc' = "table" /\ at' = at + 1
           \/ pc' = "index"
    BY <1>1, <1>7, Orders, TurnsAre DEF SkipTable, Commit, NextTable
  <2>2. TurnsLeft' < TurnsLeft
    BY <2>1 DEF TurnsLeft
  <2> QED BY <1>0, <2>1, <2>2, Closer
<1>8. CASE InsertBatch
  <2> DEFINE rows == Contents[dir][Table]
  <2>1. /\ pc = "table" /\ rows \in Seq(Rows) /\ TableRows(dir, Table) = rows
    BY <1>8, CurrentTable DEF InsertBatch
  <2>2. /\ Batch(rows) # <<>> /\ sent' = sent + Len(Batch(rows))
        /\ UNCHANGED <<pc, at, dir, target>>
    BY <1>8, <2>1 DEF InsertBatch, End
  <2>3. Len(Batch(rows)) \in Nat \ {0}
    BY <1>1, <2>1, <2>2, BatchType
  <2>4. TurnsLeft' = TurnsLeft /\ TableLen(Table) = Len(rows) /\ TableLen(Table)' = Len(rows)
    BY <2>2 DEF TableLen, Table, TurnsLeft
  <2>5. RowsLeft' < RowsLeft
    <3> HIDE DEF rows
    <3>1. RowsLeft = Len(rows) - sent /\ RowsLeft' = Len(rows) - sent'
      BY <2>1, <2>2, <2>4 DEF RowsLeft
    <3> QED BY <1>1, <2>1, <2>2, <2>3, <3>1
  <2> QED BY <1>0, <2>2, <2>4, <2>5, Closer
<1>9. ~Run /\ ~FileMissing /\ ~GatherStats /\ ~BulkWriteFails /\ ~CommitUnanswered /\ ~Fail
  BY DEF Run, FileMissing, GatherStats, End, BulkWriteFails, CommitUnanswered, Fail
<1> QED BY <1>2, <1>3, <1>4, <1>5, <1>6, <1>7, <1>8, <1>9 DEF Next, MongoStep, OracleStep

\* No command is endless: while it runs, every step of it leaves fewer than there
\* were, for any directory, any batch size and whatever fails (data_load).
THEOREM LoadIsBounded ==
  Spec => [][status = "loading" /\ status' = "loading" => StepsLeft' < StepsLeft]_vars
<1>1. IInv /\ [Next]_vars =>
        [status = "loading" /\ status' = "loading" => StepsLeft' < StepsLeft]_vars
  BY StepIsCloser
<1> QED BY <1>1, Invariance, PTL DEF Spec

\* A batch is empty only at the end of the rows.
LEMMA EmptyBatch ==
  ASSUME NEW rows \in Seq(Rows), sent \in Nat, sent < Len(rows)
  PROVE  Batch(rows) # <<>>
<1>1. PICK m \in Nat : sent + 1 <= m /\ m <= Len(rows) /\ Batch(rows) = SubSeq(rows, sent + 1, m)
  BY LoadAssumption DEF Batch
<1>2. Len(Batch(rows)) = m - sent /\ m - sent > 0
  BY <1>1
<1> QED BY <1>2

\* A guard of the command's next step holds.
HasNextStep ==
  CASE pc = "mongo_batch" -> \/ Batch(Files[dir][Entity]) # <<>>
                             \/ sent = Len(Files[dir][Entity])
    [] pc = "table" -> TableFile => \/ Batch(TableRows(dir, Table)) # <<>>
                                    \/ sent = Len(TableRows(dir, Table))
    [] OTHER -> TRUE

\* A command is never stuck between its steps: what a loop has sent is short of
\* the file and the next batch has rows, or it is the whole file and the loop
\* goes on to the next element (the batch loops of load_mongodb and of
\* _executemany_with_stats); the other steps have no guard but their place.
THEOREM CommandHasNextStep == Spec => [](status = "loading" => HasNextStep)
<1>1. ASSUME IInv, status = "loading" PROVE HasNextStep
  <2>1. CASE pc = "mongo_batch"
    <3>1. /\ Files[dir][Entity] \in Seq(Rows) /\ sent \in Nat
          /\ sent <= Len(Files[dir][Entity])
      BY <1>1, <2>1, LoadAssumption DEF IInv, TypeOK, MongoProgress, HasFile
    <3> QED BY <2>1, <3>1, EmptyBatch DEF HasNextStep
  <2>2. CASE pc = "table"
    <3>1. /\ TableRows(dir, Table) \in Seq(Rows) /\ sent \in Nat
          /\ sent <= Len(TableRows(dir, Table))
      BY <1>1, <2>2, CurrentTable DEF At
    <3> QED BY <2>2, <3>1, EmptyBatch DEF HasNextStep
  <2> QED BY <2>1, <2>2 DEF HasNextStep
<1> QED BY <1>1, Invariance, PTL

-------------------------------------------------------------------------------
(* A command repeated after the last fault loads its directory.            *)

\* Says nothing: a step that says it of a function puts the function before the
\* provers, which look for the f of a table only among what is named to them.
IsTable(f) == TRUE

\* A running command takes its next step.
GoesOn == []<>~(status = "loading") \/ []<><<MongoStep \/ OracleStep>>_vars

\* A repeated command, with at most n steps left, and that it loads.
Retries ==
  /\ IInv /\ CauseInv
  /\ status = "loading" /\ ~faulted /\ faults = MaxFaults /\ Complete(dir)
Near(n) == Retries /\ StepsLeft <= n
Loads(n) == Near(n) ~> (status = "ok")

\* A step of a repeated command ends it well or leaves it nearer the end: no
\* fault is left, no file is missing, and what earlier commands left is no cause
\* of failure.
LEMMA RetryStep ==
  ASSUME \A d \in Dirs : WellFormed(d), Retries, Next
  PROVE  status' = "ok" \/ (Retries' /\ StepsLeft' < StepsLeft)
<1> USE DEF Retries
<1>0. IInv' /\ CauseInv'
  BY NextInvariant, CauseStep
<1>1. /\ faulted' = faulted /\ faults' = faults /\ UNCHANGED <<dir, target>>
      /\ status' \in {"loading", "ok", "failed"}
  <2>1. ~Run /\ ~Fault
    BY LoadAssumption DEF Run, Fault
  <2>2. CASE MongoStep
    BY <2>2 DEF MongoStep, SkipEntity, DropCollection, BulkWrite, EntityLoaded, MongoIndexes,
                NextEntity, NoFault, End, cmd
  <2>3. CASE OracleStep
    BY <2>1, <2>3 DEF OracleStep, DropTable, CreateTable, SkipTable, FileMissing, InsertBatch,
                Commit, CreateIndexes, GatherStats, NoFault, End, cmd
  <2> QED BY <2>1, <2>2, <2>3 DEF Next, BulkWriteFails, CommitUnanswered, Fail
<1>2. status' # "failed"
  BY <1>0, <1>1 DEF CauseInv, FailureHasACause, Complete
<1>3. CASE status' = "loading"
  BY <1>0, <1>1, <1>3, StepIsCloser
<1> QED BY <1>1, <1>2, <1>3

\* The next step of a command with at most n + 1 steps left leaves it with n.
LEMMA OneStepMore ==
  ASSUME \A d \in Dirs : WellFormed(d), NEW n \in Nat
  PROVE  [][Next]_vars /\ GoesOn /\ Loads(n) => Loads(n + 1)
<1>1. ASSUME Near(n + 1), Next PROVE Near(n)' \/ status' = "ok"
  <2>1. CASE Retries' /\ StepsLeft' < StepsLeft
    <3>1. StepsLeft \in Nat /\ StepsLeft' \in Nat
      BY <1>1, <2>1, Measures, MeasuresNext DEF Near, Retries, Measured
    <3> QED BY <1>1, <2>1, <3>1 DEF Near
  <2> QED BY <1>1, <2>1, RetryStep DEF Near
<1>2. ASSUME Near(n + 1), UNCHANGED vars PROVE Near(n + 1)'
  <2>1. IInv' /\ CauseInv'
    BY <1>2, NextInvariant, CauseStep DEF Near, Retries
  <2>2. StepsLeft' = StepsLeft
    BY <1>2 DEF vars, cmd, StepsLeft, TurnsLeft, RowsLeft, Longest, BoundsLengths, TableLen,
       Entity, Table
  <2> QED BY <1>2, <2>1, <2>2 DEF Near, Retries, vars, cmd
<1>3. Near(n + 1) /\ [Next]_vars => Near(n + 1)' \/ Near(n)' \/ (status = "ok")'
  BY <1>1, <1>2
<1>4. Near(n + 1) /\ <<MongoStep \/ OracleStep>>_vars => Near(n)' \/ (status = "ok")'
  BY <1>1 DEF Next
<1>5. Near(n + 1) => status = "loading"
  BY DEF Near, Retries
<1> QED BY <1>3, <1>4, <1>5, PTL DEF GoesOn, Loads

\* A running command has a step left.
LEMMA NoStepLeft == Loads(0)
<1>1. ~Near(0)
  BY Measures DEF Near, Retries, Measured
<1> QED BY <1>1, PTL DEF Loads

\* Whatever the number of steps a repeated command has left, it loads.
LoadsFromHere == \A n \in Nat : Near(n) => <>(status = "ok")

LEMMA EveryDistance ==
  ASSUME \A d \in Dirs : WellFormed(d)
  PROVE  [][Next]_vars /\ GoesOn => LoadsFromHere
<1> SUFFICES ASSUME [][Next]_vars, GoesOn PROVE LoadsFromHere
  OBVIOUS
<1>1. \E f : IsTable(f) /\ \A n \in Nat : f[n] <=> Loads(n)
  <2>1. IsTable([n \in Nat |-> Loads(n)])
    BY DEF IsTable
  <2> QED BY <2>1
<1>2. PICK f : \A n \in Nat : f[n] <=> Loads(n)
  BY <1>1
<1>3. f[0] /\ \A n \in Nat : f[n] => f[n + 1]
  BY <1>2, NoStepLeft, OneStepMore
<1>4. \A n \in Nat : f[n]
  BY <1>3, Induction
<1>5. ASSUME NEW n \in Nat PROVE Loads(n) => (Near(n) => <>(status = "ok"))
  BY PTL DEF Loads
<1> QED BY <1>2, <1>4, <1>5 DEF LoadsFromHere

\* After the last fault the command loads a complete, well-formed directory, for
\* any directories, any batch size, any number of earlier faults and whatever the
\* commands they hit left in the databases (data_load, create_schema).
THEOREM RetriesLoad ==
  ASSUME \A d \in Dirs : WellFormed(d)
  PROVE  Spec /\ GoesOn => RetryLoads
<1>1. IInv /\ CauseInv /\ status = "loading" /\ ~faulted /\ faults = MaxFaults /\ Complete(dir)
        => \E n \in Nat : Near(n)
  BY Measures DEF Near, Retries, Measured
<1>2. (\E n \in Nat : Near(n)) /\ LoadsFromHere => <>(status = "ok")
  BY DEF LoadsFromHere
<1> QED BY <1>1, <1>2, EveryDistance, Invariance, CausesAlways, PTL
       DEF Spec, GoesOn, RetryLoads
===============================================================================

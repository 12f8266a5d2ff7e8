---------------------------- MODULE RecordStoreProofs ----------------------------
(* Every finished report counts the records that were there when it began, and *)
(* every finished run is on disk, for all variants, commands and clocks.       *)
EXTENDS RecordStore, TLAPS

LEMMA NoneIsNoRecord == None \notin Records /\ None # Broken /\ Broken \notin Records
  BY DEF None, Broken, Records

\* What touching the file of a command does to the directory.
LEMMA PutFacts ==
  ASSUME NEW name, NEW text \in Texts, TypeOK, Put(name, text)
  PROVE  /\ Directory(files') /\ DOMAIN files' = DOMAIN files \cup {name}
         /\ files'[name].text = text
         /\ \A n \in DOMAIN files : n # name => files'[n] = files[n]
         /\ name \in disturbed' /\ disturbed \subseteq disturbed'
  BY DEF Put, TypeOK, Directory

\* A write changes no settled file, so what the report has passed still counts.
LEMMA WriteKeepsReport ==
  ASSUME IInv, NEW name, NEW text \in Texts, Put(name, text), UNCHANGED <<report, seen>>
  PROVE  PassedFilesCount'
<1>1. \A n \in Settled' : n \in Settled /\ n # name
  BY PutFacts DEF Settled, IInv
<1>2. \A n \in Settled' : files'[n] = files[n]
  BY <1>1, PutFacts DEF Settled, IInv, TypeOK
<1>3. \A n : Counted(n)' <=> Counted(n)
  BY DEF Counted
<1>. QED  BY <1>1, <1>2, <1>3 DEF IInv, PassedFilesCount

LEMMA InitInvariant == Init => IInv
<1>. SUFFICES ASSUME Init PROVE IInv
  OBVIOUS
<1>1. Settled = {} /\ DOMAIN files = {}
  BY DEF Init, Settled
<1>. QED  BY <1>1, NoneIsNoRecord, StoreAssumption
          DEF Init, IInv, TypeOK, Directory, FilesOfCommands, PassedFilesCount

\* The steps that touch neither the directory nor the report.
LEMMA TickInvariant == IInv /\ Tick => IInv'
<1>. SUFFICES ASSUME IInv, Tick PROVE IInv'
  OBVIOUS
<1>. USE DEF Tick, IInv
<1>1. TypeOK'
  BY DEF TypeOK, Directory
<1>2. FilesOfCommands'
  BY DEF FilesOfCommands, Holds, Shared, FileName
<1>3. PassedFilesCount'
  BY DEF PassedFilesCount, Settled, Counted
<1>. QED  BY <1>1, <1>2, <1>3

LEMMA AssembleInvariant == ASSUME NEW c \in Commands PROVE IInv /\ Assemble(c) => IInv'
<1>. SUFFICES ASSUME IInv, Assemble(c) PROVE IInv'
  OBVIOUS
<1>. USE DEF Assemble, IInv
<1>1. record'[c] \in Records /\ \A d \in Commands \ {c} : record'[d] = record[d] /\ pc'[d] = pc[d]
  BY DEF TypeOK, Records
<1>2. TypeOK'
  BY <1>1 DEF TypeOK, Directory, Records
<1>3. \A d \in Commands \ {c} : Shared(d) => Shared(d)'
  BY <1>1 DEF TypeOK, Shared, FilesOfCommands
<1>4. FilesOfCommands'
  BY <1>1, <1>3 DEF TypeOK, FilesOfCommands, Holds, FileName
<1>5. PassedFilesCount'
  BY DEF PassedFilesCount, Settled, Counted
<1>. QED  BY <1>2, <1>4, <1>5

LEMMA CrashInvariant == ASSUME NEW c \in Commands PROVE IInv /\ Crash(c) => IInv'
<1>. SUFFICES ASSUME IInv, Crash(c) PROVE IInv'
  OBVIOUS
<1>. USE DEF Crash, IInv
<1>1. pc'[c] = "crashed" /\ \A d \in Commands \ {c} : pc'[d] = pc[d]
  BY DEF TypeOK
<1>2. TypeOK'
  BY DEF TypeOK, Directory
<1>3. \A d \in Commands : Shared(d) => Shared(d)'
  BY <1>1 DEF TypeOK, Shared
<1>4. FilesOfCommands'
  BY <1>1, <1>3 DEF FilesOfCommands, Holds, FileName
<1>5. PassedFilesCount'
  BY DEF PassedFilesCount, Settled, Counted
<1>. QED  BY <1>2, <1>4, <1>5

\* Two commands with one file name share it.
LEMMA SameNameShared ==
  ASSUME NEW c \in Commands, NEW d \in Commands, c # d, record[d] # None,
         pc[d] \notin {"running", "stamped"}, FileName(record[c]) = FileName(record[d])
  PROVE  Shared(c)
  BY DEF FileName, Shared

LEMMA OpenFileInvariant == ASSUME NEW c \in Commands PROVE IInv /\ OpenFile(c) => IInv'
<1>. SUFFICES ASSUME IInv, OpenFile(c) PROVE IInv'
  OBVIOUS
<1>. DEFINE name == FileName(record[c])
<1>1. Put(name, Broken) /\ Broken \in Texts /\ UNCHANGED <<report, seen, record, now>>
  BY DEF OpenFile, Texts
<1>2. pc'[c] = "writing" /\ \A d \in Commands \ {c} : pc'[d] = pc[d]
  BY DEF OpenFile, IInv, TypeOK
<1>3. TypeOK'
  BY <1>1, <1>2, PutFacts DEF IInv, TypeOK, OpenFile
<1>4. record[c] \in Records
  BY DEF IInv, FilesOfCommands, OpenFile
<1>5. \A d \in Commands : Shared(d) => Shared(d)'
  BY <1>1, <1>2 DEF Shared
<1>6. FilesOfCommands'
  <2>. SUFFICES ASSUME NEW d \in Commands
       PROVE /\ pc'[d] = "running" => record[d] = None
             /\ pc'[d] \in {"stamped", "writing", "done"} => record[d] \in Records
             /\ pc'[d] = "writing" => FileName(record[d]) \in DOMAIN files' /\ (Holds(d, Broken)' \/ Shared(d)')
             /\ pc'[d] = "done" => Holds(d, record[d])' \/ Shared(d)'
    BY <1>1 DEF FilesOfCommands, Holds
  <2>1. CASE d = c
    <3>1. Holds(c, Broken)'
      <4>1. record' = record /\ name \in DOMAIN files' /\ files'[name].text = Broken
        BY <1>1, PutFacts DEF IInv
      <4>. QED  BY <4>1 DEF Holds, FileName
    <3>2. FileName(record[c]) \in DOMAIN files'
      BY <1>1, PutFacts DEF IInv
    <3>. QED  BY <3>1, <3>2, <2>1, <1>2, <1>4
  <2>2. CASE d # c /\ FileName(record[d]) = name
    <3>1. Shared(d)'
      BY <2>2, <1>1, <1>2, <1>4, NoneIsNoRecord DEF Shared, FileName
    <3>. QED  BY <3>1, <2>2, <1>1, <1>2, PutFacts DEF IInv, FilesOfCommands
  <2>3. CASE d # c /\ FileName(record[d]) # name
    <3>1. \A text : Holds(d, text) => Holds(d, text)'
      BY <2>3, <1>1, PutFacts DEF IInv, Holds, FileName
    <3>. QED  BY <3>1, <2>3, <1>1, <1>2, <1>5, PutFacts DEF IInv, FilesOfCommands
  <2>. QED  BY <2>1, <2>2, <2>3
<1>7. PassedFilesCount'
  BY <1>1, WriteKeepsReport
<1>. QED  BY <1>3, <1>6, <1>7 DEF IInv

LEMMA WriteFileInvariant == ASSUME NEW c \in Commands PROVE IInv /\ WriteFile(c) => IInv'
<1>. SUFFICES ASSUME IInv, WriteFile(c) PROVE IInv'
  OBVIOUS
<1>. DEFINE name == FileName(record[c])
<1>1. record[c] \in Records /\ name \in DOMAIN files /\ (Holds(c, Broken) \/ Shared(c))
  BY DEF IInv, FilesOfCommands, WriteFile
<1>2. PICK text \in {record[c]} \cup (IF files[name].text = Broken THEN {} ELSE {Broken}) : Put(name, text)
  BY DEF WriteFile
<1>3. text \in Texts /\ UNCHANGED <<report, seen, record, now>>
  BY <1>1, <1>2 DEF WriteFile, Texts
<1>4. pc'[c] = "done" /\ \A d \in Commands \ {c} : pc'[d] = pc[d]
  BY DEF WriteFile, IInv, TypeOK
<1>5. TypeOK'
  BY <1>2, <1>3, <1>4, PutFacts DEF IInv, TypeOK, WriteFile
<1>6. \A d \in Commands : Shared(d) => Shared(d)'
  BY <1>3, <1>4 DEF Shared
<1>7. FilesOfCommands'
  <2>. SUFFICES ASSUME NEW d \in Commands
       PROVE /\ pc'[d] = "running" => record[d] = None
             /\ pc'[d] \in {"stamped", "writing", "done"} => record[d] \in Records
             /\ pc'[d] = "writing" => FileName(record[d]) \in DOMAIN files' /\ (Holds(d, Broken)' \/ Shared(d)')
             /\ pc'[d] = "done" => Holds(d, record[d])' \/ Shared(d)'
    BY <1>3 DEF FilesOfCommands, Holds
  <2>1. CASE d = c
    <3>1. CASE Shared(c)
      BY <3>1, <2>1, <1>1, <1>4, <1>6
    <3>2. CASE Holds(c, Broken)
      <4>1. text = record[c]
        BY <3>2, <1>2 DEF Holds
      <4>2. Holds(c, record[c])'
        BY <4>1, <1>2, <1>3, PutFacts DEF IInv, Holds, FileName
      <4>. QED  BY <4>2, <2>1, <1>1, <1>4
    <3>. QED  BY <3>1, <3>2, <1>1
  <2>2. CASE d # c /\ FileName(record[d]) = name
    <3>1. Shared(d)'
      BY <2>2, <1>1, <1>3, <1>4, NoneIsNoRecord DEF Shared, FileName
    <3>. QED  BY <3>1, <2>2, <1>2, <1>3, <1>4, PutFacts DEF IInv, FilesOfCommands
  <2>3. CASE d # c /\ FileName(record[d]) # name
    <3>1. \A t : Holds(d, t) => Holds(d, t)'
      BY <2>3, <1>2, <1>3, PutFacts DEF IInv, Holds, FileName
    <3>. QED  BY <3>1, <2>3, <1>2, <1>3, <1>4, <1>6, PutFacts DEF IInv, FilesOfCommands
  <2>. QED  BY <2>1, <2>2, <2>3
<1>8. PassedFilesCount'
  BY <1>2, <1>3, WriteKeepsReport
<1>. QED  BY <1>5, <1>7, <1>8 DEF IInv

\* A copy of the directory settles nothing and changes no text.
LEMMA RestampInvariant == IInv /\ Restamp => IInv'
<1>. SUFFICES ASSUME IInv, Restamp PROVE IInv'
  OBVIOUS
<1>. USE DEF Restamp, IInv
<1>1. DOMAIN files' = DOMAIN files /\ \A n \in DOMAIN files : files'[n].text = files[n].text /\ files'[n].mtime = now
  BY DEF TypeOK, Directory
<1>2. TypeOK'
  BY <1>1 DEF TypeOK, Directory
<1>3. FilesOfCommands'
  BY <1>1 DEF FilesOfCommands, Holds, Shared, FileName
<1>4. Settled' = {}
  BY DEF TypeOK, Settled
<1>. QED  BY <1>2, <1>3, <1>4 DEF PassedFilesCount

LEMMA StartReportInvariant ==
  ASSUME NEW kind \in {"csv", "markdown", "html"} PROVE IInv /\ StartReport(kind) => IInv'
<1>. SUFFICES ASSUME IInv, StartReport(kind) PROVE IInv'
  OBVIOUS
<1>. USE DEF StartReport, IInv
<1>1. TypeOK'
  BY DEF TypeOK, Directory
<1>2. FilesOfCommands'
  BY DEF FilesOfCommands, Holds, Shared, FileName
<1>3. PassedFilesCount'
  BY DEF PassedFilesCount, Settled
<1>. QED  BY <1>1, <1>2, <1>3

-------------------------------------------------------------------------------
(* The report reads one file.                                              *)

\* A row stays or gives way to a newer one of its variant: newer by timestamp.
LEMMA KeepLatest ==
  ASSUME NEW new, new.record \in Records, \A x \in report.rows : x.record \in Records,
         NEW older,
         \A x \in report.rows : x \in older <=> x.record.timestamp < new.record.timestamp
  PROVE  /\ \A x \in report.rows : \E y \in Keep(new, older) :
              y.record.variant = x.record.variant /\ y.record.timestamp >= x.record.timestamp
         /\ \E y \in Keep(new, older) : y.record.variant = new.record.variant
                              /\ y.record.timestamp >= new.record.timestamp
         /\ Keep(new, older) \subseteq report.rows \cup {new}
  BY DEF Keep, Records

\* The same by modification time.
LEMMA KeepYoungest ==
  ASSUME NEW new, new.mtime \in Nat, \A x \in report.rows : x.mtime \in Nat,
         NEW older, \A x \in report.rows : x \in older <=> x.mtime < new.mtime
  PROVE  /\ \A x \in report.rows : \E y \in Keep(new, older) :
              y.record.variant = x.record.variant /\ y.mtime >= x.mtime
         /\ \E y \in Keep(new, older) : y.record.variant = new.record.variant /\ y.mtime >= new.mtime
         /\ Keep(new, older) \subseteq report.rows \cup {new}
  BY DEF Keep

\* What the markdown report keeps after a file it can read.
LEMMA MarkdownRows ==
  ASSUME IInv, NEW name \in DOMAIN files, files[name].text # Broken
  PROVE  /\ \A x \in report.rows : \E y \in ReadForMarkdown(name) :
              y.record.variant = x.record.variant /\ y.record.timestamp >= x.record.timestamp
         /\ \E y \in ReadForMarkdown(name) :
              /\ y.record.variant = files[name].text.variant
              /\ y.record.timestamp >= files[name].text.timestamp
<1>. DEFINE new == [record |-> files[name].text, mtime |-> 0]
            older == {x \in report.rows : x.record.timestamp < files[name].text.timestamp}
<1>1. new.record \in Records /\ new.record = files[name].text
  BY DEF IInv, TypeOK, Directory, Texts
<1>2. \A x \in report.rows : x.record \in Records
  BY DEF IInv, TypeOK
<1>3. \A x \in report.rows : x \in older <=> x.record.timestamp < new.record.timestamp
  BY <1>1
<1>4. ReadForMarkdown(name) = Keep(new, older)
  BY DEF ReadForMarkdown
<1>. HIDE DEF new, older
<1>. QED  BY <1>1, <1>2, <1>3, <1>4, KeepLatest

LEMMA ReadInvariant == ASSUME NEW name \in report.todo PROVE IInv /\ Read(name) => IInv'
<1>. SUFFICES ASSUME IInv, Read(name) PROVE IInv'
  OBVIOUS
<1>. DEFINE text == files[name].text
            rows == CASE report.kind = "csv" -> ReadForCsv(name)
                      [] report.kind = "markdown" -> ReadForMarkdown(name)
                      [] OTHER -> report.rows
            held == IF report.kind = "html" /\ text # Broken
                    THEN [kind |-> "held", name |-> name, record |-> text] ELSE None
<1>1. /\ report.held = None
      /\ report' = [kind |-> report.kind, todo |-> report.todo \ {name}, held |-> held, rows |-> rows]
      /\ UNCHANGED <<now, files, pc, record, seen, disturbed>>
  BY DEF Read, IInv, TypeOK
<1>2. name \in DOMAIN files /\ (text = Broken \/ text \in Records)
  BY DEF IInv, TypeOK, Directory, Texts
<1>3. \A row \in rows : row.record \in Records /\ row.mtime \in Nat
  <2>1. CASE report.kind = "csv"
    BY <2>1, <1>2 DEF IInv, TypeOK, ReadForCsv
  <2>2. CASE report.kind = "markdown"
    BY <2>2, <1>2 DEF IInv, TypeOK, ReadForMarkdown, Keep
  <2>3. CASE report.kind \notin {"csv", "markdown"}
    BY <2>3 DEF IInv, TypeOK
  <2>. QED  BY <2>1, <2>2, <2>3
<1>4. TypeOK'
  <2>1. held # None => report.kind = "html" /\ held.name \in DOMAIN files /\ held.record \in Records
    BY <1>2
  <2>. HIDE DEF rows, held
  <2>. QED  BY <2>1, <1>1, <1>3 DEF IInv, TypeOK, Directory
<1>5. FilesOfCommands'
  BY <1>1 DEF IInv, FilesOfCommands, Holds, Shared, FileName
<1>6. report.kind # "aborted" => \A n \in Settled : n \notin report.todo => Counted(n)
  BY <1>1 DEF IInv, PassedFilesCount
<1>7. \A n \in Settled : Counted(n) => Counted(n)'
  <2>. SUFFICES ASSUME NEW n \in Settled, Counted(n) PROVE Counted(n)'
    OBVIOUS
  <2>0. report'.kind = report.kind /\ report'.rows = rows /\ seen' = seen
    BY <1>1
  <2>1. CASE report.kind = "csv"
    BY <2>0, <2>1 DEF Counted, ReadForCsv
  <2>2. CASE report.kind = "markdown"
    <3>1. seen[n].text.timestamp \in Nat /\ \A row \in report.rows \cup rows : row.record.timestamp \in Nat
      BY <1>3 DEF Settled, IInv, TypeOK, Directory, Texts, Records
    <3>2. \A x \in report.rows : \E y \in rows :
            y.record.variant = x.record.variant /\ y.record.timestamp >= x.record.timestamp
      <4>1. CASE text = Broken
        BY <4>1, <2>2, <3>1 DEF ReadForMarkdown
      <4>2. CASE text # Broken
        BY <4>2, <2>2, <1>2, MarkdownRows
      <4>. QED  BY <4>1, <4>2
    <3>. QED  BY <2>0, <2>2, <3>1, <3>2 DEF Counted
  <2>3. CASE report.kind \notin {"csv", "markdown"}
    BY <2>0, <2>3 DEF Counted
  <2>. QED  BY <2>1, <2>2, <2>3
<1>8. name \in Settled => \/ Counted(name)'
                          \/ held # None /\ held.name = name /\ held.record = seen[name].text
  <2>. SUFFICES ASSUME name \in Settled
       PROVE \/ Counted(name)'
             \/ held # None /\ held.name = name /\ held.record = seen[name].text
    OBVIOUS
  <2>0. report'.kind = report.kind /\ report'.rows = rows /\ seen' = seen
    BY <1>1
  <2>1. text = seen[name].text /\ text \in Records /\ text # Broken
    BY <1>2 DEF IInv, PassedFilesCount, Settled
  <2>2. CASE report.kind = "csv"
    <3>1. [record |-> text, mtime |-> 0] \in rows
      BY <2>1, <2>2 DEF ReadForCsv
    <3>2. [record |-> text, mtime |-> 0].record = seen[name].text
      BY <2>1
    <3>. HIDE DEF rows
    <3>. QED  BY <3>1, <3>2, <2>0, <2>2 DEF Counted
  <2>3. CASE report.kind = "markdown"
    <3>1. \E y \in rows : y.record.variant = text.variant /\ y.record.timestamp >= text.timestamp
      BY <2>1, <2>3, <1>2, MarkdownRows
    <3>. HIDE DEF rows, text
    <3>. QED  BY <3>1, <2>0, <2>1, <2>3 DEF Counted
  <2>4. CASE report.kind = "html"
    BY <2>1, <2>4 DEF None
  <2>5. report.kind \notin {"none", "aborted"}
    BY DEF IInv, PassedFilesCount
  <2>. QED  BY <2>2, <2>3, <2>4, <2>5 DEF IInv, TypeOK
<1>9. PassedFilesCount'
  <2>1. Settled' = Settled
    BY <1>1 DEF Settled
  <2>. HIDE DEF rows, held
  <2>. QED  BY <2>1, <1>1, <1>6, <1>7, <1>8 DEF IInv, PassedFilesCount
<1>. QED  BY <1>4, <1>5, <1>9 DEF IInv

\* A report that ends there has nothing to count.
LEMMA AbortInvariant == ASSUME NEW name \in report.todo PROVE IInv /\ Abort(name) => IInv'
<1>. SUFFICES ASSUME IInv, Abort(name) PROVE IInv'
  OBVIOUS
<1>1. /\ report' = [kind |-> "aborted", todo |-> {}, held |-> report.held, rows |-> report.rows]
      /\ report.kind \in {"csv", "markdown"}
      /\ UNCHANGED <<now, files, pc, record, seen, disturbed>>
  BY DEF Abort, IInv, TypeOK
<1>2. report.held = None
  BY <1>1 DEF IInv, TypeOK
<1>3. TypeOK'
  BY <1>1, <1>2 DEF IInv, TypeOK, Directory
<1>4. FilesOfCommands'
  BY <1>1 DEF IInv, FilesOfCommands, Holds, Shared, FileName
<1>5. PassedFilesCount'
  BY <1>1 DEF IInv, PassedFilesCount, Settled
<1>. QED  BY <1>3, <1>4, <1>5 DEF IInv

LEMMA StatInvariant == IInv /\ Stat => IInv'
<1>. SUFFICES ASSUME IInv, Stat PROVE IInv'
  OBVIOUS
<1>. DEFINE name == report.held.name
            new == [record |-> report.held.record, mtime |-> files[name].mtime]
            older == {x \in report.rows : x.mtime < files[name].mtime}
            rows == Keep(new, older)
<1>1. /\ report' = [kind |-> report.kind, todo |-> report.todo, held |-> None, rows |-> rows]
      /\ UNCHANGED <<now, files, pc, record, seen, disturbed>>
      /\ report.held # None
  BY DEF Stat, IInv, TypeOK
<1>2. report.kind = "html" /\ new.record \in Records /\ new.mtime \in Nat /\ new.record = report.held.record
  BY <1>1 DEF IInv, TypeOK, Directory
<1>3. /\ \A x \in report.rows : \E y \in rows : y.record.variant = x.record.variant /\ y.mtime >= x.mtime
      /\ \E y \in rows : y.record.variant = new.record.variant /\ y.mtime >= new.mtime
      /\ rows \subseteq report.rows \cup {new}
  <2>1. \A x \in report.rows : x.mtime \in Nat /\ (x \in older <=> x.mtime < new.mtime)
    BY DEF IInv, TypeOK
  <2>. HIDE DEF new, older
  <2>. QED  BY <1>2, <2>1, KeepYoungest
<1>4. \A row \in rows : row.record \in Records /\ row.mtime \in Nat
  BY <1>2, <1>3 DEF IInv, TypeOK
<1>. HIDE DEF rows
<1>5. TypeOK'
  BY <1>1, <1>4 DEF IInv, TypeOK, Directory
<1>6. FilesOfCommands'
  BY <1>1 DEF IInv, FilesOfCommands, Holds, Shared, FileName
<1>7. \A n \in Settled : Counted(n) => Counted(n)'
  <2>. SUFFICES ASSUME NEW n \in Settled, Counted(n) PROVE Counted(n)'
    OBVIOUS
  <2>1. seen[n].mtime \in Nat /\ \A row \in report.rows : row.mtime \in Nat
    BY DEF Settled, IInv, TypeOK, Directory
  <2>. QED  BY <2>1, <1>1, <1>2, <1>3, <1>4 DEF Counted
<1>8. \A n \in Settled : n = name /\ report.held.record = seen[n].text => Counted(n)'
  <2>. SUFFICES ASSUME NEW n \in Settled, n = name, report.held.record = seen[n].text PROVE Counted(n)'
    OBVIOUS
  <2>1. new.mtime = seen[n].mtime
    BY DEF IInv, PassedFilesCount
  <2>. QED  BY <2>1, <1>1, <1>2, <1>3 DEF Counted
<1>9. PassedFilesCount'
  <2>1. Settled' = Settled
    BY <1>1 DEF Settled
  <2>. QED  BY <2>1, <1>1, <1>2, <1>7, <1>8 DEF IInv, PassedFilesCount
<1>. QED  BY <1>5, <1>6, <1>9 DEF IInv

-------------------------------------------------------------------------------
(* The theorems.                                                           *)

\* The inductive invariant holds for every set of variants and commands, every
\* length of a second and every interleaving of writers, copies and one report.
THEOREM Invariance == Spec => []IInv
<1>1. IInv /\ [Next]_vars => IInv'
  <2>. SUFFICES ASSUME IInv, [Next]_vars PROVE IInv'
    OBVIOUS
  <2>1. CASE UNCHANGED vars
    BY <2>1 DEF vars, IInv, TypeOK, Directory, FilesOfCommands, Holds, Shared, FileName,
                PassedFilesCount, Settled, Counted
  <2>. QED  BY <2>1, TickInvariant, AssembleInvariant, OpenFileInvariant, WriteFileInvariant,
               CrashInvariant, RestampInvariant, StartReportInvariant, ReadInvariant, AbortInvariant, StatInvariant
            DEF Next
<1>. QED  BY <1>1, InitInvariant, PTL DEF Spec

\* A finished report leaves out no record that was whole when it began and that
\* nobody touched (aggregate_runs, collect_latest_per_variant, _load_records).
THEOREM ReportsAreComplete == Spec => []SettledRecordsCount
<1>1. IInv => SettledRecordsCount
  BY DEF IInv, PassedFilesCount, SettledRecordsCount, Complete
<1>. QED  BY <1>1, Invariance, PTL

\* The record of a finished run is on disk unless a run of the same variant and
\* second opened its file (cli.run_scenario).
THEOREM FinishedRunsAreOnDisk == Spec => []FinishedRunIsOnDisk
<1>1. IInv => FinishedRunIsOnDisk
  BY DEF IInv, FilesOfCommands, FinishedRunIsOnDisk, Holds
<1>. QED  BY <1>1, Invariance, PTL
===============================================================================

------------------------------ MODULE RecordStore ------------------------------
(***************************************************************************)
(* results/raw: "run scenario" commands each write one record file, and    *)
(* the three report commands walk the directory, all at the same time.     *)
(* write_text truncates the file and then writes it, so a reader or a      *)
(* crash in between finds a file that is no JSON.  A text that ends within  *)
(* a character is not even text: that ends the CSV and the markdown report. *)
(*                                                                         *)
(* Time is in ticks; a record's timestamp has the resolution of a tick,    *)
(* the timestamp in its file name that of a second.                        *)
(***************************************************************************)
EXTENDS Naturals

CONSTANTS
  Variants,        \* pairs of scenario and variant label
  Commands,        \* the "run scenario" commands of the history
  TicksPerSecond,
  MaxTime          \* bound: ticks of the history

ASSUME StoreAssumption == TicksPerSecond \in Nat \ {0} /\ MaxTime \in Nat

VARIABLES
  now,       \* the clock
  files,     \* results/raw: file names -> text and modification time
  pc,        \* where each run command is
  record,    \* the record each run command has assembled
  report,    \* the report command: kind, files to read, rows so far
  seen,      \* history: the files when the report began
  disturbed  \* history: the files touched since

vars == <<now, files, pc, record, report, seen, disturbed>>

None == [kind |-> "none"]
Broken == [kind |-> "broken"]

FileName_OfVariant(r) == <<r.variant, 0>>
FileName(r) == <<r.variant, r.timestamp \div TicksPerSecond>>

Put(name, text) ==
  /\ files' = [n \in DOMAIN files \cup {name} |->
                 IF n = name THEN [text |-> text, mtime |-> now] ELSE files[n]]
  /\ disturbed' = disturbed \cup {name}

Init ==
  /\ now = 0
  /\ files = [n \in {} |-> None]
  /\ pc = [c \in Commands |-> "running"]
  /\ record = [c \in Commands |-> None]
  /\ report = [kind |-> "none", todo |-> {}, held |-> None, rows |-> {}]
  /\ seen = files
  /\ disturbed = {}

Tick == now < MaxTime /\ now' = now + 1
        /\ UNCHANGED <<files, pc, record, report, seen, disturbed>>

-------------------------------------------------------------------------------
(* cli.run_scenario.                                                       *)

\* The record is stamped before the drivers are closed and the file is opened.
Assemble(c) ==
  /\ pc[c] = "running"
  /\ \E v \in Variants :
       record' = [record EXCEPT ![c] = [kind |-> "record", variant |-> v, timestamp |-> now, run |-> c]]
  /\ pc' = [pc EXCEPT ![c] = "stamped"]
  /\ UNCHANGED <<now, files, report, seen, disturbed>>

OpenFile(c) ==
  /\ pc[c] = "stamped"
  /\ Put(FileName(record[c]), Broken)
  /\ pc' = [pc EXCEPT ![c] = "writing"]
  /\ UNCHANGED <<now, record, report, seen>>

\* Over the text of another command that opened the file too, a tail may stay.
WriteFile(c) ==
  /\ pc[c] = "writing"
  /\ LET name == FileName(record[c])
     IN  \E text \in {record[c]} \cup (IF files[name].text = Broken THEN {} ELSE {Broken}) :
           Put(name, text)
  /\ pc' = [pc EXCEPT ![c] = "done"]
  /\ UNCHANGED <<now, record, report, seen>>

Crash(c) ==
  /\ pc[c] \in {"running", "stamped", "writing"}
  /\ pc' = [pc EXCEPT ![c] = "crashed"]
  /\ UNCHANGED <<now, files, record, report, seen, disturbed>>

\* The operator copies the directory: every file gets the time of the copy.
Restamp ==
  /\ files' = [n \in DOMAIN files |-> [files[n] EXCEPT !.mtime = now]]
  /\ disturbed' = DOMAIN files
  /\ UNCHANGED <<now, pc, record, report, seen>>

-------------------------------------------------------------------------------
(* report aggregate, report all, report html.                              *)

StartReport(kind) ==
  /\ report.todo = {} /\ report.held = None
  /\ report' = [kind |-> kind, todo |-> DOMAIN files, held |-> None, rows |-> {}]
  /\ seen' = files /\ disturbed' = {}
  /\ UNCHANGED <<now, files, pc, record>>

\* The row replaces the one of its variant if that is among the older ones.
Keep(row, older) ==
  LET same == {x \in report.rows : x.record.variant = row.record.variant}
  IN  IF same \subseteq older THEN (report.rows \ same) \cup {row} ELSE report.rows

\* aggregate_runs: a row for every record that can be read.
ReadForCsv(name) ==
  LET text == files[name].text
  IN  IF text = Broken THEN report.rows ELSE report.rows \cup {[record |-> text, mtime |-> 0]}

ReadForMarkdown_First(name) ==
  LET text == files[name].text
  IN  IF text = Broken THEN report.rows ELSE Keep([record |-> text, mtime |-> 0], {})

\* collect_latest_per_variant: the greatest timestamp.
ReadForMarkdown(name) ==
  LET text == files[name].text
  IN  IF text = Broken THEN report.rows
      ELSE Keep([record |-> text, mtime |-> 0],
                {x \in report.rows : x.record.timestamp < text.timestamp})

Read(name) ==
  /\ report.held = None /\ name \in report.todo
  /\ report' = [report EXCEPT
       !.todo = @ \ {name},
       !.held = IF report.kind = "html" /\ files[name].text # Broken
                THEN [kind |-> "held", name |-> name, record |-> files[name].text] ELSE None,
       !.rows = CASE report.kind = "csv" -> ReadForCsv(name)
                  [] report.kind = "markdown" -> ReadForMarkdown(name)
                  [] OTHER -> @]
  /\ UNCHANGED <<now, files, pc, record, seen, disturbed>>

\* Neither catches the UnicodeDecodeError of a text that ends within a character.
Abort(name) ==
  /\ report.kind \in {"csv", "markdown"} /\ name \in report.todo
  /\ files[name].text = Broken
  /\ report' = [report EXCEPT !.kind = "aborted", !.todo = {}]
  /\ UNCHANGED <<now, files, pc, record, seen, disturbed>>

\* _load_records of the dashboard: the text was read, the time is asked for now;
\* the greatest time stays.
Stat ==
  /\ report.held # None
  /\ report' = [report EXCEPT !.held = None,
       !.rows = Keep([record |-> report.held.record, mtime |-> files[report.held.name].mtime],
                     {x \in report.rows : x.mtime < files[report.held.name].mtime})]
  /\ UNCHANGED <<now, files, pc, record, seen, disturbed>>

Next ==
  \/ Tick
  \/ \E c \in Commands : Assemble(c) \/ OpenFile(c) \/ WriteFile(c) \/ Crash(c)
  \/ Restamp
  \/ \E kind \in {"csv", "markdown", "html"} : StartReport(kind)
  \/ \E name \in report.todo : Read(name) \/ Abort(name)
  \/ Stat

Spec == Init /\ [][Next]_vars

-------------------------------------------------------------------------------
(* Properties.                                                             *)

Complete == report.kind \notin {"none", "aborted"} /\ report.todo = {} /\ report.held = None
Settled == {n \in DOMAIN seen : seen[n].text # Broken /\ n \notin disturbed}

\* What the report shows for the file n it found.
Counted(n) ==
  \E row \in report.rows :
    /\ row.record.variant = seen[n].text.variant
    /\ CASE report.kind = "csv" -> row.record = seen[n].text
         [] report.kind = "markdown" -> row.record.timestamp >= seen[n].text.timestamp
         [] OTHER -> row.mtime >= seen[n].mtime

\* Whatever is written, left broken or crashed meanwhile, a finished report
\* leaves out no record that was whole when the report began and that nobody
\* touched: the CSV has its row, the markdown report shows that run of the
\* variant or one that is not older, the dashboard one whose file is not older.
SettledRecordsCount == Complete => \A n \in Settled : Counted(n)

\* Another run of the same variant, stamped in the same second, opened its file.
Shared(c) ==
  \E d \in Commands \ {c} :
    /\ record[d] # None /\ pc[d] \notin {"running", "stamped"}
    /\ record[d].variant = record[c].variant
    /\ record[d].timestamp \div TicksPerSecond = record[c].timestamp \div TicksPerSecond

\* The record of a finished run stays readable, unless another run of the same
\* variant was stamped in the same second and opened its file.
FinishedRunIsOnDisk ==
  \A c \in Commands : pc[c] = "done" =>
    \/ \E n \in DOMAIN files : files[n].text = record[c]
    \/ Shared(c)

-------------------------------------------------------------------------------
(* The inductive invariant behind both.                                    *)

Records == [kind : {"record"}, variant : Variants, timestamp : Nat, run : Commands]
Texts == Records \cup {Broken}
Directory(f) == f \in [DOMAIN f -> [text : Texts, mtime : Nat]]

\* What is in every variable; a held text is the one of a file that is there.
TypeOK ==
  /\ now \in Nat
  /\ Directory(files) /\ Directory(seen)
  /\ DOMAIN seen \subseteq DOMAIN files
  /\ pc \in [Commands -> {"running", "stamped", "writing", "done", "crashed"}]
  /\ record \in [Commands -> Records \cup {None}]
  /\ report.kind \in {"none", "csv", "markdown", "html", "aborted"}
  /\ report = [kind |-> report.kind, todo |-> report.todo, held |-> report.held, rows |-> report.rows]
  /\ report.todo \subseteq DOMAIN files
  /\ report.held # None =>
       report.kind = "html" /\ report.held.name \in DOMAIN files /\ report.held.record \in Records
  /\ \A row \in report.rows : row.record \in Records /\ row.mtime \in Nat

\* A command is alone with its file or shares the name.
Holds(c, text) == FileName(record[c]) \in DOMAIN files /\ files[FileName(record[c])].text = text
FilesOfCommands ==
  \A c \in Commands :
    /\ pc[c] = "running" => record[c] = None
    /\ pc[c] \in {"stamped", "writing", "done"} => record[c] \in Records
    /\ pc[c] = "writing" => FileName(record[c]) \in DOMAIN files /\ (Holds(c, Broken) \/ Shared(c))
    /\ pc[c] = "done" => Holds(c, record[c]) \/ Shared(c)

\* The files a report has passed are in its rows, or in its hand.
PassedFilesCount ==
  /\ report.kind = "none" => Settled = {}
  /\ report.kind = "aborted" => report.todo = {}
  /\ \A n \in Settled :
       /\ files[n] = seen[n]
       /\ report.kind # "aborted" /\ n \notin report.todo =>
            \/ report.held # None /\ report.held.name = n /\ report.held.record = seen[n].text
            \/ Counted(n)

IInv == TypeOK /\ FilesOfCommands /\ PassedFilesCount

===============================================================================

------------------------ MODULE GeneratedDirectoryProofs ------------------------
(* A manifest stays true of its directory until a command with other arguments *)
(* is started, for all arguments and any number of commands and crashes.       *)
EXTENDS GeneratedDirectory, TLAPS

\* A running command is of the files it has passed and of the one it has open;
\* none was started beside it since it began the manifest.
Progress ==
  command # Nothing =>
    /\ command \in started
    /\ \A i \in 1..Len(Order) : i < at =>
         hashes[Order[i]] = command /\ file[Order[i]] # Nothing /\ file[Order[i]].of = command
    /\ open /\ at <= Len(Order) => file[Order[at]] # Nothing /\ file[Order[at]].of = command
    /\ open /\ at > Len(Order) => manifest = Nothing /\ started = {command}

\* A manifest is of one command, and so are all files when no other one was
\* started since.
ManifestOfOne ==
  manifest # Nothing =>
    \E a \in started :
      /\ \A f \in Files : manifest[f] = a
      /\ started = {a} => \A f \in Files : file[f] # Nothing /\ file[f].of = a

IInv == TypeOK /\ Progress /\ ManifestOfOne

-------------------------------------------------------------------------------
\* Every file has one place in the order.
LEMMA OrderFacts ==
  /\ Len(Order) = 9
  /\ \A i, j \in 1..9 : Order[i] = Order[j] => i = j
  /\ \A i \in 1..9 : Order[i] \in Files
  /\ \A f \in Files : \E i \in 1..9 : f = Order[i]
<1>1. Len(Order) = 9
  BY DEF Order
<1>2. \A i, j \in 1..9 : Order[i] = Order[j] => i = j
  BY DEF Order
<1> QED BY <1>1, <1>2 DEF Files

LEMMA InitIInv == Init => IInv
<1> SUFFICES ASSUME Init PROVE IInv
  OBVIOUS
<1>1. 1 \in 1..(Len(Order) + 1) /\ 0 \in 0..MaxCrashes
  BY OrderFacts, DirectoryAssumption
<1>2. TypeOK
  BY <1>1 DEF Init, TypeOK, None
<1> QED BY <1>2 DEF Init, IInv, Progress, ManifestOfOne

\* A command starts with the first file; the one running before is over.
LEMMA StartStep == IInv /\ Start => IInv'
<1> SUFFICES ASSUME IInv, Start PROVE IInv'
  OBVIOUS
<1> USE DEF IInv, Start, disk
<1>1. command' \in Args /\ command' # Nothing /\ at' = 1 /\ ~open'
  BY DirectoryAssumption
<1>2. TypeOK'
  <2>1. at' \in 1..(Len(Order) + 1) /\ started' \subseteq Args
    BY <1>1, OrderFacts DEF TypeOK
  <2>3. open' \in BOOLEAN
    OBVIOUS
  <2>2. hashes' \in [Files -> Args \cup {Nothing}]
    BY DEF None
  <2> QED BY <1>1, <2>1, <2>2, <2>3 DEF TypeOK
<1>3. Progress'
  BY <1>1, OrderFacts DEF Progress
<1>4. ManifestOfOne'
  BY DEF ManifestOfOne
<1> QED BY <1>2, <1>3, <1>4

\* A file is emptied: it is of the running command, which is the manifest's when
\* no other one was started.
LEMMA OpenFileStep == IInv /\ OpenFile => IInv'
<1> SUFFICES ASSUME IInv, OpenFile PROVE IInv'
  OBVIOUS
<1> USE DEF IInv, OpenFile
<1>1. /\ command \in Args /\ command # Nothing /\ at \in 1..9 /\ ~open /\ open' /\ open' \in BOOLEAN
      /\ UNCHANGED <<manifest, command, at, hashes, crashes, started>>
      /\ command \in started
  BY OrderFacts DEF TypeOK, Progress
<1> DEFINE new == [of |-> command, whole |-> FALSE]
<1>2. new \in Contents /\ new # Nothing /\ new.of = command
  <2>1. new \in Contents /\ new.of = command
    BY <1>1 DEF Contents
  <2> QED BY <2>1, DirectoryAssumption
<1>3. file' = [file EXCEPT ![Order[at]] = new]
  OBVIOUS
<1> HIDE DEF new
<1>4. file' \in [Files -> Contents \cup {Nothing}] /\ file'[Order[at]] = new
  BY <1>1, <1>2, <1>3, OrderFacts DEF TypeOK
<1>5. \A f \in Files : file'[f] = new \/ file'[f] = file[f]
  BY <1>3 DEF TypeOK
<1>6. \A i \in 1..9 : i < at => file'[Order[i]] = file[Order[i]]
  BY <1>1, <1>3, OrderFacts DEF TypeOK
<1>7. TypeOK'
  BY <1>1, <1>4 DEF TypeOK
<1>8. Progress'
  <2>1. ASSUME NEW i \in 1..9, i < at
        PROVE  hashes'[Order[i]] = command /\ file'[Order[i]] # Nothing /\ file'[Order[i]].of = command
    BY <1>1, <1>6, <2>1, OrderFacts DEF Progress
  <2>2. at' <= Len(Order) /\ file'[Order[at']] # Nothing /\ file'[Order[at']].of = command
    BY <1>1, <1>2, <1>4, OrderFacts
  <2> QED BY <1>1, <2>1, <2>2, OrderFacts DEF Progress
<1>9. ManifestOfOne'
  <2> SUFFICES ASSUME manifest # Nothing PROVE ManifestOfOne'
    BY <1>1 DEF ManifestOfOne
  <2>1. PICK a \in started :
          /\ \A f \in Files : manifest[f] = a
          /\ started = {a} => \A f \in Files : file[f] # Nothing /\ file[f].of = a
    BY DEF ManifestOfOne
  <2>2. started = {a} => command = a
    BY <1>1
  <2>3. started = {a} => \A f \in Files : file'[f] # Nothing /\ file'[f].of = a
    BY <1>2, <1>5, <2>1, <2>2
  <2> QED BY <1>1, <2>1, <2>3 DEF ManifestOfOne
<1> QED BY <1>7, <1>8, <1>9

\* The open file gets its last row.
LEMMA CloseFileStep == IInv /\ CloseFile => IInv'
<1> SUFFICES ASSUME IInv, CloseFile PROVE IInv'
  OBVIOUS
<1> USE DEF IInv, CloseFile
<1>1. /\ command \in Args /\ command # Nothing /\ at \in 1..9 /\ at' = at + 1 /\ ~open' /\ open' \in BOOLEAN
      /\ UNCHANGED <<manifest, command, crashes, started>>
      /\ Order[at] \in Files /\ file[Order[at]] \in Contents /\ file[Order[at]].of = command
      /\ hashes' = [hashes EXCEPT ![Order[at]] = command]
  <2>1. command \in Args /\ command # Nothing /\ at \in 1..9 /\ open
    BY OrderFacts DEF TypeOK
  <2>2. ~open' /\ open' \in BOOLEAN
    OBVIOUS
  <2>3. Order[at] \in Files /\ file[Order[at]] # Nothing /\ file[Order[at]].of = command
    BY <2>1, OrderFacts DEF Progress
  <2>4. file[Order[at]] \in Contents
    BY <2>3 DEF TypeOK
  <2> QED BY <2>1, <2>2, <2>3, <2>4
<1> DEFINE new == [file[Order[at]] EXCEPT !.whole = TRUE]
<1>2. new \in Contents /\ new # Nothing /\ new.of = command
  <2>1. new \in Contents /\ new.of = command
    BY <1>1 DEF Contents
  <2> QED BY <2>1, DirectoryAssumption
<1>3. file' = [file EXCEPT ![Order[at]] = new]
  BY <1>1 DEF TypeOK
<1> HIDE DEF new
<1>4. file' \in [Files -> Contents \cup {Nothing}] /\ file'[Order[at]] = new
  BY <1>1, <1>2, <1>3 DEF TypeOK
<1>5. \A f \in Files : file'[f] = new \/ file'[f] = file[f]
  BY <1>3 DEF TypeOK
<1>6. \A i \in 1..9 : i < at => file'[Order[i]] = file[Order[i]] /\ hashes'[Order[i]] = hashes[Order[i]]
  BY <1>1, <1>3, OrderFacts DEF TypeOK
<1>7. hashes' \in [Files -> Args \cup {Nothing}] /\ hashes'[Order[at]] = command
  BY <1>1 DEF TypeOK
<1>8. TypeOK'
  <2>1. at' \in 1..(Len(Order) + 1)
    BY <1>1, OrderFacts
  <2> QED BY <1>1, <1>4, <1>7, <2>1 DEF TypeOK
<1>9. Progress'
  <2>1. command \in started
    BY <1>1 DEF Progress
  <2>2. ASSUME NEW i \in 1..9, i < at'
        PROVE  hashes'[Order[i]] = command /\ file'[Order[i]] # Nothing /\ file'[Order[i]].of = command
    <3>1. CASE i = at
      BY <1>2, <1>4, <1>7, <3>1
    <3>2. CASE i < at
      BY <1>1, <1>6, <3>2, OrderFacts DEF Progress
    <3> QED BY <1>1, <2>2, <3>1, <3>2
  <2> QED BY <1>1, <2>1, <2>2, OrderFacts DEF Progress
<1>10. ManifestOfOne'
  <2> SUFFICES ASSUME manifest # Nothing PROVE ManifestOfOne'
    BY <1>1 DEF ManifestOfOne
  <2>1. PICK a \in started :
          /\ \A f \in Files : manifest[f] = a
          /\ started = {a} => \A f \in Files : file[f] # Nothing /\ file[f].of = a
    BY DEF ManifestOfOne
  <2>2. started = {a} => command = a
    BY <1>1 DEF Progress
  <2>3. started = {a} => \A f \in Files : file'[f] # Nothing /\ file'[f].of = a
    BY <1>2, <1>5, <2>1, <2>2
  <2> QED BY <1>1, <2>1, <2>3 DEF ManifestOfOne
<1> QED BY <1>8, <1>9, <1>10

\* The manifest is emptied: the history of commands begins anew.
LEMMA OpenManifestStep == IInv /\ OpenManifest => IInv'
<1> SUFFICES ASSUME IInv, OpenManifest PROVE IInv'
  OBVIOUS
<1> USE DEF IInv, OpenManifest
<1>1. TypeOK'
  BY DEF TypeOK
<1>2. Progress'
  BY OrderFacts DEF Progress, TypeOK
<1>3. ManifestOfOne'
  BY DEF ManifestOfOne
<1> QED BY <1>1, <1>2, <1>3

\* The manifest is written: all files are of the command that ends.
LEMMA CloseManifestStep == IInv /\ CloseManifest => IInv'
<1> SUFFICES ASSUME IInv, CloseManifest PROVE IInv'
  OBVIOUS
<1> USE DEF IInv, CloseManifest
<1>1. /\ command \in Args /\ started = {command} /\ manifest' = hashes /\ command' = Nothing
      /\ UNCHANGED <<file, at, hashes, crashes, started>> /\ open' = FALSE
  BY DEF TypeOK, Progress
<1>2. \A f \in Files : hashes[f] = command /\ file[f] # Nothing /\ file[f].of = command
  BY OrderFacts DEF Progress, TypeOK
<1>3. hashes \in [Files -> Args]
  BY <1>1, <1>2 DEF TypeOK
<1>4. TypeOK'
  BY <1>1, <1>3 DEF TypeOK
<1>5. Progress' /\ ManifestOfOne'
  BY <1>1, <1>2 DEF Progress, ManifestOfOne
<1> QED BY <1>4, <1>5

LEMMA CrashStep == IInv /\ Crash => IInv'
<1> SUFFICES ASSUME IInv, Crash PROVE IInv'
  OBVIOUS
<1> USE DEF IInv, Crash, disk
<1>1. TypeOK'
  <2>1. crashes' \in 0..MaxCrashes
    BY DirectoryAssumption DEF TypeOK
  <2>2. open' \in BOOLEAN /\ command' \in Args \cup {Nothing}
    OBVIOUS
  <2> QED BY <2>1, <2>2 DEF TypeOK
<1>2. Progress' /\ ManifestOfOne'
  BY DEF Progress, ManifestOfOne
<1> QED BY <1>1, <1>2

\* The inductive invariant of generate() and of its interrupted runs.
THEOREM DirectoryInvariance == Spec => []IInv
<1>1. ASSUME IInv, [Next]_vars PROVE IInv'
  <2>1. CASE Next
    BY <1>1, <2>1, StartStep, OpenFileStep, CloseFileStep, OpenManifestStep,
       CloseManifestStep, CrashStep DEF Next, Write
  <2>2. CASE UNCHANGED vars
    BY <1>1, <2>2 DEF vars, disk, IInv, TypeOK, Progress, ManifestOfOne
  <2> QED BY <1>1, <2>1, <2>2
<1> QED BY <1>1, InitIInv, PTL DEF Spec

\* Files, manifest and command keep their types.
THEOREM DirectoryTypeCorrect == Spec => []TypeOK
<1>1. IInv => TypeOK
  BY DEF IInv
<1> QED BY <1>1, DirectoryInvariance, PTL

\* A manifest that can be read is true of the files beside it until a command
\* with other arguments is started, however often the same one is interrupted.
THEOREM ManifestHolds == Spec => []ManifestHoldsUntilOtherArguments
<1>1. IInv => ManifestHoldsUntilOtherArguments
  BY DEF IInv, TypeOK, ManifestOfOne, ManifestHoldsUntilOtherArguments
<1> QED BY <1>1, DirectoryInvariance, PTL
-------------------------------------------------------------------------------
(* Regeneration: from the last crash on, the running command has only Write *)
(* before it, and each Write brings it nearer to its end.                   *)

\* The files a running command has closed are whole and its own.
Written ==
  command # Nothing =>
    \A i \in 1..Len(Order) : i < at => file[Order[i]] = [of |-> command, whole |-> TRUE]

\* CloseFile and OpenFile leave the files closed before alone.
LEMMA WrittenStep == IInv /\ Written /\ [Next]_vars => Written'
<1> SUFFICES ASSUME IInv, Written, [Next]_vars PROVE Written'
  OBVIOUS
<1> USE OrderFacts DEF IInv
<1>1. CASE Start \/ Crash \/ CloseManifest
  BY <1>1, DirectoryAssumption DEF Start, Crash, CloseManifest, Written
<1>2. CASE OpenFile
  <2>1. /\ command # Nothing /\ command' = command /\ at \in 1..9 /\ at' = at
        /\ \A i \in 1..9 : i < at => file'[Order[i]] = file[Order[i]]
    BY <1>2 DEF OpenFile, TypeOK
  <2> QED BY <2>1 DEF Written
<1>3. CASE CloseFile
  <2>1. /\ command # Nothing /\ command' = command /\ at \in 1..9 /\ at' = at + 1
        /\ file[Order[at]] \in Contents /\ file[Order[at]].of = command
        /\ file' = [file EXCEPT ![Order[at]].whole = TRUE]
    BY <1>3 DEF CloseFile, TypeOK, Progress
  <2> DEFINE new == [file[Order[at]] EXCEPT !.whole = TRUE]
  <2>2. new = [of |-> command, whole |-> TRUE]
    <3> DEFINE old == file[Order[at]]
    <3>1. old \in Contents /\ old.of = command
      BY <2>1
    <3> HIDE DEF old
    <3>2. [old EXCEPT !.whole = TRUE] = [of |-> command, whole |-> TRUE]
      <4> DEFINE new2 == [old EXCEPT !.whole = TRUE]
      <4>1. new2 \in Contents /\ new2.of = command /\ new2.whole = TRUE
        BY <3>1 DEF Contents
      <4> HIDE DEF new2
      <4>2. new2 = [of |-> command, whole |-> TRUE]
        BY <4>1 DEF Contents
      <4> QED BY <4>2 DEF new2
    <3> QED BY <3>2 DEF old
  <2>3. file' = [file EXCEPT ![Order[at]] = new]
    BY <2>1 DEF TypeOK
  <2> HIDE DEF new
  <2>4. file'[Order[at]] = [of |-> command, whole |-> TRUE]
    BY <2>1, <2>2, <2>3 DEF TypeOK
  <2>5. ASSUME NEW i \in 1..9, i < at PROVE file'[Order[i]] = [of |-> command, whole |-> TRUE]
    <3>1. file'[Order[i]] = file[Order[i]]
      BY <2>1, <2>3, <2>5 DEF TypeOK
    <3> QED BY <2>1, <2>5, <3>1 DEF Written
  <2>6. \A i \in 1..9 : i < at' => i < at \/ i = at
    BY <2>1
  <2> QED BY <2>1, <2>4, <2>5, <2>6 DEF Written
<1>4. CASE OpenManifest \/ UNCHANGED vars
  BY <1>4 DEF OpenManifest, vars, disk, Written
<1> QED BY <1>1, <1>2, <1>3, <1>4 DEF Next, Write

LEMMA WrittenAlways == Spec => []Written
<1>1. Init => Written
  BY DEF Init, Written
<1> QED BY <1>1, DirectoryInvariance, WrittenStep, PTL DEF Spec

\* The writes a running command has before it.
Left == 2 * (Len(Order) + 1 - at) + (IF open THEN 1 ELSE 2)

\* A command with arguments a is running, no crash will come, and at most n
\* writes are left.
Near(a, n) ==
  IInv /\ Written /\ command = a /\ crashes = MaxCrashes /\ Left <= n

\* Each write is one less, and the last one leaves the directory healed.
LEMMA WritesAdvance ==
  ASSUME NEW a \in Args, NEW n \in Nat, Near(a, n + 1), Write
  PROVE  Near(a, n)' \/ Healed(a)'
<1> USE OrderFacts DEF Near, IInv
<1>1. command # Nothing /\ command \in Args /\ at \in 1..10 /\ open \in BOOLEAN
  BY DirectoryAssumption DEF TypeOK
<1>2. IInv' /\ Written'
  BY WrittenStep, OpenFileStep, CloseFileStep, OpenManifestStep, CloseManifestStep DEF Next, Write
<1>3. CASE OpenFile
  BY <1>1, <1>2, <1>3 DEF OpenFile, Left
<1>4. CASE CloseFile
  BY <1>1, <1>2, <1>4 DEF CloseFile, Left
<1>5. CASE OpenManifest
  BY <1>1, <1>2, <1>5 DEF OpenManifest, Left
<1>6. CASE CloseManifest
  <2>1. command' = Nothing /\ file' = file /\ manifest' = hashes /\ at = 10
    BY <1>1, <1>6 DEF CloseManifest
  <2>2. \A f \in Files : file[f] = [of |-> a, whole |-> TRUE] /\ hashes[f] = a
    BY <1>1, <2>1 DEF Written, Progress
  <2> QED BY <2>1, <2>2 DEF Healed, Whole, TypeOK
<1> QED BY <1>3, <1>4, <1>5, <1>6 DEF Write

\* Nothing else happens to a running command when no crash will come.
LEMMA NothingElse ==
  ASSUME NEW a \in Args, NEW n \in Nat, Near(a, n + 1), [Next]_vars
  PROVE  Near(a, n + 1)' \/ Healed(a)'
<1>1. CASE Write
  <2>1. Near(a, n)' \/ Healed(a)'
    BY <1>1, WritesAdvance
  <2>2. Left' \in Nat
    <3>1. IInv'
      BY <1>1, OpenFileStep, CloseFileStep, OpenManifestStep, CloseManifestStep DEF Near, Write
    <3> QED BY <3>1, OrderFacts DEF IInv, TypeOK, Left
  <2> QED BY <2>1, <2>2 DEF Near
<1>2. CASE UNCHANGED vars
  BY <1>2 DEF vars, disk, Near, IInv, TypeOK, Progress, ManifestOfOne, Written, Left
<1>3. ~Start /\ ~Crash
  BY DirectoryAssumption DEF Near, Start, Crash
<1> QED BY <1>1, <1>2, <1>3 DEF Next

\* A running command goes on by itself: Write is possible as long as one is running.
GoesOn == []<>(command = Nothing) \/ []<><<Write>>_vars

\* A command with at most n writes left heals the directory.
Heals(a, n) == Near(a, n) ~> Healed(a)

LEMMA OneWriteMore ==
  ASSUME NEW a \in Args, NEW n \in Nat
  PROVE  Spec /\ GoesOn /\ Heals(a, n) => Heals(a, n + 1)
<1>1. Near(a, n + 1) /\ [Next]_vars => Near(a, n + 1)' \/ Healed(a)'
  BY NothingElse
<1>2. Near(a, n + 1) /\ <<Write>>_vars => Near(a, n)' \/ Healed(a)'
  BY WritesAdvance
<1>3. Near(a, n + 1) => ~(command = Nothing)
  BY DirectoryAssumption DEF Near
<1> QED BY <1>1, <1>2, <1>3, PTL DEF Spec, GoesOn, Heals

\* When no crash will come any more, a running command makes its at most twenty
\* writes and leaves every file whole and of its arguments, and a manifest of them,
\* whatever the commands before it left behind.
THEOREM RegenerationHealsDirectory == Spec /\ GoesOn => RegenerationHeals
<1>1. ASSUME NEW a \in Args PROVE Spec /\ GoesOn => Completes(a)
  <2>1. Spec /\ GoesOn => Heals(a, 0)
    <3>1. ~Near(a, 0)
      BY OrderFacts DEF Near, IInv, TypeOK, Left
    <3> QED BY <3>1, PTL DEF Heals
  <2>2. Spec /\ GoesOn => Heals(a, 20)
    <3> SUFFICES ASSUME Spec, GoesOn PROVE Heals(a, 20)
      OBVIOUS
    <3>1. \A n \in Nat : Heals(a, n) => Heals(a, n + 1)
      BY OneWriteMore
    <3>2. Heals(a, 0)
      BY <2>1
    <3> QED BY <3>1, <3>2
  <2>3. command = a /\ crashes = MaxCrashes /\ IInv /\ Written => Near(a, 20)
    <3>1. IInv => Left <= 20
      BY OrderFacts DEF IInv, TypeOK, Left
    <3> QED BY <3>1 DEF Near
  <2> QED BY <2>2, <2>3, DirectoryInvariance, WrittenAlways, PTL DEF Heals, Completes
<1> QED BY <1>1 DEF RegenerationHeals
================================================================================

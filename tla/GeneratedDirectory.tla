--------------------------- MODULE GeneratedDirectory --------------------------
(***************************************************************************)
(* The end of generate(): the rows of a scale and a seed, which determine  *)
(* them, are written over the files of the output directory one by one,    *)
(* and then the manifest with the digests of the rows.  The operator runs  *)
(* the command again with any arguments, and it may die between two steps. *)
(***************************************************************************)
EXTENDS Naturals, Sequences

CONSTANTS
  Args,       \* the pairs of a scale and a seed the command is given
  Nothing,    \* no file, no command
  MaxCrashes  \* bound: crashes over the whole history

\* The files in the order of `written`.
Order == <<"regions", "suppliers", "categories", "products", "customers", "orders",
           "employees", "parts", "bom_edges">>
Files == {Order[i] : i \in 1..Len(Order)}

\* What a file holds: whose rows, and whether all of them.
Contents == [of : Args, whole : BOOLEAN]

ASSUME DirectoryAssumption ==
  Nothing \notin Args \cup Contents \cup [Files -> Args] /\ MaxCrashes \in Nat

VARIABLES
  file,      \* the content of each file, or Nothing
  manifest,  \* the digests the manifest holds; Nothing when it is no JSON
  command,   \* the arguments of the running command, or Nothing
  at,        \* the position in Order it has reached
  open,      \* it has a file open
  hashes,    \* the digests it has computed
  crashes,   \* crashes so far
  started    \* history: arguments of the commands since the manifest was begun

disk == <<file, manifest>>
vars == <<disk, command, at, open, hashes, crashes, started>>

\* The digest of a file is that of the arguments its rows follow from.
None == [f \in Files |-> Nothing]

Init ==
  /\ file = None /\ manifest = Nothing
  /\ command = Nothing /\ at = 1 /\ open = FALSE /\ hashes = None
  /\ crashes = 0 /\ started = {}

Start_AtTheOldPosition ==
  /\ command = Nothing /\ command' \in Args
  /\ at' = at /\ open' = FALSE /\ hashes' = None
  /\ started' = started \cup {command'}
  /\ UNCHANGED <<disk, crashes>>

Start_Resumes ==
  /\ command = Nothing /\ command' \in Args
  /\ open' = FALSE
  /\ IF at > Len(Order) THEN at' = 1 /\ hashes' = None ELSE UNCHANGED <<at, hashes>>
  /\ started' = started \cup {command'}
  /\ UNCHANGED <<disk, crashes>>

\* The rows are generated in memory first.
Start ==
  /\ command = Nothing /\ command' \in Args
  /\ at' = 1 /\ open' = FALSE /\ hashes' = None
  /\ started' = started \cup {command'}
  /\ UNCHANGED <<disk, crashes>>

OpenFile_KeepsExisting ==
  /\ command # Nothing /\ at <= Len(Order) /\ ~open
  /\ open' = TRUE
  /\ file' = [file EXCEPT ![Order[at]] =
                IF @ # Nothing THEN @ ELSE [of |-> command, whole |-> FALSE]]
  /\ UNCHANGED <<manifest, command, at, hashes, crashes, started>>

\* path.open("wb") empties the file.
OpenFile ==
  /\ command # Nothing /\ at <= Len(Order) /\ ~open
  /\ open' = TRUE
  /\ file' = [file EXCEPT ![Order[at]] = [of |-> command, whole |-> FALSE]]
  /\ UNCHANGED <<manifest, command, at, hashes, crashes, started>>

CloseFile ==
  /\ command # Nothing /\ at <= Len(Order) /\ open
  /\ open' = FALSE
  /\ file' = [file EXCEPT ![Order[at]].whole = TRUE]
  /\ hashes' = [hashes EXCEPT ![Order[at]] = command]
  /\ at' = at + 1
  /\ UNCHANGED <<manifest, command, crashes, started>>

\* write_text empties the manifest, then fills it.
OpenManifest ==
  /\ command # Nothing /\ at > Len(Order) /\ ~open
  /\ open' = TRUE
  /\ manifest' = Nothing
  /\ started' = {command}
  /\ UNCHANGED <<file, command, at, hashes, crashes>>

CloseManifest ==
  /\ command # Nothing /\ at > Len(Order) /\ open
  /\ manifest' = hashes
  /\ command' = Nothing /\ open' = FALSE
  /\ UNCHANGED <<file, at, hashes, crashes, started>>

Crash ==
  /\ command # Nothing /\ crashes < MaxCrashes
  /\ crashes' = crashes + 1
  /\ command' = Nothing /\ open' = FALSE
  /\ UNCHANGED <<disk, at, hashes, started>>

Write == OpenFile \/ CloseFile \/ OpenManifest \/ CloseManifest
Next == Start \/ Write \/ Crash

Spec == Init /\ [][Next]_vars

\* A running command goes on by itself; the operator need not start one.
FairSpec == Spec /\ WF_vars(Write)

-------------------------------------------------------------------------------
TypeOK ==
  /\ file \in [Files -> Contents \cup {Nothing}]
  /\ manifest \in [Files -> Args] \cup {Nothing}
  /\ command \in Args \cup {Nothing}
  /\ at \in 1..(Len(Order) + 1) /\ open \in BOOLEAN
  /\ hashes \in [Files -> Args \cup {Nothing}]
  /\ crashes \in 0..MaxCrashes
  /\ started \subseteq Args

Whole(a) == file = [f \in Files |-> [of |-> a, whole |-> TRUE]]

\* A manifest that can be read gives the digest of every file the way it is,
\* unless a command with other arguments was started since: the same seed and
\* scale again, interrupted or not, leave each file either as the manifest
\* has it or cut off.
ManifestHoldsUntilOtherArguments ==
  \A a \in Args : manifest # Nothing /\ started = {a} =>
    \A f \in Files : manifest[f] = a /\ file[f] # Nothing /\ file[f].of = a

\* After the last crash, a command that is running completes the directory,
\* whatever the commands before it left there.
Healed(a) == command = Nothing /\ Whole(a) /\ manifest = [f \in Files |-> a]
Completes(a) == (command = a /\ crashes = MaxCrashes) ~> Healed(a)
RegenerationHeals == \A a \in Args : Completes(a)
================================================================================

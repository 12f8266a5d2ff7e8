----------------------------- MODULE MCRecordStore -----------------------------
(* Instances for model checking.                                           *)
EXTENDS RecordStore, TLC

CommandSymmetry == Permutations(Commands)
===============================================================================

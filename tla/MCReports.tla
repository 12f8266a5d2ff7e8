------------------------------- MODULE MCReports -------------------------------
(* Sweeps of several runs: a variant with a designed mismatch and one whose    *)
(* mismatch would be a surprise, with medians on either side of one another    *)
(* and a run that measured nothing.                                            *)
EXTENDS Reports

MCVariants == {<<"S08", "B-facet">>, <<"S08", "A-clean-prefix">>}
MCTimes == {<< <<>>, <<>> >>, << <<12>>, <<2>> >>, << <<2>>, <<100>> >>}

MCKeptRuns ==
  {[variant |-> variant, mongo |-> times[1], oracle |-> times[2],
    mongoErrors |-> 0, oracleErrors |-> 0, match |-> match] :
     variant \in MCVariants, times \in MCTimes, match \in BOOLEAN}
  \cap Runs
================================================================================

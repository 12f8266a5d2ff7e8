-------------------------- MODULE MCGeneratedDirectory -------------------------
(* Two seeds at one scale and one at another, two crashes. *)
EXTENDS GeneratedDirectory
MCArgs == {<<"SF0.001", 1>>, <<"SF0.001", 2>>, <<"SF1", 1>>}
================================================================================

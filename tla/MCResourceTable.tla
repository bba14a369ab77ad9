-------------------------- MODULE MCResourceTable ---------------------------
(* ResourceTable for TLC: functions are interchangeable. *)
EXTENDS ResourceTable, TLC

Symmetry == Permutations(Functions)
=============================================================================

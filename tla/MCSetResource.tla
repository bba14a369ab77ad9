--------------------------- MODULE MCSetResource ----------------------------
(* SetResource for TLC: functions are interchangeable, and so are commands. *)
EXTENDS SetResource, TLC

Symmetry == Permutations(Functions) \cup Permutations(Cmds)
=============================================================================

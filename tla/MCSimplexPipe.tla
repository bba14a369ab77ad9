---------------------------- MODULE MCSimplexPipe ----------------------------
(***************************************************************************)
(* Symmetry for the run of SimplexPipe: messages are only copied.          *)
(***************************************************************************)
EXTENDS SimplexPipe, TLC

Symmetry == Permutations(Msgs)
=============================================================================

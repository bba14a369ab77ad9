---------------------------- MODULE MCCmdScheduler ----------------------------
(***************************************************************************)
(* Model values and symmetry for the runs of CmdScheduler.                 *)
(***************************************************************************)
EXTENDS CmdScheduler, TLC

(* The free list of the engines is a set here, so engines are alike *)
EngineSymmetry == Permutations(Engines)
=============================================================================

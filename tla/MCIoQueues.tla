----------------------------- MODULE MCIoQueues -----------------------------
(***************************************************************************)
(* Symmetry for the runs of IoQueues: no definition tells the members of   *)
(* these sets apart.                                                       *)
(***************************************************************************)
EXTENDS IoQueues, TLC

Symmetry == Permutations(Queues) \cup Permutations(Ios) \cup Permutations(Reqs)
              \cup Permutations(Pfns) \cup Permutations(Sqs)
=============================================================================

--------------------------- MODULE MCAdminControl ---------------------------
EXTENDS AdminControl, TLC

CONSTANTS c1, c2,
          MaxEvents  \* bound on what comes from outside

VARIABLE events

Symmetry == Permutations(Cmds)
MCInit == Init /\ events = 0
MCNext ==
    \/ (Host \/ Faults) /\ events < MaxEvents /\ events' = events + 1
    \/ (AdminCore \/ Cores) /\ UNCHANGED events
MCSpec == MCInit /\ [][MCNext]_<<vars, events>>
MCLiveSpec == MCSpec /\ Fairness

AdminUsers == Cmds \cup {"Cntrl", "Vflr"}
=============================================================================

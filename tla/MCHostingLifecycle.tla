------------------------ MODULE MCHostingLifecycle ------------------------
EXTENDS HostingLifecycle, TLC

ThreadSymmetry == Permutations(Threads)
OneTarget == [j \in Jobs |-> CHOOSE x \in Targets : TRUE]
=============================================================================

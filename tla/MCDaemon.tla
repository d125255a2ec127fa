------------------------------ MODULE MCDaemon ------------------------------
EXTENDS EditTracking, TLC
Symmetry == Permutations(Files) \cup Permutations(Projects)
=============================================================================

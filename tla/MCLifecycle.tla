----------------------------- MODULE MCLifecycle ----------------------------
EXTENDS Lifecycle, TLC
Symmetry == Permutations(Clients) \cup Permutations(Daemons)
=============================================================================

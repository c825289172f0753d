--------------------------- MODULE MCCommandQueue ---------------------------
EXTENDS CommandQueueInv, TLC
HostSymmetry == Permutations(Host)
=============================================================================

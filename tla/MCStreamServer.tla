--------------------------- MODULE MCStreamServer ---------------------------
EXTENDS StreamServer, TLC

Symmetry == Permutations(Conns) \cup Permutations(Fds) \cup Permutations(Callers)
=============================================================================

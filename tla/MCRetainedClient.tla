-------------------------- MODULE MCRetainedClient --------------------------
EXTENDS RetainedClient, TLC
CONSTANTS u1, u2, u3, e1
Symmetry == Permutations({u1, u2})
=============================================================================

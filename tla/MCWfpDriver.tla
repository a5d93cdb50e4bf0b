---------------------------- MODULE MCWfpDriver ----------------------------
EXTENDS WfpDriver, TLC

CONSTANTS a, c1, c2, t1

MCSymmetry == Permutations(Clients)
=============================================================================

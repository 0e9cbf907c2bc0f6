-------------------------- MODULE MCTrafficRecorder --------------------------
EXTENDS TrafficRecorder, TLC

CONSTANTS r1, r2, r3

MCRequests == {r1, r2, r3}
MCSymmetry == Permutations(MCRequests)
=============================================================================

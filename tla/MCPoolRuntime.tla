---------------------------- MODULE MCPoolRuntime ----------------------------
EXTENDS PoolRuntime, TLC

CONSTANTS r1, r2, s1

MCRequests == {r1, r2}
Off == [rps |-> 0, inFlight |-> 0]
\* The policy of the assignment integration test: hot from two requests in flight on.
MCPolicies == {[normal |-> Off, hot |-> [rps |-> 0, inFlight |-> 2], super |-> Off]}
MCStatuses == {[rps |-> 0, inFlight |-> n] : n \in 1..2}

MCSymmetry == Permutations(MCRequests)
=============================================================================

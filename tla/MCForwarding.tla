----------------------------- MODULE MCForwarding -----------------------------
EXTENDS Forwarding, TLC

CONSTANTS r1, r2, r3, shared, dedicated

MCRequests == {r1, r2, r3}
MCTwoRequests == {r1, r2}
MCPools == {shared, dedicated}

MCSymmetry == Permutations(MCRequests) \cup Permutations(MCPools)
MCTwoSymmetry == Permutations(MCTwoRequests) \cup Permutations(MCPools)
=============================================================================

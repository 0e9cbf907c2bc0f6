---------------------------- MODULE MCPolicyStore ----------------------------
EXTENDS PolicyStore, TLC

CONSTANTS r1, r2, s1

MCRequests == {r1, r2}
MCServices == {s1}

Off == [rps |-> 0, inFlight |-> 0]

\* One policy with two tiers to move between, and one whose only tier the first has not.
Busy == [normal |-> [rps |-> 1, inFlight |-> 0], hot |-> [rps |-> 2, inFlight |-> 0], super |-> Off]
Wide == [normal |-> Off, hot |-> Off, super |-> [rps |-> 0, inFlight |-> 1]]
MCPolicies == {Busy, Wide}

\* Below everything, at a threshold, above every threshold of one policy only, of both.
MCStatuses ==
    {[rps |-> 0, inFlight |-> 0], [rps |-> 1, inFlight |-> 0],
     [rps |-> 2, inFlight |-> 0], [rps |-> 2, inFlight |-> 1]}

MCSymmetry == Permutations(MCRequests)
=============================================================================

--------------------------- MODULE MCCoordinator ----------------------------
EXTENDS Coordinator

CONSTANTS r1, r2, r3, s1, normal, hot

\* Three requests: one to create a client, one to replace it or to return to the shared
\* one, and one to race with either.
MCRequests == {r1, r2, r3}
MCDedicatedTiers == {normal, hot}
=============================================================================

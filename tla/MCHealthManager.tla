--------------------------- MODULE MCHealthManager ---------------------------
EXTENDS HealthManager, TLC

CONSTANTS n1, n2, n3, k1, k2

MCNotifiers == {n1, n2, n3}

\* In seconds (normalize.go:12-18).
MCDefaults ==
    [enabled |-> TRUE, path |-> "absolute", interval |-> 5, timeout |-> 2, jitter |-> 2,
     maxBackoff |-> 300, failureThreshold |-> 2, successThreshold |-> 1]

\* Every combination of forms, and of values on either side of every bound.
MCPayloads ==
    {None} \cup
    [enabled : {Unset, TRUE, FALSE}, path : {"unset", "absolute", "relative"},
     interval : {Unset, Unparsable, -1, 0, 3, 301}, timeout : {Unset, Unparsable, -1, 0, 1},
     jitter : {Unset, Unparsable, -1, 0, 1}, maxBackoff : {Unset, Unparsable, 0, 3, 4},
     failureThreshold : {-1, 0, 1}, successThreshold : {-1, 0, 2}]

\* The opposite of the defaults: one failure and two successes, no offset, and a maximum that
\* is odd and met on the second failure.
Quick ==
    [enabled |-> Unset, path |-> "unset", interval |-> 3, timeout |-> Unset, jitter |-> 0,
     maxBackoff |-> 13, failureThreshold |-> 1, successThreshold |-> 2]

\* Both as registration stores them and the loop reads them.
OfPayload(p) == runtimeSettingsFrom(normalizeHealthSettings(p))
MCHealthSettings == {OfPayload(None), OfPayload(Quick)}

\* A service with two instances loses one and has the other checked by other settings, or the
\* other way round: between any two of three snapshots there is a target to replace, one that
\* comes or goes, or nothing to do.
MCWanted ==
    {[k \in Keys |-> OfPayload(None)],
     [k \in Keys |-> IF k = k1 THEN OfPayload(Quick) ELSE None]}

MCHash == [k \in Keys |-> 7]

MCSymmetry == Permutations(MCNotifiers)
=============================================================================

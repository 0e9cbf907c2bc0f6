---------------------------- MODULE MCHealthSync ----------------------------
EXTENDS HealthSync, TLC

CONSTANTS c1, c2, c3, s1, orders, all, a1, http, checked, closely, unchecked

MCCalls == {c1, c2, c3}
\* Two calls are enough to wait for each other, and to deliver in the wrong order.
MCTwoCalls == {c1, c2}

Reg(settings_) ==
    [kind |-> "register", service |-> s1, settings |-> settings_,
     endpoints |-> <<[route |-> orders, roles |-> all]>>,
     instance |-> [address |-> a1, scheme |-> http]]

MCRegistrations == {Reg(checked), Reg(closely), Reg(unchecked)}
MCDeregistrations == {[kind |-> "deregister", service |-> s1, address |-> a1]}

\* In seconds (normalize.go:12-18).
MCDefaults ==
    [enabled |-> TRUE, path |-> "absolute", interval |-> 5, timeout |-> 2, jitter |-> 2,
     maxBackoff |-> 300, failureThreshold |-> 2, successThreshold |-> 1]
MCClosely == [MCDefaults EXCEPT !.interval = 1, !.failureThreshold = 1]
MCHealthSettings == {MCDefaults, MCClosely}
MCHealthOf ==
    [s \in Settings |->
        IF s = checked THEN MCDefaults ELSE IF s = closely THEN MCClosely ELSE None]
MCHash == [k \in [service : Services, scheme : Schemes, address : Addresses] |-> 7]

MCSymmetry == Permutations(MCCalls)
=============================================================================

------------------------------ MODULE HealthSync ------------------------------
(***************************************************************************)
(* The configuration manager with the health manager as its listener, as   *)
(* main.go and the health tests connect them: a call that has committed a  *)
(* snapshot and released Manager.mu delivers that snapshot itself, so two  *)
(* calls may deliver in another order than they committed.                 *)
(***************************************************************************)
EXTENDS Integers, Sequences, FiniteSets

CONSTANTS
    Calls, Services, Routes, Wildcards, RoleSets, Addresses, Schemes, Settings,
    AcceptedSettings, Registrations, Deregistrations, Boot, None,
    Payloads, Defaults, Unset, Unparsable,
    HealthSettings, \* runtimeSettings of enabled checks
    HealthOf,       \* [Settings -> HealthSettings \cup {None}], None if the checks are switched off
    Hash, MaxChecks

VARIABLES
    \* of the configuration manager
    pc, op, lock, heap, candidate, active, answer,
    \* of the health manager
    deliveryPc, desired, toCancel, mu, generation, targets, settings, keyOf, maxIdleConns, records,
    loop, counters, timer, cancelled, results

configVars == <<pc, op, lock, heap, candidate, active, answer>>
healthVars == <<deliveryPc, desired, toCancel, mu, generation, targets, settings, keyOf,
                maxIdleConns, records, loop, counters, timer, cancelled, results>>
vars == <<configVars, healthVars>>

\* InstanceSettings.HealthKey.
Keys == [service : Services, scheme : Schemes, address : Addresses]

Config == INSTANCE ConfigManager
Health == INSTANCE HealthManager WITH
    Notifiers <- Calls,
    pc <- deliveryPc,
    Wanted <- [Keys -> HealthSettings \cup {None}]

Init == Config!Init /\ Health!Init

\* The instances of a snapshot whose service has its health checks switched on.
desiredTargets(snap) ==
    [k \in Keys |->
        IF /\ snap.services[k.service] # None
           /\ \E i \in DOMAIN snap.services[k.service].instances :
                snap.services[k.service].instances[i] = [address |-> k.address, scheme |-> k.scheme]
        THEN HealthOf[snap.services[k.service].settings]
        ELSE None]

\* notifySnapshotListeners: the call hands over the candidate it has committed.
Deliver(c) ==
    /\ pc[c] = "notifying"
    /\ Health!Notify(c, desiredTargets(heap[candidate[c]]))
    /\ UNCHANGED configVars

\* The listener has returned, and so does the call.
Return(c) ==
    /\ deliveryPc[c] = "done"
    /\ Config!Return(c)
    /\ UNCHANGED healthVars

Next ==
    \/ \E c \in Calls :
        \/ /\ \/ Config!Reject(c)
              \/ \E argument \in Registrations \cup Deregistrations : Config!Call(c, argument)
              \/ Config!Work(c)
           /\ UNCHANGED healthVars
        \/ Deliver(c)
        \/ Health!ReconcileStep(c) /\ UNCHANGED configVars
        \/ Return(c)
    \/ \E g \in Health!Generations : Health!LoopStep(g) /\ UNCHANGED configVars

Spec == Init /\ [][Next]_vars

\* A call whose goroutine can run goes on; its delivery and the loops are owed what
\* HealthManager states.
Fairness ==
    /\ \A c \in Calls :
        WF_vars((Config!Work(c) /\ UNCHANGED healthVars) \/ Deliver(c) \/ Return(c))
    /\ Health!Fairness

FairSpec == Spec /\ Fairness

-----------------------------------------------------------------------------

\* The settings each key is checked with.
CheckedWith == [k \in Keys |-> IF targets[k] = 0 THEN None ELSE settings[targets[k]]]

\* "Synchronizes the health check targets with changes of the active configuration snapshot"
\* (OnSnapshotCommitted, manager.go:56): when every call has returned, the instances that are
\* checked are those of the active snapshot, with its settings.
TargetsFollowSnapshot ==
    (\A c \in Calls : pc[c] \in {"idle", "done", "failed"})
        => CheckedWith = desiredTargets(heap[active])

\* No call waits for ever, neither for the other calls nor for the health manager: both locks
\* are released on every way out, and neither is held while the other is waited for (manager.go:
\* 71-83, 100-112; health/manager.go:76-119).
EveryCallReturns == \A c \in Calls : pc[c] = "waiting" ~> pc[c] \in {"done", "failed"}

\* The goroutine of an instance that is not checked any more ends, whichever call, on its way
\* back from a commit, has dropped it (health/manager.go:115-119).
DroppedLoopEnds == Health!DroppedLoopEnds
=============================================================================

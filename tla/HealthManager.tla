---------------------------- MODULE HealthManager ----------------------------
(***************************************************************************)
(* internal/health: Manager.reconcile (manager.go), the loop of a target   *)
(* (checker.go) and Store (store.go).                                      *)
(*                                                                         *)
(* A committed snapshot is delivered on the goroutine that committed it.   *)
(* Under Manager.mu targets that went or whose settings changed are        *)
(* dropped and new ones created, each with a goroutine of its own that     *)
(* checks the instance over and over; the dropped loops are cancelled only *)
(* after the mutex has been released, so they may still measure and store. *)
(* Routing reads the store without any lock.                               *)
(*                                                                         *)
(* A target is named after its generation.  What its timer is set to is    *)
(* kept, but a timer may fire at any time.  Of the health client only its  *)
(* capacity is kept.                                                       *)
(***************************************************************************)
EXTENDS HealthConfig, Sequences, FiniteSets, FiniteSetsExt

CONSTANTS
    Notifiers,        \* goroutines that deliver one committed snapshot each
    Keys,             \* health keys: service, scheme, host and port
    HealthSettings,   \* runtimeSettings of enabled checks
    Wanted,           \* the targets that snapshots want: settings for each key, or None
    Hash,             \* the hash of each key
    MaxChecks         \* bound on the checks of the loops that have not ended

\* None also stands for no target wanted, no record and no lock holder.

ASSUME NotifiersAndKeysFinite == IsFiniteSet(Notifiers) /\ IsFiniteSet(Keys)
ASSUME SettingsAreRunnable == \A s \in HealthSettings : s \in CompleteSettings /\ Runnable(s)
ASSUME WantedAreTargets == Wanted \subseteq [Keys -> HealthSettings \cup {None}]
ASSUME HashesAreNat == Hash \in [Keys -> Nat]
ASSUME MaxChecksIsNat == MaxChecks \in Nat
ASSUME NoneIsNoSetting == None \notin HealthSettings /\ None \notin Notifiers

\* A delivery creates at most one target per key.
Generations == 1..(Cardinality(Notifiers) * Cardinality(Keys))

Statuses == {"unknown", "healthy", "unhealthy"}
Counters == [status : Statuses, failures : Nat, successes : Nat]
Record == [status : Statuses, failures : Nat, successes : Nat, generation : Generations]

ASSUME NoneIsNoRecord == None \notin Record

VARIABLES
    pc,         \* where each delivery stands
    desired,    \* desiredTargets of the delivered snapshot
    toCancel,   \* loops a delivery has dropped and not cancelled yet
    mu,         \* the delivery that holds Manager.mu
    generation, \* Manager.generation
    targets,    \* the generation of each key's target, 0 for none
    settings,   \* the settings of each target, until its loop has ended
    keyOf,      \* its key
    maxIdleConns, \* of the health client's transport
    records,    \* Store.state
    loop,       \* where the goroutine of each target stands
    counters,   \* its local variables
    timer,      \* what its timer was last set to
    cancelled,  \* its context has been cancelled
    results     \* the outcomes of its checks, oldest first (history)

notifierVars == <<pc, desired, toCancel>>
managerVars == <<mu, generation, targets, settings, keyOf, maxIdleConns>>
loopVars == <<loop, counters, timer, cancelled, results>>
vars == <<pc, desired, toCancel, mu, generation, targets, settings, keyOf, maxIdleConns, records,
          loop, counters, timer, cancelled, results>>

TypeOK ==
    /\ pc \in [Notifiers -> {"idle", "contend", "locked", "cancelling", "done"}]
    /\ desired \in [Notifiers -> [Keys -> HealthSettings \cup {None}]]
    /\ toCancel \in [Notifiers -> SUBSET Generations]
    /\ mu \in Notifiers \cup {None}
    /\ generation \in Generations \cup {0}
    /\ targets \in [Keys -> Generations \cup {0}]
    /\ settings \in [Generations -> HealthSettings \cup {None}]
    /\ keyOf \in [Generations -> Keys \cup {None}]
    /\ maxIdleConns \in Nat
    /\ records \in [Keys -> Record \cup {None}]
    /\ loop \in [Generations -> {"none", "sleeping", "checked", "ended"}]
    /\ counters \in [Generations -> Counters]
    /\ timer \in [Generations -> Nat]
    /\ cancelled \in [Generations -> BOOLEAN]
    /\ results \in [Generations -> Seq(BOOLEAN)]

Fresh == [status |-> "unknown", failures |-> 0, successes |-> 0]

Init ==
    /\ pc = [n \in Notifiers |-> "idle"]
    /\ desired = [n \in Notifiers |-> [k \in Keys |-> None]]
    /\ toCancel = [n \in Notifiers |-> {}]
    /\ mu = None
    /\ generation = 0
    /\ targets = [k \in Keys |-> 0]
    /\ settings = [g \in Generations |-> None]
    /\ keyOf = [g \in Generations |-> None]
    /\ maxIdleConns = 1
    /\ records = [k \in Keys |-> None]
    /\ loop = [g \in Generations |-> "none"]
    /\ counters = [g \in Generations |-> Fresh]
    /\ timer = [g \in Generations |-> 0]
    /\ cancelled = [g \in Generations |-> FALSE]
    /\ results = [g \in Generations |-> <<>>]

-----------------------------------------------------------------------------
(* reconcile                                                               *)

\* OnSnapshotCommitted computes the wanted targets before it locks.
Notify(n, wanted) ==
    /\ pc[n] = "idle"
    /\ pc' = [pc EXCEPT ![n] = "contend"]
    /\ desired' = [desired EXCEPT ![n] = wanted]
    /\ UNCHANGED <<toCancel, managerVars, records, loopVars>>

\* Mutant: two deliveries reconcile at the same time.
LockShared(n) ==
    /\ pc[n] = "contend"
    /\ mu' = n
    /\ pc' = [pc EXCEPT ![n] = "locked"]
    /\ UNCHANGED <<desired, toCancel, generation, targets, settings, keyOf, maxIdleConns, records, loopVars>>

Lock(n) ==
    /\ pc[n] = "contend"
    /\ mu = None
    /\ mu' = n
    /\ pc' = [pc EXCEPT ![n] = "locked"]
    /\ UNCHANGED <<desired, toCancel, generation, targets, settings, keyOf, maxIdleConns, records, loopVars>>

\* Keys whose target the snapshot does not want any more, or wants with other settings.
Outdated(n) == {k \in Keys : targets[k] # 0 /\ settings[targets[k]] # desired[n][k]}

Missing(n) == {k \in Keys : targets[k] = 0 /\ desired[n][k] # None}

\* Mutant: the dropped loop is not cancelled.
DropOnly(n, k) ==
    /\ pc[n] = "locked"
    /\ k \in Outdated(n)
    /\ targets' = [targets EXCEPT ![k] = 0]
    /\ records' = [records EXCEPT ![k] = None]
    /\ UNCHANGED <<pc, desired, toCancel, mu, generation, settings, keyOf, maxIdleConns, loopVars>>

\* The first loop of reconcile, in the order of the map.
Drop(n, k) ==
    /\ pc[n] = "locked"
    /\ k \in Outdated(n)
    /\ targets' = [targets EXCEPT ![k] = 0]
    /\ records' = [records EXCEPT ![k] = None]
    /\ toCancel' = [toCancel EXCEPT ![n] = @ \cup {targets[k]}]
    /\ UNCHANGED <<pc, desired, mu, generation, settings, keyOf, maxIdleConns, loopVars>>

\* The time a target's loop waits after so many failures in a row.
waitOf(k, s, failures) == nextInterval(s, jitterFor(Hash[k], s.jitter), failures)

\* The second loop: a new target starts as unknown, with a goroutine of its own.
Create(n, k) ==
    LET g == generation + 1 IN
    /\ pc[n] = "locked"
    /\ Outdated(n) = {}
    /\ k \in Missing(n)
    /\ generation' = g
    /\ targets' = [targets EXCEPT ![k] = g]
    /\ settings' = [settings EXCEPT ![g] = desired[n][k]]
    /\ keyOf' = [keyOf EXCEPT ![g] = k]
    /\ records' = [records EXCEPT ![k] =
        [status |-> "unknown", failures |-> 0, successes |-> 0, generation |-> g]]
    /\ loop' = [loop EXCEPT ![g] = "sleeping"]
    /\ timer' = [timer EXCEPT ![g] = waitOf(k, desired[n][k], 0)]
    /\ UNCHANGED <<notifierVars, mu, maxIdleConns, counters, cancelled, results>>

\* replaceClientLocked: a client for so many targets.
clientFor(count) == IF count < 1 THEN 1 ELSE count

\* The client is replaced if the number of targets has changed; checks under way keep the
\* old one.
Unlock(n) ==
    /\ pc[n] = "locked"
    /\ Outdated(n) = {}
    /\ Missing(n) = {}
    /\ maxIdleConns' = clientFor(Cardinality({k \in Keys : targets[k] # 0}))
    /\ mu' = None
    /\ pc' = [pc EXCEPT ![n] = "cancelling"]
    /\ UNCHANGED <<desired, toCancel, generation, targets, settings, keyOf, records, loopVars>>

Cancel(n, g) ==
    /\ pc[n] = "cancelling"
    /\ g \in toCancel[n]
    /\ toCancel' = [toCancel EXCEPT ![n] = @ \ {g}]
    /\ cancelled' = [cancelled EXCEPT ![g] = TRUE]
    /\ UNCHANGED <<pc, desired, managerVars, records, loop, counters, timer, results>>

\* Mutant: reconcile returns in the middle of its cancelling loop.
ReturnEarly(n) ==
    /\ pc[n] = "cancelling"
    /\ pc' = [pc EXCEPT ![n] = "done"]
    /\ UNCHANGED <<desired, toCancel, managerVars, records, loopVars>>

Return(n) ==
    /\ pc[n] = "cancelling"
    /\ toCancel[n] = {}
    /\ pc' = [pc EXCEPT ![n] = "done"]
    /\ UNCHANGED <<desired, toCancel, managerVars, records, loopVars>>

-----------------------------------------------------------------------------
(* The loop of a target                                                    *)

\* Mutant: a success does not end a row of failures.
afterCheckKeepingFailures(s, old, ok) ==
    IF ok
    THEN [status |-> IF old.successes + 1 >= s.successThreshold THEN "healthy" ELSE old.status,
          failures |-> old.failures, successes |-> old.successes + 1]
    ELSE [status |-> IF old.failures + 1 >= s.failureThreshold THEN "unhealthy" ELSE old.status,
          failures |-> old.failures + 1, successes |-> 0]

\* The local variables after one more check.
afterCheck(s, old, ok) ==
    IF ok
    THEN [status |-> IF old.successes + 1 >= s.successThreshold THEN "healthy" ELSE old.status,
          failures |-> 0, successes |-> old.successes + 1]
    ELSE [status |-> IF old.failures + 1 >= s.failureThreshold THEN "unhealthy" ELSE old.status,
          failures |-> old.failures + 1, successes |-> 0]

Checks == LET made(g) == Len(results[g]) IN MapThenSumSet(made, Generations)

\* The timer fires and the instance is checked.  The select of the loop may prefer the timer
\* to a cancelled context; the check fails then, or succeeds if it was under way already.
Check(g, ok) ==
    /\ loop[g] = "sleeping"
    /\ Checks < MaxChecks
    /\ loop' = [loop EXCEPT ![g] = "checked"]
    /\ counters' = [counters EXCEPT ![g] = afterCheck(settings[g], @, ok)]
    /\ results' = [results EXCEPT ![g] = Append(@, ok)]
    /\ UNCHANGED <<notifierVars, managerVars, records, timer, cancelled>>

\* Mutant: the key decides, not the generation.
acceptsAnyGeneration(record, g) == record # None

\* UpdateStatus ignores targets that were dropped or replaced.
accepts(record, g) == record # None /\ record.generation = g

\* setStatus, then the timer is started again.
SetStatus(g) ==
    LET k == keyOf[g] IN
    /\ loop[g] = "checked"
    /\ loop' = [loop EXCEPT ![g] = "sleeping"]
    /\ timer' = [timer EXCEPT ![g] = waitOf(k, settings[g], counters[g].failures)]
    /\ \/ /\ accepts(records[k], g)
          /\ records' = [records EXCEPT ![k] =
                [status |-> counters[g].status, failures |-> counters[g].failures,
                 successes |-> counters[g].successes, generation |-> g]]
       \/ /\ ~accepts(records[k], g)
          /\ UNCHANGED records
    /\ UNCHANGED <<notifierVars, managerVars, counters, cancelled, results>>

\* The context is done; the goroutine, its variables and the target are gone.
End(g) ==
    /\ loop[g] = "sleeping"
    /\ cancelled[g]
    /\ loop' = [loop EXCEPT ![g] = "ended"]
    /\ counters' = [counters EXCEPT ![g] = Fresh]
    /\ results' = [results EXCEPT ![g] = <<>>]
    /\ timer' = [timer EXCEPT ![g] = 0]
    /\ settings' = [settings EXCEPT ![g] = None]
    /\ keyOf' = [keyOf EXCEPT ![g] = None]
    /\ UNCHANGED <<notifierVars, mu, generation, targets, maxIdleConns, records, cancelled>>

-----------------------------------------------------------------------------

ReconcileStep(n) ==
    \/ Lock(n) \/ Unlock(n) \/ Return(n)
    \/ \E k \in Keys : Drop(n, k) \/ Create(n, k)
    \/ \E g \in toCancel[n] : Cancel(n, g)

LoopStep(g) == (\E ok \in BOOLEAN : Check(g, ok)) \/ SetStatus(g) \/ End(g)

Next ==
    \/ \E n \in Notifiers :
        \/ \E wanted \in Wanted : Notify(n, wanted)
        \/ ReconcileStep(n)
    \/ \E g \in Generations : LoopStep(g)

Spec == Init /\ [][Next]_vars

\* Goroutines that can run do.  A select with both the timer and the context ready chooses
\* either at random, so that a loop that is cancelled does not choose the timer for ever.
Fairness ==
    /\ \A n \in Notifiers : WF_vars(ReconcileStep(n))
    /\ \A g \in Generations : WF_vars(SetStatus(g)) /\ SF_vars(End(g))

-----------------------------------------------------------------------------
(* Properties                                                              *)

Alive(g) == loop[g] \in {"sleeping", "checked"}
ToBeCancelled(g) == cancelled[g] \/ \E n \in Notifiers : g \in toCancel[n]

\* Every target has exactly one loop that goes on, every other loop has been cancelled or is
\* about to be: none is lost, and no instance is checked twice for long (manager.go:76-109).
OneLoopPerTarget ==
    \A g \in Generations :
        Alive(g) => (ToBeCancelled(g) <=> targets[keyOf[g]] # g)

\* Between two deliveries the targets are those of one snapshot as a whole, never a mixture of
\* several, and never without a target that is only being replaced, and the client can keep a
\* connection for each of them (manager.go:71-113).
TargetsAreOfOneSnapshot ==
    LET checkedWith == [k \in Keys |-> IF targets[k] = 0 THEN None ELSE settings[targets[k]]]
        delivered == {n \in Notifiers : pc[n] \in {"cancelling", "done"}}
    IN (mu = None /\ delivered # {}) =>
        /\ \E n \in delivered : checkedWith = desired[n]
        /\ maxIdleConns >= Cardinality({k \in Keys : targets[k] # 0})

\* Routing finds a record for exactly the targets, and it is of the target's own loop: what a
\* dropped loop measured late is not stored (store.go:78-82, manager.go:117-118).
RecordsAreOfTargets ==
    \A k \in Keys :
        /\ (records[k] = None) <=> (targets[k] = 0)
        /\ records[k] # None => records[k].generation = targets[k]

\* What a series of outcomes means, without counters: the status is that of the last row of
\* successThreshold successes or of failureThreshold failures, whichever ended later.
StatusAfter(outcomes, s) ==
    LET Row(i, ok, length) ==
            length <= i /\ \A j \in (i - length + 1)..i : outcomes[j] = ok
        Up(i) == Row(i, TRUE, s.successThreshold)
        Down(i) == Row(i, FALSE, s.failureThreshold)
        Ends == {i \in 1..Len(outcomes) : Up(i) \/ Down(i)}
    IN IF Ends = {} THEN "unknown"
       ELSE IF Up(CHOOSE i \in Ends : \A j \in Ends : j <= i) THEN "healthy" ELSE "unhealthy"

\* The outcomes a loop has stored.
Stored(g) ==
    IF loop[g] = "checked" THEN SubSeq(results[g], 1, Len(results[g]) - 1) ELSE results[g]

\* An instance is kept out of routing exactly if the checks made under its present settings,
\* and no others, say so by the thresholds of those settings (checker.go:32-49).
StatusIsEarned ==
    \A k \in Keys :
        targets[k] # 0 =>
            records[k].status = StatusAfter(Stored(targets[k]), settings[targets[k]])

\* The failures at the end of a series of outcomes.
FailuresInRow(outcomes) ==
    Len(outcomes) - (CHOOSE i \in 0..Len(outcomes) :
        /\ i = 0 \/ outcomes[i]
        /\ \A j \in (i + 1)..Len(outcomes) : ~outcomes[j])

\* A loop waits its interval after a success and before its first check, twice that when its
\* instance has just become unhealthy, twice as long with every failure that follows up to the
\* maximum, and at once the interval again when a check succeeds; the offset is below the
\* jitter (nextInterval, health/config.go:127-146; checker.go:35, 57).
WaitsAsLongAsFailing ==
    \A g \in Generations : loop[g] = "sleeping" =>
        LET s == settings[g]
            failures == FailuresInRow(results[g])
            doubled == s.interval * 2^(failures - s.failureThreshold + 1)
            base == IF failures < s.failureThreshold THEN s.interval
                    ELSE IF doubled < s.maxBackoff - 1 THEN doubled ELSE s.maxBackoff
        IN timer[g] \in base..(base + IF s.jitter = 0 THEN 0 ELSE s.jitter - 1)

\* The two readings of the settings agree: what registration accepts is not skipped by the
\* health manager, which checks nothing of its own, and never makes a loop spin (normalize.go:
\* 80-139, health/config.go:58-110); and registering again what was stored changes nothing.
\* It is about no state, and so looked at in one only.
AcceptedSettingsRun ==
    (\A n \in Notifiers : pc[n] = "idle") =>
        \A p \in Payloads : accepted(p) =>
            LET stored == normalizeHealthSettings(p) IN
            /\ ~skipped(stored) /\ Runnable(runtimeSettingsFrom(stored))
            /\ accepted(stored) /\ normalizeHealthSettings(stored) = stored

\* The goroutine of a target that was dropped ends, whatever it was doing (manager.go:115-119).
DroppedLoopEnds ==
    \A g \in Generations : (Alive(g) /\ targets[keyOf[g]] # g) ~> loop[g] = "ended"
=============================================================================

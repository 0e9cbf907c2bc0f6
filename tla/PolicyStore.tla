----------------------------- MODULE PolicyStore -----------------------------
(***************************************************************************)
(* internal/pool/policy: Store.AssignmentFor (store.go), fed by the active *)
(* configuration snapshot that each request captured once.                 *)
(*                                                                         *)
(* The tier a request gets follows from its captured policy and the load   *)
(* it measured.  A higher load takes effect at once; the way back to the   *)
(* shared pool waits until every evaluation for ReturnDelay stayed below   *)
(* the thresholds.  Configuration may change between a request's capture   *)
(* and its evaluation, and evaluations of several requests interleave.     *)
(***************************************************************************)
EXTENDS Integers, Sequences

CONSTANTS
    Requests,    \* goroutines evaluating assignments, one request after another
    Services,    \* normalized service names
    Policies,    \* thresholds a service may register
    Statuses,    \* loads a request may measure (traffic.Status)
    ReturnDelay, \* sharedReturnDelay
    None,        \* no threshold registered, no state, timer not running
    MaxRevision, \* bound on the published snapshots
    MaxTime      \* bound on the clock

Threshold == [rps : Nat, inFlight : Nat]

ASSUME PoliciesAreThresholds == Policies \subseteq [normal : Threshold, hot : Threshold, super : Threshold]
ASSUME StatusesAreLoads == Statuses \subseteq Threshold
ASSUME DelayIsNat == ReturnDelay \in Nat
ASSUME NoneIsNoPolicy ==
    /\ None \notin Policies
    /\ None \notin Nat
    /\ None \notin [policy : Policies \cup {None}, tier : {"shared", "normal", "hot", "super"},
                    belowSince : Nat \cup {None}, revision : Nat \ {0}]

DedicatedTiers == {"normal", "hot", "super"}
Tiers == DedicatedTiers \cup {"shared"}

VARIABLES
    published, \* published[v]: every service's policy in the snapshot of revision v
    now,       \* the clock
    pc,        \* "idle", "captured" or "decided"
    service,   \* the service a request was routed to
    captured,  \* the revision a request captured
    answer,    \* Assignment.Tier
    states,    \* Store.states
    above      \* when an evaluation that may set the timer last asked for a dedicated tier

envVars == <<published, now>>
requestVars == <<pc, service, captured, answer>>
vars == <<published, now, pc, service, captured, answer, states, above>>

AssignmentState ==
    [policy : Policies \cup {None}, tier : Tiers, belowSince : Nat \cup {None}, revision : Nat \ {0}]

TypeOK ==
    /\ published \in Seq([Services -> Policies \cup {None}])
    /\ Len(published) > 0
    /\ now \in Nat
    /\ pc \in [Requests -> {"idle", "captured", "decided"}]
    /\ service \in [Requests -> Services \cup {None}]
    /\ captured \in [Requests -> Nat]
    /\ answer \in [Requests -> Tiers]
    /\ states \in [Services -> AssignmentState \cup {None}]
    /\ above \in [Services -> Nat]

Init ==
    /\ published \in {<<p>> : p \in [Services -> Policies \cup {None}]}
    /\ now = 0
    /\ pc = [r \in Requests |-> "idle"]
    /\ service = [r \in Requests |-> None]
    /\ captured = [r \in Requests |-> 0]
    /\ answer = [r \in Requests |-> "shared"]
    /\ states = [s \in Services |-> None]
    /\ above = [s \in Services |-> 0]

-----------------------------------------------------------------------------
(* Deciding                                                                *)

\* A threshold of zero is switched off.
thresholdReached(status, threshold) ==
    \/ threshold.rps > 0 /\ status.rps >= threshold.rps
    \/ threshold.inFlight > 0 /\ status.inFlight >= threshold.inFlight

\* The highest tier whose threshold is reached.
decideTier(status, policy) ==
    LET reached == {t \in DedicatedTiers :
                        policy # None /\ thresholdReached(status, policy[t])}
    IN IF "super" \in reached THEN "super"
       ELSE IF "hot" \in reached THEN "hot"
       ELSE IF "normal" \in reached THEN "normal" ELSE "shared"

\* Mutant: every request follows the state, whatever snapshot it captured.
NeverStale(old, revision) == FALSE

\* The request captured an older snapshot than the state was decided under.
Stale(old, revision) == old # None /\ revision < old.revision

\* Mutant: a stale request that asks for shared gets the tier of another policy.
StaleTierAnyPolicy(old, policy, tier) ==
    IF tier = "shared" THEN old.tier ELSE tier

\* A stale request uses its own policy; the state of the newer one stays as it is.
StaleTier(old, policy, tier) ==
    IF old.policy = policy /\ tier = "shared" THEN old.tier ELSE tier

\* Mutant: a dedicated tier does not stop the timer.
KeepTimer(old, tier) == [old EXCEPT !.tier = tier]

\* Any dedicated tier cancels the wait for the return.
Promote(old, tier) == [old EXCEPT !.tier = tier, !.belowSince = None]

\* Below every threshold: start the timer, or go back when it has run long enough.
ReturnWhenDue(old) ==
    LET since == IF old.belowSince = None THEN now ELSE old.belowSince IN
    IF now - since >= ReturnDelay
    THEN [old EXCEPT !.tier = "shared", !.belowSince = None]
    ELSE [old EXCEPT !.belowSince = since]

\* Mutant: a changed policy does not start over.
WithOldTimer(old, policy, tier) ==
    IF old = None
    THEN [policy |-> policy, tier |-> tier, belowSince |-> None, revision |-> 1]
    ELSE IF tier # "shared"
         THEN Promote(old, tier)
         ELSE IF old.tier # "shared" THEN ReturnWhenDue(old) ELSE old

\* The state after an evaluation that is not stale, but for its revision.
Reassess(old, policy, tier) ==
    IF old = None \/ old.policy # policy
    THEN [policy |-> policy, tier |-> tier, belowSince |-> None, revision |-> 1]
    ELSE IF tier # "shared"
         THEN Promote(old, tier)
         ELSE IF old.tier # "shared" THEN ReturnWhenDue(old) ELSE old

-----------------------------------------------------------------------------
(* Steps                                                                   *)

\* The manager commits a snapshot in which the policy of s is p (maybe the same as before:
\* something else was changed).
Publish(s, p) ==
    /\ Len(published) < MaxRevision
    /\ published' = Append(published, [published[Len(published)] EXCEPT ![s] = p])
    /\ UNCHANGED <<now, requestVars, states, above>>

Tick ==
    /\ now < MaxTime
    /\ now' = now + 1
    /\ UNCHANGED <<published, requestVars, states, above>>

\* RouteTask captures the active snapshot for a request to s.
Capture(r, s) ==
    /\ pc[r] \in {"idle", "decided"}
    /\ pc' = [pc EXCEPT ![r] = "captured"]
    /\ service' = [service EXCEPT ![r] = s]
    /\ captured' = [captured EXCEPT ![r] = Len(published)]
    /\ UNCHANGED <<envVars, answer, states, above>>

PolicyOf(r) == published[captured[r]][service[r]]

\* AssignmentFor on a request whose snapshot is older than the state: the state stays.
AssignStale(r, status) ==
    LET old == states[service[r]] IN
    /\ pc[r] = "captured"
    /\ Stale(old, captured[r])
    /\ answer' = [answer EXCEPT ![r] =
                    StaleTier(old, PolicyOf(r), decideTier(status, PolicyOf(r)))]
    /\ pc' = [pc EXCEPT ![r] = "decided"]
    /\ UNCHANGED <<envVars, service, captured, states, above>>

\* AssignmentFor on any other request: the state is reassessed under Store.mu.
Assign(r, status) ==
    LET s    == service[r]
        tier == decideTier(status, PolicyOf(r))
        new  == [Reassess(states[s], PolicyOf(r), tier) EXCEPT !.revision = captured[r]]
    IN
    /\ pc[r] = "captured"
    /\ ~Stale(states[s], captured[r])
    /\ states' = [states EXCEPT ![s] = new]
    /\ answer' = [answer EXCEPT ![r] = new.tier]
    /\ above' = IF tier = "shared" THEN above ELSE [above EXCEPT ![s] = now]
    /\ pc' = [pc EXCEPT ![r] = "decided"]
    /\ UNCHANGED <<envVars, service, captured>>

Next ==
    \/ \E s \in Services, p \in Policies \cup {None} : Publish(s, p)
    \/ Tick
    \/ \E r \in Requests, s \in Services : Capture(r, s)
    \/ \E r \in Requests, status \in Statuses : AssignStale(r, status) \/ Assign(r, status)

Spec == Init /\ [][Next]_vars

-----------------------------------------------------------------------------
(* Properties                                                              *)

\* The state of a service was decided under the policy of the snapshot it names: requests
\* that captured other snapshots, older or newer, never mix policies into it.
StatePolicyIsOfItsRevision ==
    \A s \in Services :
        states[s] # None => /\ states[s].revision <= Len(published)
                            /\ states[s].policy = published[states[s].revision][s]

\* A request is sent to a dedicated pool only if the policy it captured itself has a
\* threshold for that tier that can be reached, even if other requests, under older or newer
\* policies, asked for it (store.go:226-231, 204).
AnswerIsOfOwnPolicy ==
    \A r \in Requests :
        (pc[r] = "decided" /\ answer[r] # "shared")
            => /\ PolicyOf(r) # None
               /\ PolicyOf(r)[answer[r]] # [rps |-> 0, inFlight |-> 0]

\* Under one policy the way back to the shared pool opens only when ReturnDelay has passed
\* since the last evaluation that asked for a dedicated tier (store.go:236-252).  Evaluations
\* with a snapshot older than the state's do not count: they neither start nor stop the timer
\* and do not change the state (store.go:225-231).
ReturnsAfterDelay ==
    [][\A s \in Services :
        (/\ states[s] # None /\ states'[s].policy = states[s].policy
         /\ states[s].tier # "shared" /\ states'[s].tier = "shared")
            => now - above[s] >= ReturnDelay]_vars

\* The snapshot a service was last decided under never gets older.
RevisionNeverGoesBack ==
    [][\A s \in Services :
        states[s] # None => states'[s].revision >= states[s].revision]_vars
=============================================================================

----------------------------- MODULE Coordinator -----------------------------
(***************************************************************************)
(* internal/pool: Coordinator (coordinate.go), managedClient (client.go)   *)
(* and the part of Forwarder.Handle (transfer.go) that holds a lease.      *)
(*                                                                         *)
(* Every request runs on a goroutine of its own and arrives with an        *)
(* assignment: a service and a tier (the shared one or a dedicated one).   *)
(* It looks a client up under the read lock, takes the write lock if the   *)
(* cached client does not fit, and holds a lease until Handle returns.  A  *)
(* client that is replaced is retired: its idle connections are closed at  *)
(* once, and again by a goroutine when its last lease has been released.   *)
(*                                                                         *)
(* A client is named after the request that created it, for a request      *)
(* creates at most one; the shared client exists from NewCoordinator on.   *)
(***************************************************************************)
EXTENDS Integers, FiniteSets

CONSTANTS
    Requests,       \* the requests (goroutines) of a run
    Services,       \* normalized, non-empty service names
    DedicatedTiers, \* normal, hot, super
    SharedTier,     \* poolconfig.TierShared
    SharedClient,   \* Coordinator.shared
    Redirecting,    \* the requests whose upstreams may redirect Client.Do
    None            \* nil: no client, no lock holder, no assignment

ASSUME RequestsFinite == IsFiniteSet(Requests)
ASSUME SharedClientIsNoRequest == SharedClient \notin Requests
ASSUME SharedTierIsNotDedicated == SharedTier \notin DedicatedTiers
ASSUME NoneIsNothing ==
    /\ None \notin Requests \cup {SharedClient}
    /\ None \notin DedicatedTiers \cup {SharedTier}
    /\ None \notin [service : Services, tier : DedicatedTiers \cup {SharedTier}]

Tiers == DedicatedTiers \cup {SharedTier}
Clients == Requests \cup {SharedClient}
Assignments == [service : Services, tier : Tiers]

VARIABLES
    pc,         \* where each request stands
    want,       \* the assignment each request arrived with
    held,       \* the client each request has a lease of
    lock,       \* the request that holds Coordinator.mu for writing
    dedicated,  \* Coordinator.dedicated
    tier,       \* managedClient.tier, None for a client not created yet
    wg,         \* the counter of managedClient.wg
    waiter,     \* the goroutine that retire starts for a client
    idle,       \* the client's transport holds an idle connection
    closing,    \* the transport closes connections that become idle
    lateDial    \* a dial is under way that no request waits for any more

requestVars == <<pc, want, held>>
clientVars == <<lock, dedicated, tier, wg, waiter>>
connVars == <<idle, closing, lateDial>>
vars == <<pc, want, held, lock, dedicated, tier, wg, waiter, idle, closing, lateDial>>

Leased == {"leased", "dialing", "connected", "answered"}

TypeOK ==
    /\ pc \in [Requests -> {"new", "lookup", "contend", "replace", "admit", "done"} \cup Leased]
    /\ want \in [Requests -> Assignments \cup {None}]
    /\ held \in [Requests -> Clients \cup {None}]
    /\ lock \in Requests \cup {None}
    /\ dedicated \in [Services -> Clients \cup {None}]
    /\ tier \in [Clients -> Tiers \cup {None}]
    /\ wg \in [Clients -> Nat]
    /\ waiter \in [Clients -> {"none", "waiting", "woken", "drained"}]
    /\ idle \in [Clients -> BOOLEAN]
    /\ closing \in [Clients -> BOOLEAN]
    /\ lateDial \in [Clients -> BOOLEAN]

Init ==
    /\ pc = [r \in Requests |-> "new"]
    /\ want = [r \in Requests |-> None]
    /\ held = [r \in Requests |-> None]
    /\ lock = None
    /\ dedicated = [s \in Services |-> None]
    /\ tier = [c \in Clients |-> IF c = SharedClient THEN SharedTier ELSE None]
    /\ wg = [c \in Clients |-> 0]
    /\ waiter = [c \in Clients |-> "none"]
    /\ idle = [c \in Clients |-> FALSE]
    /\ closing = [c \in Clients |-> FALSE]
    /\ lateDial = [c \in Clients |-> FALSE]

-----------------------------------------------------------------------------
(* Acquire                                                                 *)

\* The policy has decided (Store.AssignmentFor); the request is about to call Acquire.
Start(r, a) ==
    /\ pc[r] = "new"
    /\ pc' = [pc EXCEPT ![r] = "lookup"]
    /\ want' = [want EXCEPT ![r] = a]
    /\ UNCHANGED <<held, clientVars, connVars>>

\* Mutant: a dedicated client is reused whatever its tier.
CachedAnyTier(r) ==
    LET own == dedicated[want[r].service] IN
    IF want[r].tier = SharedTier
    THEN IF own = None THEN SharedClient ELSE None
    ELSE own

\* The client the maps already hold for the assignment of r, None if they have to change.
Cached(r) ==
    LET own == dedicated[want[r].service] IN
    IF want[r].tier = SharedTier
    THEN IF own = None THEN SharedClient ELSE None
    ELSE IF own # None /\ tier[own] = want[r].tier THEN own ELSE None

\* Mutant: the client is handed out without wg.Add.
AcquireUncounted(r, c) ==
    /\ held' = [held EXCEPT ![r] = c]
    /\ pc' = [pc EXCEPT ![r] = "leased"]
    /\ UNCHANGED wg

\* acquire(): the lease counts before the lock is given up.
Acquire(r, c) ==
    /\ wg' = [wg EXCEPT ![c] = @ + 1]
    /\ held' = [held EXCEPT ![r] = c]
    /\ pc' = [pc EXCEPT ![r] = "leased"]

AcquireFast(r) ==
    /\ pc[r] = "lookup"
    /\ lock = None
    /\ Cached(r) # None
    /\ Acquire(r, Cached(r))
    /\ UNCHANGED <<want, lock, dedicated, tier, waiter, connVars>>

MissFast(r) ==
    /\ pc[r] = "lookup"
    /\ lock = None
    /\ Cached(r) = None
    /\ pc' = [pc EXCEPT ![r] = "contend"]
    /\ UNCHANGED <<want, held, clientVars, connVars>>

\* Mutant: no second look at the maps under the write lock.
TakeLockUnchecked(r) ==
    /\ pc[r] = "contend"
    /\ lock = None
    /\ lock' = r
    /\ pc' = [pc EXCEPT ![r] = "replace"]
    /\ UNCHANGED <<want, held, dedicated, tier, wg, waiter, connVars>>

\* The maps are looked at again under the write lock: they may have changed since the miss.
TakeLock(r) ==
    /\ pc[r] = "contend"
    /\ lock = None
    /\ lock' = r
    /\ pc' = [pc EXCEPT ![r] = IF Cached(r) = None THEN "replace" ELSE "admit"]
    /\ UNCHANGED <<want, held, dedicated, tier, wg, waiter, connVars>>

\* Mutant: the idle connections are closed and no goroutine waits for the leases.
retireWithoutWait(c) ==
    /\ c # None
    /\ idle' = [idle EXCEPT ![c] = FALSE]
    /\ closing' = [closing EXCEPT ![c] = TRUE]
    /\ UNCHANGED waiter

\* Close the idle connections at once and start the goroutine that waits for the leases.
retire(c) ==
    /\ c # None
    /\ waiter' = [waiter EXCEPT ![c] = "waiting"]
    /\ idle' = [idle EXCEPT ![c] = FALSE]
    /\ closing' = [closing EXCEPT ![c] = TRUE]

\* Mutant: the way back to the shared client forgets to delete the map entry.
ReplaceUndeleted(r) ==
    LET s == want[r].service IN
    /\ pc[r] = "replace"
    /\ \/ retire(dedicated[s])
       \/ dedicated[s] = None /\ UNCHANGED <<waiter, idle, closing>>
    /\ IF want[r].tier = SharedTier
       THEN UNCHANGED <<dedicated, tier>>
       ELSE /\ dedicated' = [dedicated EXCEPT ![s] = r]
            /\ tier' = [tier EXCEPT ![r] = want[r].tier]
    /\ pc' = [pc EXCEPT ![r] = "admit"]
    /\ UNCHANGED <<want, held, lock, wg, lateDial>>

\* Under the write lock: retire the service's client and put the new one, if any, in its place.
Replace(r) ==
    LET s == want[r].service IN
    /\ pc[r] = "replace"
    /\ \/ retire(dedicated[s])
       \/ dedicated[s] = None /\ UNCHANGED <<waiter, idle, closing>>
    /\ IF want[r].tier = SharedTier
       THEN /\ dedicated' = [dedicated EXCEPT ![s] = None]
            /\ UNCHANGED tier
       ELSE /\ dedicated' = [dedicated EXCEPT ![s] = r]
            /\ tier' = [tier EXCEPT ![r] = want[r].tier]
    /\ pc' = [pc EXCEPT ![r] = "admit"]
    /\ UNCHANGED <<want, held, lock, wg, lateDial>>

\* Take the lease and unlock.
Admit(r) ==
    /\ pc[r] = "admit"
    /\ Acquire(r, IF want[r].tier = SharedTier THEN SharedClient ELSE dedicated[want[r].service])
    /\ lock' = None
    /\ UNCHANGED <<want, dedicated, tier, waiter, connVars>>

-----------------------------------------------------------------------------
(* Handle, while it holds the lease                                        *)

\* Handle returns before it sends anything, for the address does not parse; or Do stops between
\* two redirects.
GiveUp(r) ==
    /\ pc[r] = "leased"
    /\ pc' = [pc EXCEPT ![r] = "answered"]
    /\ UNCHANGED <<want, held, clientVars, connVars>>

\* Client.Do: wanting a connection makes the transport keep idle ones again; it
\* reuses an idle connection (maybe the last one) or dials.
GetConn(r) ==
    LET c == held[r] IN
    /\ pc[r] = "leased"
    /\ closing' = [closing EXCEPT ![c] = FALSE]
    /\ \/ /\ idle[c]
          /\ \E more \in BOOLEAN : idle' = [idle EXCEPT ![c] = more]
          /\ pc' = [pc EXCEPT ![r] = "connected"]
       \/ /\ pc' = [pc EXCEPT ![r] = "dialing"]
          /\ UNCHANGED idle
    /\ UNCHANGED <<want, held, clientVars, lateDial>>

DialDone(r) ==
    /\ pc[r] = "dialing"
    /\ pc' = [pc EXCEPT ![r] = "connected"]
    /\ UNCHANGED <<want, held, clientVars, connVars>>

\* Do returns an error while the dial fails, or goes on for nobody (the client of the
\* gateway went away).
DialAbandoned(r) ==
    /\ pc[r] = "dialing"
    /\ pc' = [pc EXCEPT ![r] = "answered"]
    /\ \E goesOn \in BOOLEAN : lateDial' = [lateDial EXCEPT ![held[r]] = @ \/ goesOn]
    /\ UNCHANGED <<want, held, clientVars, idle, closing>>

\* A connection nobody uses any more: kept idle unless the transport closes those.
PutIdle(c) ==
    /\ \E reusable \in BOOLEAN : idle' = [idle EXCEPT ![c] = @ \/ (reusable /\ ~closing[c])]
    /\ UNCHANGED closing

\* The body is copied and closed, which gives the connection back; deferred before Finish.
Answer(r) ==
    /\ pc[r] = "connected"
    /\ pc' = [pc EXCEPT ![r] = "answered"]
    /\ PutIdle(held[r])
    /\ UNCHANGED <<want, held, clientVars, lateDial>>

\* Client.Do follows a redirect, or the transport tries again: the connection is given back, and
\* another is wanted under the same lease.
Redirect(r) ==
    /\ pc[r] = "connected"
    /\ r \in Redirecting
    /\ pc' = [pc EXCEPT ![r] = "leased"]
    /\ PutIdle(held[r])
    /\ UNCHANGED <<want, held, clientVars, lateDial>>

LateDialDone(c) ==
    /\ lateDial[c]
    /\ lateDial' = [lateDial EXCEPT ![c] = FALSE]
    /\ PutIdle(c)
    /\ UNCHANGED <<requestVars, clientVars>>

\* Mutant: Handle returns without lease.Finish.
FinishUncounted(r) ==
    /\ pc[r] = "answered"
    /\ held' = [held EXCEPT ![r] = None]
    /\ pc' = [pc EXCEPT ![r] = "done"]
    /\ UNCHANGED <<want, wg, lock, dedicated, tier, waiter, connVars>>

\* The deferred lease.Finish.
Finish(r) ==
    /\ pc[r] = "answered"
    /\ wg' = [wg EXCEPT ![held[r]] = @ - 1]
    /\ held' = [held EXCEPT ![r] = None]
    /\ pc' = [pc EXCEPT ![r] = "done"]
    /\ UNCHANGED <<want, lock, dedicated, tier, waiter, connVars>>

-----------------------------------------------------------------------------
(* The goroutine started by retire                                         *)

\* Mutant: the goroutine does not wait.
WaitReturnsEarly(c) ==
    /\ waiter[c] = "waiting"
    /\ waiter' = [waiter EXCEPT ![c] = "woken"]
    /\ UNCHANGED <<requestVars, lock, dedicated, tier, wg, connVars>>

WaitReturns(c) ==
    /\ waiter[c] = "waiting"
    /\ wg[c] = 0
    /\ waiter' = [waiter EXCEPT ![c] = "woken"]
    /\ UNCHANGED <<requestVars, lock, dedicated, tier, wg, connVars>>

\* Mutant: connections that became idle since retire stay open.
FinalCloseForgotten(c) ==
    /\ waiter[c] = "woken"
    /\ waiter' = [waiter EXCEPT ![c] = "drained"]
    /\ UNCHANGED <<requestVars, lock, dedicated, tier, wg, connVars>>

FinalClose(c) ==
    /\ waiter[c] = "woken"
    /\ waiter' = [waiter EXCEPT ![c] = "drained"]
    /\ idle' = [idle EXCEPT ![c] = FALSE]
    /\ closing' = [closing EXCEPT ![c] = TRUE]
    /\ UNCHANGED <<requestVars, lock, dedicated, tier, wg, lateDial>>

-----------------------------------------------------------------------------

RequestStep(r) ==
    \/ \E a \in Assignments : Start(r, a)
    \/ AcquireFast(r) \/ MissFast(r) \/ TakeLock(r) \/ Replace(r) \/ Admit(r)
    \/ GiveUp(r) \/ GetConn(r) \/ DialDone(r) \/ DialAbandoned(r)
    \/ Answer(r) \/ Redirect(r) \/ Finish(r)

Next ==
    \/ \E r \in Requests : RequestStep(r)
    \/ \E c \in Clients : LateDialDone(c) \/ WaitReturns(c) \/ FinalClose(c)

Spec == Init /\ [][Next]_vars

\* Only what the Go scheduler owes the goroutine of retire: it runs when Wait may return.
\* Nothing makes an upstream answer or a request end.
Fairness == \A c \in Clients : WF_vars(WaitReturns(c)) /\ WF_vars(FinalClose(c))

FairSpec == Spec /\ Fairness

-----------------------------------------------------------------------------
(* Properties                                                              *)

Holders(c) == {r \in Requests : held[r] = c /\ pc[r] \in Leased}
Retired(c) == waiter[c] # "none"
Published(c) == c = SharedClient \/ \E s \in Services : dedicated[s] = c

\* The WaitGroup of a client counts exactly the requests that hold a lease of it, on
\* every path through Handle (acquire and release, client.go:80-90, transfer.go:76-82).
WgCountsLeases == \A c \in Clients : wg[c] = Cardinality(Holders(c))

\* Nothing is lost: a client that was created is handed out to new requests or has been
\* retired, never both and never neither (coordinate.go:93-112, 144-155).
PublishedXorRetired ==
    \A c \in Clients : tier[c] # None => (Published(c) <=> ~Retired(c))

\* A request is served by a client of the tier it was assigned, however the maps changed
\* between its miss and its lease (coordinate.go:122-141).
LeaseHasAssignedTier ==
    \A r \in Requests : pc[r] \in Leased => tier[held[r]] = want[r].tier

\* When the goroutine of retire has passed Wait no request uses the client, and when it has
\* ended the transport keeps no connection open, and never will (client.go:97-106).
DrainedIsUnused ==
    \A c \in Clients :
        /\ waiter[c] \in {"woken", "drained"} => Holders(c) = {}
        /\ waiter[c] = "drained" => ~idle[c]

\* wg.Add never follows retire on the same client: the rule under which Wait is sound.
NoLeaseAfterRetire ==
    [][\A c \in Clients : Retired(c) => wg'[c] <= wg[c]]_vars

\* A dedicated client gives way only to a request assigned another tier: two requests that
\* miss together do not replace each other's client (the second look, coordinate.go:136-141).
ReplacedOnlyByAnotherTier ==
    [][\A s \in Services :
        (dedicated[s] # None /\ dedicated'[s] # None /\ dedicated'[s] # dedicated[s])
            => tier'[dedicated'[s]] # tier[dedicated[s]]]_vars

\* Every retired client is drained in the end, unless some request holds it for ever (the
\* shared client is never retired: PublishedXorRetired).
DrainedUnlessHeld ==
    \A c \in Clients \ {SharedClient} :
        Retired(c) ~> (waiter[c] = "drained" \/ [](Holders(c) # {}))

-----------------------------------------------------------------------------
(* The coordinator implements the life cycle of ClientLifecycle.           *)

PhaseOf(c) ==
    IF waiter[c] = "none"
    THEN IF tier[c] = None THEN "absent" ELSE "open"
    ELSE IF waiter[c] = "drained" THEN "drained" ELSE "retired"

Lifecycle == INSTANCE ClientLifecycle WITH
    FirstClient <- SharedClient,
    phase <- [c \in Clients |-> PhaseOf(c)],
    holders <- [c \in Clients |-> Holders(c)]

\* Every step opens, lends, takes back, retires or drains as ClientLifecycle allows.
LifecycleSpec == Lifecycle!Spec
=============================================================================

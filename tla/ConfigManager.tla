---------------------------- MODULE ConfigManager ----------------------------
(***************************************************************************)
(* internal/config: Manager (manager.go) and the snapshot builder          *)
(* (snapshot.go), with the validators main.go installs, as api/config      *)
(* calls them for its clients.                                             *)
(*                                                                         *)
(* Every call of Register or DeregisterInstance runs on a goroutine of its *)
(* own.  Under Manager.mu it copies the active snapshot, changes the copy, *)
(* has it validated and publishes it through an atomic pointer, which      *)
(* requests read without any lock; the listeners are told after the mutex  *)
(* has been released.  A snapshot object is named after the call that      *)
(* allocated it; Boot is the empty one NewManager publishes.               *)
(***************************************************************************)
EXTENDS Integers, Sequences, FiniteSets

CONSTANTS
    Calls,            \* the calls (goroutines) of a run
    Services,         \* normalized service names
    Routes,           \* RouteKey: method and path
    Wildcards,        \* the routes whose path ends in /**
    RoleSets,         \* role lists of an endpoint
    Addresses,        \* host and port of an instance
    Schemes,          \* http, https
    Settings,         \* global, health and threshold settings of a service
    AcceptedSettings, \* those the auth and the policy validator accept
    Registrations,    \* payloads of Register that normalizeSettings accepts
    Deregistrations,  \* arguments of DeregisterInstance that are accepted likewise
    Boot,             \* the snapshot of NewManager
    None              \* not registered, no route, no lock holder

Endpoint == [route : Routes, roles : RoleSets]
Instance == [address : Addresses, scheme : Schemes]
Registration ==
    [kind : {"register"}, service : Services, settings : Settings,
     endpoints : Seq(Endpoint) \ {<<>>}, instance : Instance]
Deregistration == [kind : {"deregister"}, service : Services, address : Addresses]

ASSUME CallsFinite == IsFiniteSet(Calls) /\ Boot \notin Calls /\ None \notin Calls
ASSUME WildcardsAreRoutes == Wildcards \subseteq Routes
ASSUME AcceptedAreSettings == AcceptedSettings \subseteq Settings
ASSUME PayloadsAreNormalized ==
    Registrations \subseteq Registration /\ Deregistrations \subseteq Deregistration

RouteEntry == [service : Services, route : Routes, roles : RoleSets]
ServiceSettings ==
    [settings : Settings, endpoints : Seq(Endpoint) \ {<<>>}, instances : Seq(Instance)]
Snapshot ==
    [revision : Nat, services : [Services -> ServiceSettings \cup {None}],
     routes : [Routes -> RouteEntry \cup {None}], wildcards : Seq(RouteEntry)]

\* What callers see of a service: its instances by address.
Offer ==
    [settings : Settings, endpoints : SUBSET Endpoint,
     instances : [Addresses -> Schemes \cup {None}]]

ASSUME NoneIsNoValue ==
    /\ None \notin RouteEntry /\ None \notin ServiceSettings
    /\ None \notin Schemes /\ None \notin Offer

Snapshots == Calls \cup {Boot}

VARIABLES
    pc,        \* where each call stands
    op,        \* its normalized argument
    lock,      \* the call that holds Manager.mu
    heap,      \* the contents of each snapshot object
    candidate, \* the object a call builds
    active,    \* Manager.settings
    answer     \* the HTTP status the handler has sent to the caller, 0 for none

callVars == <<pc, op>>
vars == <<pc, op, lock, heap, candidate, active, answer>>

TypeOK ==
    /\ pc \in [Calls -> {"idle", "waiting", "building", "validating", "notifying", "done", "failed"}]
    /\ op \in [Calls -> Registrations \cup Deregistrations \cup {None}]
    /\ lock \in Calls \cup {None}
    /\ heap \in [Snapshots -> Snapshot]
    /\ candidate \in [Calls -> Snapshots]
    /\ active \in Snapshots
    /\ answer \in [Calls -> {0, 200, 400, 404}]

EmptySnapshot ==
    [revision |-> 0, services |-> [s \in Services |-> None],
     routes |-> [rt \in Routes |-> None], wildcards |-> <<>>]

Init ==
    /\ pc = [c \in Calls |-> "idle"]
    /\ op = [c \in Calls |-> None]
    /\ lock = None
    /\ heap = [o \in Snapshots |-> EmptySnapshot]
    /\ candidate = [c \in Calls |-> c]
    /\ active = Boot
    /\ answer = [c \in Calls |-> 0]

-----------------------------------------------------------------------------
(* The snapshot builder                                                    *)

Registered(snap) == {s \in Services : snap.services[s] # None}

\* The elements of a list at these positions, in their order: SelectSeq with the positions
\* instead of a test, so that it can be reasoned about.
Select(list, positions) ==
    LET nth(n) == CHOOSE i \in positions : Cardinality({j \in positions : j < i}) = n - 1
    IN [n \in 1..Cardinality(positions) |-> list[nth(n)]]

entries(s, endpoints) ==
    [i \in DOMAIN endpoints |->
        [service |-> s, route |-> endpoints[i].route, roles |-> endpoints[i].roles]]

duplicate(endpoints) ==
    \E i, j \in DOMAIN endpoints : i # j /\ endpoints[i].route = endpoints[j].route

\* Another service owns the route.
taken(snap, s, route) == snap.routes[route] # None /\ snap.routes[route].service # s

\* Mutant: the routes of the last registration stay.
removeNoRoutes(snap, s) == snap

\* Mutant: the slice that wildcard requests are matched against keeps the old entries.
removeExactRoutes(snap, s) ==
    [snap EXCEPT !.routes = [rt \in Routes |->
        IF snap.routes[rt] = None \/ taken(snap, s, rt) THEN snap.routes[rt] ELSE None]]

removeServiceRoutes(snap, s) ==
    [snap EXCEPT
        !.routes = [rt \in Routes |->
            IF snap.routes[rt] = None \/ taken(snap, s, rt) THEN snap.routes[rt] ELSE None],
        !.wildcards = Select(@, {i \in DOMAIN @ : @[i].service # s})]

addServiceRoutes(snap, s, endpoints) ==
    LET new == entries(s, endpoints) IN
    [snap EXCEPT
        !.routes = [rt \in Routes |->
            IF \E i \in DOMAIN new : new[i].route = rt
            THEN new[CHOOSE i \in DOMAIN new : new[i].route = rt]
            ELSE snap.routes[rt]],
        !.wildcards = @ \o Select(new, {i \in DOMAIN new : new[i].route \in Wildcards})]

\* Mutant: a second registration of an instance adds it once more.
upsertAppend(instances, next) == Append(instances, next)

\* An instance is known by its address; registering it again updates it in place.
upsertInstanceSettings(instances, next) ==
    IF \E i \in DOMAIN instances : instances[i].address = next.address
    THEN [i \in DOMAIN instances |->
            IF instances[i].address = next.address THEN next ELSE instances[i]]
    ELSE Append(instances, next)

\* The settings and endpoints of the last registration, the instances of all of them.
buildService(old, reg) ==
    [settings |-> reg.settings, endpoints |-> reg.endpoints,
     instances |-> IF old = None THEN <<reg.instance>>
                   ELSE upsertInstanceSettings(old.instances, reg.instance)]

replaceService(snap, reg) ==
    LET routed == addServiceRoutes(removeServiceRoutes(snap, reg.service), reg.service, reg.endpoints)
    IN [routed EXCEPT !.services[reg.service] = buildService(@, reg), !.revision = @ + 1]

knows(snap, s, address) ==
    /\ snap.services[s] # None
    /\ \E i \in DOMAIN snap.services[s].instances : snap.services[s].instances[i].address = address

removeServiceInstance(snap, s, address) ==
    [snap EXCEPT
        !.services[s].instances = Select(@, {i \in DOMAIN @ : @[i].address # address}),
        !.revision = @ + 1]

\* Mutant: a service must keep an instance.
routesValidNonEmpty(snap) ==
    /\ \A s \in Registered(snap) : snap.services[s].instances # <<>>
    /\ \A rt \in Routes : snap.routes[rt] # None => snap.routes[rt].service \in Registered(snap)

\* routeconfig.Validator: the indexes name registered services only.
routesValid(snap) ==
    /\ \A s \in Registered(snap) : snap.services[s].endpoints # <<>>
    /\ \A rt \in Routes : snap.routes[rt] # None => snap.routes[rt].service \in Registered(snap)
    /\ \A i \in DOMAIN snap.wildcards : /\ snap.wildcards[i].route \in Wildcards
                                        /\ snap.wildcards[i].service \in Registered(snap)

\* authconfig.Store and policy.Store look at the settings of every service of the candidate.
settingsValid(snap) == \A s \in Registered(snap) : snap.services[s].settings \in AcceptedSettings

-----------------------------------------------------------------------------
(* Register and DeregisterInstance                                         *)

Answers(c, status) == answer' = [answer EXCEPT ![c] = status]

\* The handler cannot decode the payload, or the manager cannot normalize it: nobody else
\* hears of the call.
Reject(c) ==
    /\ pc[c] = "idle"
    /\ pc' = [pc EXCEPT ![c] = "failed"]
    /\ Answers(c, 400)
    /\ UNCHANGED <<op, lock, heap, candidate, active>>

\* The call has normalized its argument and is about to lock.
Call(c, argument) ==
    /\ pc[c] = "idle"
    /\ pc' = [pc EXCEPT ![c] = "waiting"]
    /\ op' = [op EXCEPT ![c] = argument]
    /\ UNCHANGED <<lock, heap, candidate, active, answer>>

\* Mutant: the candidate is the active snapshot itself.
CopyNothing(c) ==
    /\ pc[c] = "waiting"
    /\ lock = None
    /\ lock' = c
    /\ candidate' = [candidate EXCEPT ![c] = active]
    /\ pc' = [pc EXCEPT ![c] = "building"]
    /\ UNCHANGED <<op, heap, active, answer>>

\* Mutant: the mutex is not taken.
CopyUnlocked(c) ==
    /\ pc[c] = "waiting"
    /\ heap' = [heap EXCEPT ![c] = heap[active]]
    /\ candidate' = [candidate EXCEPT ![c] = c]
    /\ pc' = [pc EXCEPT ![c] = "building"]
    /\ UNCHANGED <<op, lock, active, answer>>

\* Lock, and copy the active snapshot into a new object.
Copy(c) ==
    /\ pc[c] = "waiting"
    /\ lock = None
    /\ lock' = c
    /\ heap' = [heap EXCEPT ![c] = heap[active]]
    /\ candidate' = [candidate EXCEPT ![c] = c]
    /\ pc' = [pc EXCEPT ![c] = "building"]
    /\ UNCHANGED <<op, active, answer>>

\* Mutant: an error path without Unlock.
FailLocked(c, status) ==
    /\ pc' = [pc EXCEPT ![c] = "failed"]
    /\ Answers(c, status)
    /\ UNCHANGED <<op, lock, candidate, active>>

\* Unlock and return an error, which the handler gives a status; whatever the candidate has
\* become is garbage.
Fail(c, status) ==
    /\ lock' = None
    /\ pc' = [pc EXCEPT ![c] = "failed"]
    /\ Answers(c, status)
    /\ UNCHANGED <<op, candidate, active>>

\* The candidate is complete.
Built(c, snap) ==
    /\ heap' = [heap EXCEPT ![candidate[c]] = snap]
    /\ pc' = [pc EXCEPT ![c] = "validating"]
    /\ UNCHANGED <<op, lock, candidate, active, answer>>

BuildRegistration(c) ==
    LET snap == heap[candidate[c]] IN
    /\ pc[c] = "building"
    /\ op[c].kind = "register"
    /\ ~duplicate(op[c].endpoints)
    /\ \A i \in DOMAIN op[c].endpoints : ~taken(snap, op[c].service, op[c].endpoints[i].route)
    /\ Built(c, replaceService(snap, op[c]))

RefuseDuplicate(c) ==
    /\ pc[c] = "building"
    /\ op[c].kind = "register"
    /\ duplicate(op[c].endpoints)
    /\ Fail(c, 400)
    /\ UNCHANGED heap

\* Endpoint i is the first whose route is taken; the service's old routes have gone from the
\* candidate and the endpoints in front of i are in it already.
RefuseTaken(c) ==
    LET snap == heap[candidate[c]]
        s == op[c].service
        endpoints == op[c].endpoints
    IN
    /\ pc[c] = "building"
    /\ op[c].kind = "register"
    /\ ~duplicate(endpoints)
    /\ \E i \in DOMAIN endpoints :
        /\ taken(snap, s, endpoints[i].route)
        /\ \A j \in 1..(i - 1) : ~taken(snap, s, endpoints[j].route)
        /\ heap' = [heap EXCEPT ![candidate[c]] =
                addServiceRoutes(removeServiceRoutes(snap, s), s, SubSeq(endpoints, 1, i - 1))]
    /\ Fail(c, 400)

BuildDeregistration(c) ==
    LET snap == heap[candidate[c]] IN
    /\ pc[c] = "building"
    /\ op[c].kind = "deregister"
    /\ knows(snap, op[c].service, op[c].address)
    /\ Built(c, removeServiceInstance(snap, op[c].service, op[c].address))

RefuseUnknown(c) ==
    /\ pc[c] = "building"
    /\ op[c].kind = "deregister"
    /\ ~knows(heap[candidate[c]], op[c].service, op[c].address)
    /\ Fail(c, 404)
    /\ UNCHANGED heap

valid(snap) == routesValid(snap) /\ settingsValid(snap)

\* Mutant: the settings of other services are not looked at, nor those of this one.
CommitUnchecked(c) ==
    /\ pc[c] = "validating"
    /\ routesValid(heap[candidate[c]])
    /\ active' = candidate[c]
    /\ lock' = None
    /\ pc' = [pc EXCEPT ![c] = "notifying"]
    /\ UNCHANGED <<op, heap, candidate, answer>>

\* commitCandidate publishes the candidate; then unlock.
Commit(c) ==
    /\ pc[c] = "validating"
    /\ valid(heap[candidate[c]])
    /\ active' = candidate[c]
    /\ lock' = None
    /\ pc' = [pc EXCEPT ![c] = "notifying"]
    /\ UNCHANGED <<op, heap, candidate, answer>>

RefuseInvalid(c) ==
    /\ pc[c] = "validating"
    /\ ~valid(heap[candidate[c]])
    /\ Fail(c, 400)
    /\ UNCHANGED heap

\* notifySnapshotListeners has called every listener; the call returns.
Return(c) ==
    /\ pc[c] = "notifying"
    /\ pc' = [pc EXCEPT ![c] = "done"]
    /\ Answers(c, 200)
    /\ UNCHANGED <<op, lock, heap, candidate, active>>

-----------------------------------------------------------------------------

Work(c) ==
    \/ Copy(c)
    \/ BuildRegistration(c) \/ BuildDeregistration(c)
    \/ RefuseDuplicate(c) \/ RefuseTaken(c) \/ RefuseUnknown(c) \/ RefuseInvalid(c)
    \/ Commit(c)

Next ==
    \E c \in Calls :
        \/ Reject(c)
        \/ \E argument \in Registrations \cup Deregistrations : Call(c, argument)
        \/ Work(c)
        \/ Return(c)

Spec == Init /\ [][Next]_vars

-----------------------------------------------------------------------------
(* Properties                                                              *)

\* The exact index holds the endpoints of the registered services, with their roles, and
\* nothing else, whatever was registered, changed and refused before (snapshot.go:99-141).
RoutesIndexServices ==
    LET snap == heap[active]
        Lists(s, rt, roles) == \E i \in DOMAIN snap.services[s].endpoints :
            snap.services[s].endpoints[i] = [route |-> rt, roles |-> roles]
    IN \A rt \in Routes, s \in Services, roles \in RoleSets :
        (snap.routes[rt] = [service |-> s, route |-> rt, roles |-> roles])
            <=> (s \in Registered(snap) /\ Lists(s, rt, roles))

\* The wildcard slice lists the wildcard routes of the exact index, each of them once: the
\* two indexes, kept up separately, never disagree (snapshot.go:106-117, 134-137).
WildcardsIndexRoutes ==
    LET snap == heap[active]
        wild == {snap.routes[rt] : rt \in Wildcards} \ {None}
    IN /\ {snap.wildcards[i] : i \in DOMAIN snap.wildcards} = wild
       /\ Len(snap.wildcards) = Cardinality(wild)

\* No service lists an address twice, so round robin weighs instances equally and one
\* deregistration takes an instance out for good (snapshot.go:79-90, 185-194).
AddressesAreDistinct ==
    \A s \in Registered(heap[active]) :
        LET instances == heap[active].services[s].instances IN
        \A i, j \in DOMAIN instances : instances[i].address = instances[j].address => i = j

Published == {Boot} \cup {c \in Calls : pc[c] \in {"notifying", "done"}}

\* A snapshot that requests may have captured never changes, not even when a registration
\* fails half way (manager.go:149, snapshot.go:149-172).  A snapshot is one object here, so this
\* is about who writes to which; slices that two snapshots might share are not represented.
PublishedIsFrozen ==
    [][\A o \in Published : heap'[o] = heap[o]]_vars

\* What GET answers for a service, None for 404.
ConfigFor(s) == heap[active].services[s]

\* A call fails only because of its own argument and the routes other services own now: it
\* is never refused because some service of the snapshot would not pass validation, and an
\* instance that is registered can always be taken out (manager.go:117-127).  The status says
\* which: 404 exactly to the caller whose instance is not registered (api/config/handler.go:
\* 126-135).
FailsForOwnReason ==
    [][\A c \in Calls :
        (pc[c] \notin {"idle", "failed"} /\ pc'[c] = "failed") =>
            IF answer'[c] = 400
            THEN /\ op[c].kind = "register"
                 /\ \/ duplicate(op[c].endpoints)
                    \/ op[c].settings \notin AcceptedSettings
                    \/ \E s \in Services \ {op[c].service} : ConfigFor(s) # None /\
                        \E i \in DOMAIN op[c].endpoints, j \in DOMAIN ConfigFor(s).endpoints :
                            ConfigFor(s).endpoints[j].route = op[c].endpoints[i].route
            ELSE /\ answer'[c] = 404
                 /\ op[c].kind = "deregister"
                 /\ ~knows(heap[active], op[c].service, op[c].address)]_vars

\* The scheme of each instance, None where there is none.
ByAddress(instances) ==
    LET At(a) == {i \in DOMAIN instances : instances[i].address = a}
    IN [a \in Addresses |-> IF At(a) = {} THEN None ELSE instances[CHOOSE i \in At(a) : TRUE].scheme]

ServiceOf(service) ==
    IF service = None THEN None
    ELSE [settings |-> service.settings,
          endpoints |-> {service.endpoints[i] : i \in DOMAIN service.endpoints},
          instances |-> ByAddress(service.instances)]

\* The calls take effect one after the other, at the commit, none of them is lost and none
\* has a part of its effect only, as whoever asks for the configuration sees it.
Registry == INSTANCE ServiceRegistry WITH services <- [s \in Services |-> ServiceOf(ConfigFor(s))]
RegistrySpec == Registry!Spec
=============================================================================

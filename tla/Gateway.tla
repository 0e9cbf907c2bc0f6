------------------------------- MODULE Gateway -------------------------------
(***************************************************************************)
(* internal/gateway: the tasks the Orchestrator runs for a request, from   *)
(* its arrival to the handing over to the pool; with the Router and the    *)
(* LoadBalancer (internal/route/config) and the decoder (TokenDecoder).    *)
(*                                                                         *)
(* RouteTask captures the active snapshot once, and everything after is    *)
(* looked up in it, while newer snapshots are committed.  Two things are   *)
(* not in the snapshot: the cursor of a service, an atomic counter all its *)
(* requests advance, and the health status of its instances, which is read *)
(* anew for each instance and changes in between.                          *)
(*                                                                         *)
(* The request ID (TraceTask) is left out: it depends on nothing and       *)
(* nothing depends on it.                                                  *)
(***************************************************************************)
EXTENDS TokenDecoder, FiniteSets

CONSTANTS
    Requests,    \* goroutines, one request each
    Services,    \* normalized service names
    Methods,     \* normalized HTTP methods, "ALL" among them
    Paths,       \* paths a request may have
    Under,       \* the paths that start with the prefix of a wildcard path
    Instances,   \* normalized scheme, host and port
    Snapshots,   \* snapshots the manager may commit
    Asks,        \* method, path and token of the requests, None if none can be decoded
    MaxRevision, \* bound on the committed snapshots
    Times        \* what the clock may show

Wildcards == DOMAIN Under
Endpoint == [method : Methods, path : Paths, roles : SUBSET Roles]
Service ==
    [auth : AuthSettings, endpoints : (SUBSET Endpoint) \ {{}}, instances : Seq(Instances)]
RouteKey == [method : Methods, path : Paths]
RouteEntry == [service : Services, method : Methods, path : Paths, roles : SUBSET Roles]
Snapshot ==
    [services : [Services -> Service \cup {None}],
     routes : [RouteKey -> RouteEntry \cup {None}], wildcards : Seq(RouteEntry)]

Registered(snap) == {s \in Services : snap.services[s] # None}

\* The entries of the registered services.
EntriesOf(snap) ==
    UNION {{[service |-> s, method |-> e.method, path |-> e.path, roles |-> e.roles] :
                e \in snap.services[s].endpoints} : s \in Registered(snap)}

\* What ConfigManager guarantees of every snapshot it commits (RoutesIndexServices,
\* WildcardsIndexRoutes, AddressesAreDistinct and the validators).
Committable(snap) ==
    /\ {snap.routes[k] : k \in RouteKey} \ {None} = EntriesOf(snap)
    /\ \A k \in RouteKey :
        snap.routes[k] # None => k = [method |-> snap.routes[k].method, path |-> snap.routes[k].path]
    /\ {snap.wildcards[i] : i \in DOMAIN snap.wildcards} = {e \in EntriesOf(snap) : e.path \in Wildcards}
    /\ \A s \in Registered(snap) :
        /\ authValid(snap.services[s].auth)
        /\ LET instances == snap.services[s].instances IN
           \A i, j \in DOMAIN instances : instances[i] = instances[j] => i = j

\* The instances that may be targets of health checks, each with its service.
HealthKeys ==
    {key \in Services \X Instances : \E snap \in Snapshots :
        /\ key[1] \in Registered(snap)
        /\ \E i \in DOMAIN snap.services[key[1]].instances : snap.services[key[1]].instances[i] = key[2]}

Ask == [method : Methods, path : Paths, authorization : Token \cup {None}]

ASSUME RequestsFinite == IsFiniteSet(Requests)
ASSUME MethodsIncludeAll == "ALL" \in Methods
ASSUME WildcardsCoverThemselves == \A w \in Wildcards : w \in Under[w]
ASSUME SnapshotsAreCommittable == Snapshots \subseteq Snapshot /\ \A snap \in Snapshots : Committable(snap)
ASSUME AsksAreNormalized == Asks \subseteq Ask
ASSUME TimesAreNumbers == Times \subseteq Nat
ASSUME NoneIsNoValue ==
    /\ None \notin RouteEntry /\ None \notin Service /\ None \notin Instances
    /\ None \notin Ask /\ None \notin Token /\ None \notin Nat

VARIABLES
    published, \* the snapshots committed so far
    unhealthy, \* the health keys (service and instance) whose record says unhealthy
    cursors,   \* LoadBalancer.cursors
    pc,        \* where each request stands
    asked,     \* what it asks for
    captured,  \* State.Settings, as a revision
    entry,     \* State.Route
    ticket,    \* the index NextInstance has drawn
    offset,    \* instances it has found unroutable
    instance,  \* State.Route.Instance
    checkedAt, \* the time its token was checked (history)
    steady     \* instances that were routable ever since it drew its index (history)

envVars == <<published, unhealthy>>
historyVars == <<checkedAt, steady>>
vars == <<published, unhealthy, cursors, pc, asked, captured, entry, ticket, offset,
          instance, checkedAt, steady>>

Refused == {"not_found", "unavailable", "unauthorized", "forbidden"}

TypeOK ==
    /\ published \in Seq(Snapshots) /\ published # <<>>
    /\ unhealthy \subseteq HealthKeys
    /\ cursors \in [Services -> Nat]
    /\ pc \in [Requests -> {"new", "captured", "probing", "routed", "authenticated", "forwarded"}
                           \cup Refused]
    /\ asked \in [Requests -> Asks \cup {None}]
    /\ captured \in [Requests -> Nat]
    /\ entry \in [Requests -> RouteEntry \cup {None}]
    /\ ticket \in [Requests -> Nat]
    /\ offset \in [Requests -> Nat]
    /\ instance \in [Requests -> Instances \cup {None}]
    /\ checkedAt \in [Requests -> Times \cup {0}]
    /\ steady \in [Requests -> SUBSET Instances]

Init ==
    /\ published \in {<<snap>> : snap \in Snapshots}
    /\ unhealthy = {}
    /\ cursors = [s \in Services |-> 0]
    /\ pc = [r \in Requests |-> "new"]
    /\ asked = [r \in Requests |-> None]
    /\ captured = [r \in Requests |-> 0]
    /\ entry = [r \in Requests |-> None]
    /\ ticket = [r \in Requests |-> 0]
    /\ offset = [r \in Requests |-> 0]
    /\ instance = [r \in Requests |-> None]
    /\ checkedAt = [r \in Requests |-> 0]
    /\ steady = [r \in Requests |-> {}]

Goes(r, from, to) == pc[r] = from /\ pc' = [pc EXCEPT ![r] = to]

-----------------------------------------------------------------------------
(* Around the requests                                                     *)

\* Manager.Register or DeregisterInstance commits.
Commit(snap) ==
    /\ Len(published) < MaxRevision
    /\ published' = Append(published, snap)
    /\ UNCHANGED <<unhealthy, cursors, pc, asked, captured, entry, ticket, offset, instance, historyVars>>

\* A check of an instance changes its record, or the record is deleted with its target.
HealthChanges(s, i) ==
    /\ unhealthy' = IF <<s, i>> \in unhealthy THEN unhealthy \ {<<s, i>>} ELSE unhealthy \cup {<<s, i>>}
    /\ steady' = [r \in Requests |->
                    IF pc[r] = "probing" /\ entry[r].service = s THEN steady[r] \ {i} ELSE steady[r]]
    /\ UNCHANGED <<published, cursors, pc, asked, captured, entry, ticket, offset, instance,
                   checkedAt>>

-----------------------------------------------------------------------------
(* RouteTask                                                               *)

\* Orchestrator.Receive, and the one look at the active snapshot.
Capture(r, ask) ==
    /\ Goes(r, "new", "captured")
    /\ asked' = [asked EXCEPT ![r] = ask]
    /\ captured' = [captured EXCEPT ![r] = Len(published)]
    /\ UNCHANGED <<envVars, cursors, entry, ticket, offset, instance, historyVars>>

Snap(r) == published[captured[r]]

\* Mutant: the wildcard routes are looked at before the routes for all methods.
routeForWildFirst(snap, method, path) ==
    LET at(m) == snap.routes[[method |-> m, path |-> path]]
        matching == {i \in DOMAIN snap.wildcards :
            snap.wildcards[i].method \in {method, "ALL"} /\ path \in Under[snap.wildcards[i].path]}
    IN IF at(method) # None /\ path \notin Wildcards THEN at(method)
       ELSE IF matching # {} THEN snap.wildcards[CHOOSE i \in matching : \A j \in matching : i <= j]
       ELSE IF path \notin Wildcards THEN at("ALL") ELSE None

\* Router.RouteFor: the route of the method, the route of all methods, then the first
\* wildcard route that matches.
routeFor(snap, method, path) ==
    LET at(m) == snap.routes[[method |-> m, path |-> path]]
        matching == {i \in DOMAIN snap.wildcards :
            snap.wildcards[i].method \in {method, "ALL"} /\ path \in Under[snap.wildcards[i].path]}
    IN IF at(method) # None /\ path \notin Wildcards THEN at(method)
       ELSE IF at("ALL") # None /\ path \notin Wildcards THEN at("ALL")
       ELSE IF matching # {} THEN snap.wildcards[CHOOSE i \in matching : \A j \in matching : i <= j]
       ELSE None

RouteOf(r) == routeFor(Snap(r), asked[r].method, asked[r].path)
InstancesOf(r, s) == Snap(r).services[s].instances

RefuseUnknown(r) ==
    /\ Goes(r, "captured", "not_found")
    /\ RouteOf(r) = None
    /\ UNCHANGED <<envVars, cursors, asked, captured, entry, ticket, offset, instance, historyVars>>

RefuseEmpty(r) ==
    /\ Goes(r, "captured", "unavailable")
    /\ RouteOf(r) # None
    /\ InstancesOf(r, RouteOf(r).service) = <<>>
    /\ UNCHANGED <<envVars, cursors, asked, captured, entry, ticket, offset, instance, historyVars>>

\* Mutant: Load and Store instead of Add: requests draw the index of one that is under way.
DrawSame(r) ==
    LET s == RouteOf(r).service
        list == InstancesOf(r, s)
        late == IF \E q \in Requests : pc[q] = "probing" /\ entry[q].service = s THEN 1 ELSE 0
    IN
    /\ Goes(r, "captured", "probing")
    /\ RouteOf(r) # None
    /\ list # <<>>
    /\ entry' = [entry EXCEPT ![r] = RouteOf(r)]
    /\ ticket' = [ticket EXCEPT ![r] = cursors[s] - late]
    /\ cursors' = [cursors EXCEPT ![s] = @ + 1 - late]
    /\ steady' = [steady EXCEPT ![r] = {list[i] : i \in DOMAIN list} \ {i \in Instances : <<s, i>> \in unhealthy}]
    /\ UNCHANGED <<envVars, asked, captured, offset, instance, checkedAt>>

\* NextInstance draws an index: one atomic add.
Draw(r) ==
    LET s == RouteOf(r).service
        list == InstancesOf(r, s)
    IN
    /\ Goes(r, "captured", "probing")
    /\ RouteOf(r) # None
    /\ list # <<>>
    /\ entry' = [entry EXCEPT ![r] = RouteOf(r)]
    /\ ticket' = [ticket EXCEPT ![r] = cursors[s]]
    /\ cursors' = [cursors EXCEPT ![s] = @ + 1]
    /\ steady' = [steady EXCEPT ![r] = {list[i] : i \in DOMAIN list} \ {i \in Instances : <<s, i>> \in unhealthy}]
    /\ UNCHANGED <<envVars, asked, captured, offset, instance, checkedAt>>

\* The instance NextInstance looks at.
Candidate(r) ==
    LET list == InstancesOf(r, entry[r].service)
    IN list[((ticket[r] + offset[r]) % Len(list)) + 1]

\* The store is read for one instance at a time.
Choose(r) ==
    /\ Goes(r, "probing", "routed")
    /\ offset[r] < Len(InstancesOf(r, entry[r].service))
    /\ <<entry[r].service, Candidate(r)>> \notin unhealthy
    /\ instance' = [instance EXCEPT ![r] = Candidate(r)]
    /\ steady' = [steady EXCEPT ![r] = {}]
    /\ UNCHANGED <<envVars, cursors, asked, captured, entry, ticket, offset, checkedAt>>

\* Mutant: the last instance is given up without a look.
SkipTwo(r) ==
    /\ pc[r] = "probing"
    /\ <<entry[r].service, Candidate(r)>> \in unhealthy
    /\ offset' = [offset EXCEPT ![r] = IF @ + 2 = Len(InstancesOf(r, entry[r].service)) THEN @ + 2 ELSE @ + 1]
    /\ UNCHANGED <<envVars, cursors, pc, asked, captured, entry, ticket, instance, historyVars>>

Skip(r) ==
    /\ pc[r] = "probing"
    /\ offset[r] < Len(InstancesOf(r, entry[r].service))
    /\ <<entry[r].service, Candidate(r)>> \in unhealthy
    /\ offset' = [offset EXCEPT ![r] = @ + 1]
    /\ UNCHANGED <<envVars, cursors, pc, asked, captured, entry, ticket, instance, historyVars>>

RefuseDown(r) ==
    /\ Goes(r, "probing", "unavailable")
    /\ offset[r] = Len(InstancesOf(r, entry[r].service))
    /\ UNCHANGED <<envVars, cursors, asked, captured, entry, ticket, offset, instance, historyVars>>

-----------------------------------------------------------------------------
(* AuthenticateTask, AuthorizeTask, TransferTask                           *)

Restricted(r) == entry[r].roles # {}

\* Mutant: the settings of the active snapshot are used.
AuthOfActive(r) ==
    LET services == published[Len(published)].services
        s == entry[r].service
    IN IF services[s] # None THEN services[s].auth ELSE Snap(r).services[s].auth

\* The settings the token is checked with.
AuthOf(r) == Snap(r).services[entry[r].service].auth

Accepts(r, now) ==
    /\ asked[r].authorization # None
    /\ decodes(AuthOf(r), asked[r].authorization, now)

\* A route without roles needs no token and looks at none.  The clock is read once for a
\* request, and by nothing else here: it may show anything.
Authenticate(r, now) ==
    /\ Goes(r, "routed", "authenticated")
    /\ Restricted(r) => Accepts(r, now)
    /\ checkedAt' = [checkedAt EXCEPT ![r] = now]
    /\ UNCHANGED <<envVars, cursors, asked, captured, entry, ticket, offset, instance, steady>>

RefuseToken(r, now) ==
    /\ Goes(r, "routed", "unauthorized")
    /\ Restricted(r)
    /\ ~Accepts(r, now)
    /\ checkedAt' = [checkedAt EXCEPT ![r] = now]
    /\ UNCHANGED <<envVars, cursors, asked, captured, entry, ticket, offset, instance, steady>>

\* Mutant: all roles of the token have to be allowed.
checkRoleAll(roles, allowed) == roles \subseteq allowed

checkRole(roles, allowed) == roles \cap allowed # {}

\* AuthorizeTask; TransferTask hands the request on with the captured snapshot (PoolRuntime).
Authorize(r) ==
    /\ Goes(r, "authenticated", "forwarded")
    /\ Restricted(r) => checkRole(asked[r].authorization.roles, entry[r].roles)
    /\ UNCHANGED <<envVars, cursors, asked, captured, entry, ticket, offset, instance, historyVars>>

RefuseRoles(r) ==
    /\ Goes(r, "authenticated", "forbidden")
    /\ Restricted(r)
    /\ ~checkRole(asked[r].authorization.roles, entry[r].roles)
    /\ UNCHANGED <<envVars, cursors, asked, captured, entry, ticket, offset, instance, historyVars>>

-----------------------------------------------------------------------------

Next ==
    \/ \E snap \in Snapshots : Commit(snap)
    \/ \E key \in HealthKeys : HealthChanges(key[1], key[2])
    \/ \E r \in Requests :
        \/ \E ask \in Asks : Capture(r, ask)
        \/ RefuseUnknown(r) \/ RefuseEmpty(r) \/ Draw(r)
        \/ Choose(r) \/ Skip(r) \/ RefuseDown(r)
        \/ \E now \in Times : Authenticate(r, now) \/ RefuseToken(r, now)
        \/ Authorize(r) \/ RefuseRoles(r)

Spec == Init /\ [][Next]_vars

-----------------------------------------------------------------------------
(* Properties                                                              *)

\* A request that is forwarded was entitled to it by one snapshot, which was the active one at
\* some time since it arrived: the instance is of the service whose route it asked for, and
\* the token is genuine and has a role, by the same settings, however often they changed
\* since (route.go:58-60; TestGatewayAuthenticateUsesCapturedSnapshotAfterConfigCommit).  The
\* dates of a token are compared with the clock one by one (decoder.go:248-265), so that is all
\* there is to say of one whose dates contradict each other.
ForwardedIsEntitled ==
    \A r \in Requests : pc[r] = "forwarded" =>
        \E v \in captured[r]..Len(published) :
            LET token == asked[r].authorization
                service == published[v].services[entry[r].service]
            IN /\ entry[r] \in EntriesOf(published[v])
               /\ \E i \in DOMAIN service.instances : service.instances[i] = instance[r]
               /\ entry[r].roles # {} =>
                    /\ token # None
                    /\ MadeFor(service.auth, token)
                    /\ HoldsAround(token, checkedAt[r], service.auth.skew) \/ Contradictory(token)
                    /\ token.roles \cap entry[r].roles # {}

\* The entries of a snapshot that match, and how closely.
Matching(snap, method, path) ==
    {e \in EntriesOf(snap) :
        /\ e.method \in {method, "ALL"}
        /\ IF e.path \in Wildcards THEN path \in Under[e.path] ELSE path = e.path}

Closeness(e) == IF e.path \in Wildcards THEN 0 ELSE IF e.method = "ALL" THEN 1 ELSE 2

\* A request goes to a route that matches it most closely, and is only refused if no endpoint
\* of any registered service matches, though two indexes are asked (router.go:31-43).
RoutedMostClosely ==
    \A r \in Requests : pc[r] # "new" =>
        LET matching == Matching(Snap(r), asked[r].method, asked[r].path) IN
        /\ pc[r] = "not_found" => matching = {}
        /\ entry[r] # None =>
            /\ entry[r] \in matching
            /\ \A e \in matching : Closeness(e) <= Closeness(entry[r])

\* A service with an instance that stays routable while NextInstance looks refuses nobody,
\* whatever becomes of the others meanwhile (load_balancer.go:64-73).
RefusedOnlyIfAllDown ==
    \A r \in Requests : pc[r] = "unavailable" => steady[r] = {}

\* Requests to a service whose instances are all found up are spread evenly, though they draw
\* and choose at the same time and for different routes (load_balancer.go:62-66).
EvenShare ==
    \A s \in Services :
        LET served == {r \in Requests : entry[r] # None /\ entry[r].service = s}
            chose(i) == {r \in served : instance[r] = i}
        IN (\A r \in served : instance[r] # None /\ offset[r] = 0)
            => \A r \in served : \A i, j \in {InstancesOf(r, s)[n] : n \in DOMAIN InstancesOf(r, s)} :
                  (\A q \in served : InstancesOf(q, s) = InstancesOf(r, s))
                      => Cardinality(chose(i)) - Cardinality(chose(j)) <= 1

\* No request with a genuine token that has an allowed role is turned away (decoder.go:188-222,
\* 231-268, authorize.go:78-94).
EntitledIsNotRefused ==
    \A r \in Requests : pc[r] \in {"unauthorized", "forbidden"} =>
        LET token == asked[r].authorization IN
        \/ token = None
        \/ ~Genuine(AuthOf(r), token, checkedAt[r])
        \/ token.roles \cap entry[r].roles = {}
=============================================================================

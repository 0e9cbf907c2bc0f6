------------------------- MODULE ConfigManagerProofs -------------------------
(***************************************************************************)
(* Proofs about ConfigManager: for any number of calls, services, routes   *)
(* and instances, and that it implements ServiceRegistry.                  *)
(***************************************************************************)
EXTENDS ConfigManager, FunctionTheorems, FiniteSetTheorems, SequenceTheorems, TLAPS

-----------------------------------------------------------------------------
(* Select                                                                  *)

Rank(P, i) == Cardinality({j \in P : j < i})

\* Every position below Cardinality(P) is the rank of exactly one element of P.
LEMMA RanksCount ==
  ASSUME NEW m \in Nat, NEW P \in SUBSET (1..m)
  PROVE  /\ IsFiniteSet(P) /\ Cardinality(P) \in Nat
         /\ \A i, j \in P : Rank(P, i) = Rank(P, j) => i = j
         /\ \A n \in 1..Cardinality(P) : \E i \in P : Rank(P, i) = n - 1
         /\ \A i \in P : Rank(P, i) \in Nat /\ Rank(P, i) + 1 \in 1..Cardinality(P)
<1> DEFINE Below(i) == {j \in P : j < i}
           rank == [i \in P |-> Cardinality(Below(i))]
<1>1. IsFiniteSet(1..m)
  BY FS_Interval
<1>2. IsFiniteSet(P) /\ Cardinality(P) \in Nat
  BY <1>1, FS_Subset, FS_CardinalityType
<1>3. ASSUME NEW i \in P
      PROVE  IsFiniteSet(Below(i)) /\ Cardinality(Below(i)) \in Nat /\ Cardinality(Below(i)) < Cardinality(P)
  <2>1. Below(i) \in SUBSET P /\ i \notin Below(i)
    OBVIOUS
  <2> HIDE DEF Below
  <2>2. /\ IsFiniteSet(Below(i)) /\ Cardinality(Below(i)) <= Cardinality(P)
        /\ Cardinality(P) = Cardinality(Below(i)) => P = Below(i)
    BY <1>2, <2>1, FS_Subset
  <2>3. Cardinality(Below(i)) \in Nat
    BY <2>2, FS_CardinalityType
  <2>4. QED
    BY <1>2, <2>1, <2>2, <2>3
<1>4. ASSUME NEW i \in P, NEW j \in P, i < j
      PROVE  Cardinality(Below(i)) < Cardinality(Below(j))
  <2>1. i \in Nat /\ j \in Nat /\ \A k \in P : k \in Nat
    OBVIOUS
  <2>2. Below(i) \in SUBSET Below(j) /\ i \in Below(j) /\ i \notin Below(i)
    <3>1. \A k \in P : k < i => k < j
      BY <1>4, <2>1
    <3>2. ~(i < i)
      BY <2>1
    <3>3. QED
      BY <1>4, <3>1, <3>2
  <2> HIDE DEF Below
  <2>3. IsFiniteSet(Below(j)) /\ Cardinality(Below(j)) \in Nat /\ Cardinality(Below(i)) \in Nat
    BY <1>3
  <2>4. /\ Cardinality(Below(i)) <= Cardinality(Below(j))
        /\ Cardinality(Below(j)) = Cardinality(Below(i)) => Below(j) = Below(i)
    BY <2>2, <2>3, FS_Subset
  <2>5. QED
    BY <2>2, <2>3, <2>4
<1> HIDE DEF Below
<1>5. \A i, j \in P : rank[i] = rank[j] => i = j
  <2> SUFFICES ASSUME NEW i \in P, NEW j \in P, i # j PROVE rank[i] # rank[j]
    OBVIOUS
  <2>1. i \in Nat /\ j \in Nat /\ (i < j \/ j < i)
    OBVIOUS
  <2>2. QED
    BY <1>3, <1>4, <2>1
<1>6. rank \in [P -> 0..(Cardinality(P) - 1)]
  BY <1>2, <1>3
<1>7. rank \in Injection(P, 0..(Cardinality(P) - 1))
  <2> HIDE DEF rank
  <2>1. QED
    BY <1>5, <1>6, Fun_IsInj
<1>8. IsFiniteSet(0..(Cardinality(P) - 1)) /\ Cardinality(0..(Cardinality(P) - 1)) = Cardinality(P)
  BY <1>2, FS_Interval
<1>9. rank \in Surjection(P, 0..(Cardinality(P) - 1))
  <2> HIDE DEF rank
  <2>1. QED
    BY <1>7, <1>8, FS_Injection
<1>10. \A n \in 0..(Cardinality(P) - 1) : \E i \in P : rank[i] = n
  <2> HIDE DEF rank
  <2>1. QED
    BY <1>9 DEF Surjection
<1>11. \A i \in P : rank[i] = Rank(P, i)
  BY DEF Rank, Below
<1> HIDE DEF rank
<1>12. \A n \in 1..Cardinality(P) : \E i \in P : Rank(P, i) = n - 1
  <2> SUFFICES ASSUME NEW n \in 1..Cardinality(P) PROVE \E i \in P : Rank(P, i) = n - 1
    OBVIOUS
  <2>1. n - 1 \in 0..(Cardinality(P) - 1)
    BY <1>2
  <2>2. QED
    BY <1>10, <1>11, <2>1
<1>13. \A i \in P : Rank(P, i) \in Nat /\ Rank(P, i) + 1 \in 1..Cardinality(P)
  <2> SUFFICES ASSUME NEW i \in P PROVE Rank(P, i) \in Nat /\ Rank(P, i) + 1 \in 1..Cardinality(P)
    OBVIOUS
  <2>1. Rank(P, i) \in 0..(Cardinality(P) - 1)
    BY <1>6, <1>11
  <2>2. QED
    BY <1>2, <2>1
<1>14. QED
  BY <1>2, <1>5, <1>11, <1>12, <1>13

\* Select takes every chosen position once.
LEMMA SelectProperties ==
  ASSUME NEW S, NEW list \in Seq(S), NEW P \in SUBSET DOMAIN list
  PROVE  LET sel == Select(list, P) IN
         /\ sel \in Seq(S)
         /\ \E nth \in [DOMAIN sel -> P] :
                /\ \A n \in DOMAIN sel : sel[n] = list[nth[n]]
                /\ \A m, n \in DOMAIN sel : nth[m] = nth[n] => m = n
                /\ \A i \in P : \E n \in DOMAIN sel : nth[n] = i
<1> DEFINE c == Cardinality(P)
           nth == [n \in 1..c |-> CHOOSE i \in P : Rank(P, i) = n - 1]
           sel == Select(list, P)
<1>1. Len(list) \in Nat /\ DOMAIN list = 1..Len(list) /\ P \in SUBSET (1..Len(list))
  OBVIOUS
<1>2. /\ c \in Nat
      /\ \A i, j \in P : Rank(P, i) = Rank(P, j) => i = j
      /\ \A n \in 1..c : \E i \in P : Rank(P, i) = n - 1
      /\ \A i \in P : Rank(P, i) \in Nat /\ Rank(P, i) + 1 \in 1..c
  BY <1>1, RanksCount
<1>3. sel = [n \in 1..c |-> list[CHOOSE i \in P : Rank(P, i) = n - 1]]
  BY DEF Select, Rank
<1> HIDE DEF c, sel
<1>4. \A n \in 1..c : nth[n] \in P /\ Rank(P, nth[n]) = n - 1 /\ sel[n] = list[nth[n]]
  BY <1>2, <1>3
<1>5. sel \in Seq(S) /\ DOMAIN sel = 1..c
  <2>1. \A n \in 1..c : sel[n] \in S
    BY <1>1, <1>4
  <2>2. sel \in [1..c -> S]
    BY <1>3, <2>1
  <2>3. QED
    BY <1>2, <2>2
<1> HIDE DEF nth
<1>6. nth \in [DOMAIN sel -> P]
  BY <1>4, <1>5 DEF nth
<1>7. \A m, n \in 1..c : nth[m] = nth[n] => m = n
  <2> SUFFICES ASSUME NEW m \in 1..c, NEW n \in 1..c, nth[m] = nth[n] PROVE m = n
    OBVIOUS
  <2>1. m - 1 = n - 1
    BY <1>4
  <2>2. QED
    BY <1>2, <2>1
<1>8. \A i \in P : \E n \in 1..c : nth[n] = i
  <2> SUFFICES ASSUME NEW i \in P PROVE \E n \in 1..c : nth[n] = i
    OBVIOUS
  <2> DEFINE n == Rank(P, i) + 1
  <2>1. n \in 1..c /\ Rank(P, i) \in Int
    BY <1>2
  <2>2. Rank(P, nth[n]) = Rank(P, i) /\ nth[n] \in P
    BY <1>4, <2>1
  <2>3. nth[n] = i
    BY <1>2, <2>2
  <2>4. QED
    BY <2>1, <2>3
<1>9. /\ \A n \in DOMAIN sel : sel[n] = list[nth[n]]
      /\ \A m, n \in DOMAIN sel : nth[m] = nth[n] => m = n
      /\ \A i \in P : \E n \in DOMAIN sel : nth[n] = i
  BY <1>4, <1>5, <1>7, <1>8
<1>10. QED
  BY <1>5, <1>6, <1>9 DEF sel

-----------------------------------------------------------------------------
(* What the builder keeps                                                  *)

\* A route of the exact index is an endpoint of the service it names, and the other way round.
Indexed(snap) ==
    /\ \A rt \in Routes : snap.routes[rt] # None => snap.routes[rt].route = rt
    /\ \A rt \in Routes, s \in Services, roles \in RoleSets :
        (snap.routes[rt] = [service |-> s, route |-> rt, roles |-> roles])
            <=> /\ s \in Registered(snap)
                /\ \E i \in DOMAIN snap.services[s].endpoints :
                        snap.services[s].endpoints[i] = [route |-> rt, roles |-> roles]

\* The wildcard slice lists the wildcard routes of the exact index once.
Listed(snap) ==
    LET wildcards == snap.wildcards IN
    /\ \A i \in DOMAIN wildcards :
        wildcards[i].route \in Wildcards /\ snap.routes[wildcards[i].route] = wildcards[i]
    /\ \A rt \in Wildcards : snap.routes[rt] # None =>
        \E i \in DOMAIN wildcards : wildcards[i] = snap.routes[rt]
    /\ \A i, j \in DOMAIN wildcards : wildcards[i] = wildcards[j] => i = j

DistinctIn(instances) ==
    \A i, j \in DOMAIN instances : instances[i].address = instances[j].address => i = j

Distinct(snap) == \A s \in Registered(snap) : DistinctIn(snap.services[s].instances)

Sound(snap) == snap \in Snapshot /\ Indexed(snap) /\ Listed(snap) /\ Distinct(snap)

\* The snapshot NewManager begins with.
LEMMA EmptyIsSound == Sound(EmptySnapshot) /\ settingsValid(EmptySnapshot)
<1> DEFINE e == EmptySnapshot
<1>1. /\ e.services = [s \in Services |-> None] /\ e.routes = [rt \in Routes |-> None]
      /\ e.wildcards = <<>> /\ e \in Snapshot
  BY DEF EmptySnapshot, Snapshot
<1>2. Registered(e) = {}
  BY <1>1 DEF Registered
<1>3. \A rt \in Routes : e.routes[rt] = None
  BY <1>1
<1>4. \A rt \in Routes, s \in Services, roles \in RoleSets :
        None # [service |-> s, route |-> rt, roles |-> roles]
  BY NoneIsNoValue DEF RouteEntry
<1> HIDE DEF e
<1>5. Indexed(e)
  BY <1>2, <1>3, <1>4 DEF Indexed
<1>6. Listed(e)
  BY <1>1, <1>3, WildcardsAreRoutes DEF Listed
<1>7. Distinct(e) /\ settingsValid(e)
  BY <1>2 DEF Distinct, settingsValid
<1>8. QED
  BY <1>1, <1>5, <1>6, <1>7 DEF Sound, e

\* The first half of replaceService and of a registration that is refused for a route.
LEMMA RemovedRoutes ==
  ASSUME NEW snap \in Snapshot, NEW s \in Services
  PROVE  LET out == removeServiceRoutes(snap, s) IN
         /\ out \in Snapshot
         /\ out.services = snap.services /\ out.revision = snap.revision
         /\ \A rt \in Routes :
                out.routes[rt] = IF snap.routes[rt] = None \/ snap.routes[rt].service # s
                                 THEN snap.routes[rt] ELSE None
         /\ out.wildcards = Select(snap.wildcards, {i \in DOMAIN snap.wildcards : snap.wildcards[i].service # s})
<1> DEFINE out == removeServiceRoutes(snap, s)
           kept == Select(snap.wildcards, {i \in DOMAIN snap.wildcards : snap.wildcards[i].service # s})
           routes == [rt \in Routes |->
                        IF snap.routes[rt] = None \/ taken(snap, s, rt) THEN snap.routes[rt] ELSE None]
<1>1. kept \in Seq(RouteEntry)
  <2>1. snap.wildcards \in Seq(RouteEntry)
    BY DEF Snapshot
  <2>2. {i \in DOMAIN snap.wildcards : snap.wildcards[i].service # s} \in SUBSET DOMAIN snap.wildcards
    OBVIOUS
  <2>3. QED
    BY <2>1, <2>2, SelectProperties
<1>2. routes \in [Routes -> RouteEntry \cup {None}]
  BY DEF Snapshot
<1>3. out = [snap EXCEPT !.routes = routes, !.wildcards = kept]
  BY DEF removeServiceRoutes
<1>4. \A rt \in Routes : routes[rt] = IF snap.routes[rt] = None \/ snap.routes[rt].service # s
                                      THEN snap.routes[rt] ELSE None
  BY DEF taken
<1> HIDE DEF out, kept, routes
<1>5. /\ out \in Snapshot /\ out.services = snap.services /\ out.revision = snap.revision
      /\ out.routes = routes /\ out.wildcards = kept
  BY <1>1, <1>2, <1>3 DEF Snapshot
<1>6. QED
  BY <1>4, <1>5 DEF out, kept

\* The second half, for any beginning of the list of endpoints.
LEMMA AddedRoutes ==
  ASSUME NEW snap \in Snapshot, NEW s \in Services, NEW endpoints \in Seq(Endpoint)
  PROVE  LET out == addServiceRoutes(snap, s, endpoints)
             new == entries(s, endpoints)
             wild == {i \in DOMAIN new : new[i].route \in Wildcards}
         IN
         /\ out \in Snapshot
         /\ out.services = snap.services /\ out.revision = snap.revision
         /\ \A rt \in Routes :
                \/ /\ \A i \in DOMAIN endpoints : endpoints[i].route # rt
                   /\ out.routes[rt] = snap.routes[rt]
                \/ \E i \in DOMAIN endpoints : endpoints[i].route = rt /\ out.routes[rt] = new[i]
         /\ new \in Seq(RouteEntry) /\ DOMAIN new = DOMAIN endpoints
         /\ wild \in SUBSET DOMAIN new
         /\ out.wildcards = snap.wildcards \o Select(new, wild)
<1> DEFINE out == addServiceRoutes(snap, s, endpoints)
           new == entries(s, endpoints)
           wild == {i \in DOMAIN new : new[i].route \in Wildcards}
           routes == [rt \in Routes |->
                        IF \E i \in DOMAIN new : new[i].route = rt
                        THEN new[CHOOSE i \in DOMAIN new : new[i].route = rt]
                        ELSE snap.routes[rt]]
<1>1. /\ DOMAIN new = DOMAIN endpoints /\ new \in Seq(RouteEntry)
      /\ \A i \in DOMAIN endpoints : new[i].route = endpoints[i].route
  <2>1. /\ Len(endpoints) \in Nat /\ DOMAIN endpoints = 1..Len(endpoints)
        /\ \A i \in DOMAIN endpoints : endpoints[i] \in Endpoint
    OBVIOUS
  <2>2. \A i \in DOMAIN endpoints : new[i] \in RouteEntry /\ new[i].route = endpoints[i].route
    BY <2>1 DEF entries, RouteEntry, Endpoint
  <2>3. new \in [1..Len(endpoints) -> RouteEntry]
    BY <2>1, <2>2 DEF entries
  <2> HIDE DEF new
  <2>4. QED
    BY <2>1, <2>2, <2>3
<1>2. out = [snap EXCEPT !.routes = routes, !.wildcards = snap.wildcards \o Select(new, wild)]
  BY DEF addServiceRoutes
<1> HIDE DEF new
<1>3. Select(new, wild) \in Seq(RouteEntry) /\ wild \in SUBSET DOMAIN new
  BY <1>1, SelectProperties
<1> HIDE DEF wild
<1>4. snap.wildcards \o Select(new, wild) \in Seq(RouteEntry)
  <2>1. snap.wildcards \in Seq(RouteEntry)
    BY DEF Snapshot
  <2>2. QED
    BY <1>3, <2>1, ConcatProperties
<1>5. \A rt \in Routes :
        \/ /\ \A i \in DOMAIN endpoints : endpoints[i].route # rt
           /\ routes[rt] = snap.routes[rt]
        \/ \E i \in DOMAIN endpoints : endpoints[i].route = rt /\ routes[rt] = new[i]
  <2> SUFFICES ASSUME NEW rt \in Routes, NEW k \in DOMAIN endpoints, endpoints[k].route = rt
               PROVE  \E i \in DOMAIN endpoints : endpoints[i].route = rt /\ routes[rt] = new[i]
    BY <1>1
  <2> DEFINE i == CHOOSE i \in DOMAIN new : new[i].route = rt
  <2>1. i \in DOMAIN endpoints /\ endpoints[i].route = rt
    BY <1>1
  <2>2. routes[rt] = new[i]
    BY <1>1
  <2>3. QED
    BY <2>1, <2>2
<1>6. routes \in [Routes -> RouteEntry \cup {None}]
  <2> SUFFICES ASSUME NEW rt \in Routes PROVE routes[rt] \in RouteEntry \cup {None}
    OBVIOUS
  <2>1. snap.routes[rt] \in RouteEntry \cup {None}
    BY DEF Snapshot
  <2>2. \A i \in DOMAIN endpoints : new[i] \in RouteEntry
    BY <1>1
  <2> HIDE DEF routes
  <2>3. QED
    BY <1>5, <2>1, <2>2
<1> HIDE DEF out, routes
<1>7. /\ out \in Snapshot /\ out.services = snap.services /\ out.revision = snap.revision
      /\ out.routes = routes /\ out.wildcards = snap.wildcards \o Select(new, wild)
  BY <1>2, <1>4, <1>6 DEF Snapshot
<1>8. QED
  BY <1>1, <1>3, <1>5, <1>7 DEF out, new, wild

\* The loop replaces the instance at the address, or there is none and it is appended.
LEMMA UpsertKeepsDistinct ==
  ASSUME NEW instances \in Seq(Instance), DistinctIn(instances), NEW next \in Instance
  PROVE  LET out == upsertInstanceSettings(instances, next)
         IN out \in Seq(Instance) /\ DistinctIn(out)
<1> DEFINE known == \E i \in DOMAIN instances : instances[i].address = next.address
           updated == [i \in DOMAIN instances |->
                        IF instances[i].address = next.address THEN next ELSE instances[i]]
<1>1. Len(instances) \in Nat /\ DOMAIN instances = 1..Len(instances)
  OBVIOUS
<1>2. CASE known
  <2>1. upsertInstanceSettings(instances, next) = updated
    BY <1>2 DEF upsertInstanceSettings
  <2>2. /\ updated \in [1..Len(instances) -> Instance]
        /\ \A i \in DOMAIN instances : updated[i].address = instances[i].address
    BY <1>1
  <2> HIDE DEF updated
  <2>3. updated \in Seq(Instance) /\ DOMAIN updated = DOMAIN instances
    BY <1>1, <2>2
  <2>4. QED
    BY <2>1, <2>2, <2>3 DEF DistinctIn
<1>3. CASE ~known
  <2> DEFINE out == Append(instances, next)
  <2>1. upsertInstanceSettings(instances, next) = out
    BY <1>3 DEF upsertInstanceSettings
  <2>2. /\ out \in Seq(Instance) /\ DOMAIN out = 1..(Len(instances) + 1)
        /\ \A i \in 1..Len(instances) : out[i] = instances[i]
        /\ out[Len(instances) + 1] = next
    BY <1>1
  <2> HIDE DEF out
  <2>3. \A i \in DOMAIN out : i \in 1..Len(instances) \/ i = Len(instances) + 1
    BY <1>1, <2>2
  <2>4. \A i \in 1..Len(instances) : out[i].address # next.address
    BY <1>1, <1>3, <2>2
  <2>5. DistinctIn(out)
    BY <1>1, <2>2, <2>3, <2>4 DEF DistinctIn
  <2>6. QED
    BY <2>1, <2>2, <2>5
<1>4. QED
  BY <1>2, <1>3

\* The fields of a registration.
LEMMA RegistrationTypes ==
  ASSUME NEW reg \in Registrations
  PROVE  /\ reg \in Registration /\ reg.kind = "register" /\ reg.service \in Services
         /\ reg.settings \in Settings /\ reg.endpoints \in Seq(Endpoint) /\ reg.endpoints # <<>>
         /\ reg.instance \in Instance /\ reg.instance.address \in Addresses
         /\ reg.instance.scheme \in Schemes
<1>1. reg \in Registration
  BY PayloadsAreNormalized
<1>2. QED
  BY <1>1 DEF Registration, Instance

\* What buildService returns, whether the service was registered before or not.
LEMMA BuildTypes ==
  ASSUME NEW old \in ServiceSettings \cup {None}, NEW reg \in Registrations,
         old # None => DistinctIn(old.instances)
  PROVE  LET service == buildService(old, reg) IN
         /\ service \in ServiceSettings /\ service # None
         /\ DistinctIn(service.instances)
         /\ service.endpoints = reg.endpoints /\ service.settings = reg.settings
<1> DEFINE instances == IF old = None THEN <<reg.instance>>
                        ELSE upsertInstanceSettings(old.instances, reg.instance)
           service == buildService(old, reg)
<1>1. instances \in Seq(Instance) /\ DistinctIn(instances)
  <2>1. CASE old = None
    <3>1. instances = <<reg.instance>>
      BY <2>1
    <3>2. <<reg.instance>> \in Seq(Instance)
      BY RegistrationTypes
    <3>3. \A i, j \in DOMAIN <<reg.instance>> : i = j
      OBVIOUS
    <3> HIDE DEF instances
    <3>4. QED
      BY <3>1, <3>2, <3>3 DEF DistinctIn
  <2>2. CASE old # None
    <3>1. old.instances \in Seq(Instance) /\ instances = upsertInstanceSettings(old.instances, reg.instance)
      BY <2>2 DEF ServiceSettings
    <3> HIDE DEF instances
    <3>2. QED
      BY <2>2, <3>1, RegistrationTypes, UpsertKeepsDistinct
  <2>3. QED
    BY <2>1, <2>2
<1>2. service = [settings |-> reg.settings, endpoints |-> reg.endpoints, instances |-> instances]
  BY DEF buildService
<1> HIDE DEF instances, service
<1>3. service \in ServiceSettings
  BY <1>1, <1>2, RegistrationTypes DEF ServiceSettings
<1>4. QED
  BY <1>1, <1>2, <1>3, NoneIsNoValue DEF service

\* What replaceService makes of a snapshot, when no error is returned.
LEMMA Replaced ==
  ASSUME NEW snap \in Snapshot, Distinct(snap), NEW reg \in Registrations
  PROVE  LET out == replaceService(snap, reg)
             routed == addServiceRoutes(removeServiceRoutes(snap, reg.service), reg.service, reg.endpoints)
         IN /\ out \in Snapshot /\ Distinct(out)
            /\ out.services = [snap.services EXCEPT ![reg.service] = buildService(@, reg)]
            /\ out.routes = routed.routes /\ out.wildcards = routed.wildcards
            /\ Registered(out) = Registered(snap) \cup {reg.service}
<1> DEFINE removed == removeServiceRoutes(snap, reg.service)
           routed == addServiceRoutes(removed, reg.service, reg.endpoints)
           s == reg.service
           out == replaceService(snap, reg)
           service == buildService(snap.services[s], reg)
<1>1. s \in Services /\ reg.endpoints \in Seq(Endpoint)
  BY RegistrationTypes
<1>2. removed \in Snapshot /\ removed.services = snap.services
  BY <1>1, RemovedRoutes
<1> HIDE DEF removed
<1>3. routed \in Snapshot /\ routed.services = snap.services
  BY <1>1, <1>2, AddedRoutes
<1>4. out = [routed EXCEPT !.services[s] = buildService(@, reg), !.revision = @ + 1]
  BY DEF replaceService, removed
<1>5. snap.services[s] \in ServiceSettings \cup {None}
  BY <1>1 DEF Snapshot
<1>6. snap.services[s] # None => DistinctIn(snap.services[s].instances)
  BY <1>1 DEF Distinct, Registered
<1>7. service \in ServiceSettings /\ service # None /\ DistinctIn(service.instances)
  BY <1>5, <1>6, BuildTypes
<1> HIDE DEF routed, out, s
<1>8. /\ out.services = [snap.services EXCEPT ![s] = service]
      /\ out.routes = routed.routes /\ out.wildcards = routed.wildcards
      /\ out.revision = routed.revision + 1
      /\ out \in Snapshot
  <2> HIDE DEF service
  <2>1. snap.services \in [Services -> ServiceSettings \cup {None}]
    BY DEF Snapshot
  <2>2. out = [routed EXCEPT !.services = [snap.services EXCEPT ![s] = service], !.revision = routed.revision + 1]
    BY <1>3, <1>4 DEF service, Snapshot
  <2>3. [snap.services EXCEPT ![s] = service] \in [Services -> ServiceSettings \cup {None}]
    BY <1>7, <2>1
  <2> DEFINE services == [snap.services EXCEPT ![s] = service]
  <2>4. routed.revision \in Nat /\ routed.revision + 1 \in Nat
    BY <1>3 DEF Snapshot
  <2> HIDE DEF services
  <2>5. /\ out.services = services /\ out.revision = routed.revision + 1
        /\ out.routes = routed.routes /\ out.wildcards = routed.wildcards
    BY <1>3, <2>2 DEF Snapshot, services
  <2>6. out \in Snapshot
    BY <1>3, <2>2, <2>3, <2>4 DEF Snapshot, services
  <2>7. QED
    BY <2>5, <2>6 DEF services
<1> HIDE DEF service
<1>9. /\ snap.services \in [Services -> ServiceSettings \cup {None}]
      /\ out.services[s] = service /\ \A o \in Services \ {s} : out.services[o] = snap.services[o]
  BY <1>1, <1>8 DEF Snapshot
<1>10. Registered(out) = Registered(snap) \cup {s}
  BY <1>1, <1>7, <1>9 DEF Registered
<1>11. Distinct(out)
  BY <1>1, <1>7, <1>9, <1>10 DEF Distinct, Registered
<1>12. QED
  BY <1>8, <1>10, <1>11 DEF out, routed, removed, s, service

\* The exact index after replaceService: the service's endpoints, and the rest as before.
LEMMA ReplacedRoutes ==
  ASSUME NEW snap \in Snapshot, Distinct(snap), NEW reg \in Registrations, ~duplicate(reg.endpoints)
  PROVE  LET out == replaceService(snap, reg)
             s == reg.service
         IN /\ \A rt \in Routes : (\A i \in DOMAIN reg.endpoints : reg.endpoints[i].route # rt) =>
                    out.routes[rt] = IF snap.routes[rt] = None \/ snap.routes[rt].service # s
                                     THEN snap.routes[rt] ELSE None
            /\ \A i \in DOMAIN reg.endpoints :
                    /\ reg.endpoints[i].route \in Routes /\ reg.endpoints[i].roles \in RoleSets
                    /\ reg.endpoints[i] = [route |-> reg.endpoints[i].route, roles |-> reg.endpoints[i].roles]
                    /\ out.routes[reg.endpoints[i].route] =
                        [service |-> s, route |-> reg.endpoints[i].route, roles |-> reg.endpoints[i].roles]
<1> DEFINE s == reg.service
           removed == removeServiceRoutes(snap, s)
           routed == addServiceRoutes(removed, s, reg.endpoints)
           new == entries(s, reg.endpoints)
           out == replaceService(snap, reg)
<1>1. s \in Services /\ reg.endpoints \in Seq(Endpoint)
  BY RegistrationTypes
<1>2. out.routes = routed.routes
  BY Replaced
<1>3. /\ removed \in Snapshot
      /\ \A rt \in Routes : removed.routes[rt] = IF snap.routes[rt] = None \/ snap.routes[rt].service # s
                                                 THEN snap.routes[rt] ELSE None
  BY <1>1, RemovedRoutes
<1> HIDE DEF removed, out, s
<1>4. \A rt \in Routes :
        \/ /\ \A i \in DOMAIN reg.endpoints : reg.endpoints[i].route # rt
           /\ routed.routes[rt] = removed.routes[rt]
        \/ \E i \in DOMAIN reg.endpoints : reg.endpoints[i].route = rt /\ routed.routes[rt] = new[i]
  BY <1>1, <1>3, AddedRoutes
<1> HIDE DEF routed
<1>5. ASSUME NEW i \in DOMAIN reg.endpoints
      PROVE  /\ reg.endpoints[i].route \in Routes /\ reg.endpoints[i].roles \in RoleSets
             /\ reg.endpoints[i] = [route |-> reg.endpoints[i].route, roles |-> reg.endpoints[i].roles]
             /\ out.routes[reg.endpoints[i].route] =
                    [service |-> s, route |-> reg.endpoints[i].route, roles |-> reg.endpoints[i].roles]
  <2>1. reg.endpoints[i] \in Endpoint
    BY <1>1
  <2>2. /\ reg.endpoints[i].route \in Routes /\ reg.endpoints[i].roles \in RoleSets
        /\ reg.endpoints[i] = [route |-> reg.endpoints[i].route, roles |-> reg.endpoints[i].roles]
    BY <2>1 DEF Endpoint
  <2>3. PICK j \in DOMAIN reg.endpoints : /\ reg.endpoints[j].route = reg.endpoints[i].route
                                          /\ routed.routes[reg.endpoints[i].route] = new[j]
    BY <1>4, <2>2
  <2>4. j = i
    BY <2>3 DEF duplicate
  <2>5. QED
    BY <1>2, <2>2, <2>3, <2>4 DEF entries
<1>6. ASSUME NEW rt \in Routes, \A i \in DOMAIN reg.endpoints : reg.endpoints[i].route # rt
      PROVE  out.routes[rt] = IF snap.routes[rt] = None \/ snap.routes[rt].service # s
                              THEN snap.routes[rt] ELSE None
  BY <1>2, <1>3, <1>4, <1>6
<1>7. QED
  BY <1>5, <1>6 DEF out, s

\* Replacing a service keeps the map of routes in step with the services.
LEMMA ReplacedIsIndexed ==
  ASSUME NEW snap, Sound(snap), NEW reg \in Registrations, ~duplicate(reg.endpoints),
         \A i \in DOMAIN reg.endpoints : ~taken(snap, reg.service, reg.endpoints[i].route)
  PROVE  Indexed(replaceService(snap, reg))
<1> DEFINE s == reg.service
           endpoints == reg.endpoints
           out == replaceService(snap, reg)
           Lists(service, rt, roles) ==
             \E i \in DOMAIN service.endpoints : service.endpoints[i] = [route |-> rt, roles |-> roles]
<1>1. snap \in Snapshot /\ Indexed(snap) /\ Distinct(snap) /\ s \in Services
  BY RegistrationTypes DEF Sound
<1>2. /\ \A rt \in Routes : (\A i \in DOMAIN endpoints : endpoints[i].route # rt) =>
            out.routes[rt] = IF snap.routes[rt] = None \/ snap.routes[rt].service # s
                             THEN snap.routes[rt] ELSE None
      /\ \A i \in DOMAIN endpoints :
            /\ endpoints[i].route \in Routes /\ endpoints[i].roles \in RoleSets
            /\ endpoints[i] = [route |-> endpoints[i].route, roles |-> endpoints[i].roles]
            /\ out.routes[endpoints[i].route] =
                [service |-> s, route |-> endpoints[i].route, roles |-> endpoints[i].roles]
  BY <1>1, ReplacedRoutes
<1>3. /\ out.services = [snap.services EXCEPT ![s] = buildService(@, reg)]
      /\ Registered(out) = Registered(snap) \cup {s}
  BY <1>1, Replaced
<1>4. out.services[s].endpoints = endpoints /\ \A t \in Services \ {s} : out.services[t] = snap.services[t]
  <2>1. snap.services \in [Services -> ServiceSettings \cup {None}]
    BY <1>1 DEF Snapshot
  <2>2. snap.services[s] # None => DistinctIn(snap.services[s].instances)
    BY <1>1 DEF Distinct, Registered
  <2>3. buildService(snap.services[s], reg).endpoints = endpoints
    BY <1>1, <2>1, <2>2, BuildTypes
  <2>4. QED
    BY <1>1, <1>3, <2>1, <2>3
<1>5. \A i \in DOMAIN endpoints :
        snap.routes[endpoints[i].route] = None \/ snap.routes[endpoints[i].route].service = s
  BY DEF taken
<1> HIDE DEF out, endpoints, s
<1>6. ASSUME NEW rt \in Routes, out.routes[rt] # None
      PROVE  out.routes[rt].route = rt
  <2>1. CASE \E i \in DOMAIN endpoints : endpoints[i].route = rt
    <3>1. PICK i \in DOMAIN endpoints : endpoints[i].route = rt
      BY <2>1
    <3>2. out.routes[rt] = [service |-> s, route |-> rt, roles |-> endpoints[i].roles]
      BY <1>2, <3>1
    <3>3. QED
      BY <3>2
  <2>2. CASE \A i \in DOMAIN endpoints : endpoints[i].route # rt
    <3>1. out.routes[rt] = snap.routes[rt]
      BY <1>2, <1>6, <2>2
    <3>2. QED
      BY <1>1, <1>6, <3>1 DEF Indexed
  <2>3. QED
    BY <2>1, <2>2
<1>7. ASSUME NEW rt \in Routes, NEW roles \in RoleSets
      PROVE  (out.routes[rt] = [service |-> s, route |-> rt, roles |-> roles])
                <=> (s \in Registered(out) /\ Lists(out.services[s], rt, roles))
  <2>1. CASE \E i \in DOMAIN endpoints : endpoints[i].route = rt
    <3>1. PICK i \in DOMAIN endpoints : endpoints[i].route = rt
      BY <2>1
    <3>2. \A j \in DOMAIN endpoints : endpoints[j].route = rt => j = i
      BY <3>1 DEF duplicate, endpoints
    <3>3. /\ out.routes[rt] = [service |-> s, route |-> rt, roles |-> endpoints[i].roles]
          /\ endpoints[i] = [route |-> rt, roles |-> endpoints[i].roles]
      BY <1>2, <3>1
    <3>4. \A j \in DOMAIN endpoints : endpoints[j] = [route |-> rt, roles |-> roles] => j = i
      BY <3>2
    <3>5. QED
      BY <1>1, <1>3, <1>4, <3>3, <3>4
  <2>2. CASE \A i \in DOMAIN endpoints : endpoints[i].route # rt
    <3>1. out.routes[rt] # [service |-> s, route |-> rt, roles |-> roles]
      <4>1. [service |-> s, route |-> rt, roles |-> roles] \in RouteEntry
        BY <1>1 DEF RouteEntry
      <4>2. QED
        BY <1>2, <2>2, <4>1, NoneIsNoValue
    <3>2. ~Lists(out.services[s], rt, roles)
      BY <1>4, <2>2
    <3>3. QED
      BY <3>1, <3>2
  <2>3. QED
    BY <2>1, <2>2
<1>8. ASSUME NEW rt \in Routes, NEW t \in Services, t # s, NEW roles \in RoleSets
      PROVE  (out.routes[rt] = [service |-> t, route |-> rt, roles |-> roles])
                <=> (t \in Registered(out) /\ Lists(out.services[t], rt, roles))
  <2> DEFINE e == [service |-> t, route |-> rt, roles |-> roles]
  <2>1. (snap.routes[rt] = e) <=> (t \in Registered(snap) /\ Lists(snap.services[t], rt, roles))
    BY <1>1 DEF Indexed
  <2>2. e.service # s /\ e # None
    BY <1>8, NoneIsNoValue DEF RouteEntry
  <2>3. out.routes[rt] = e <=> snap.routes[rt] = e
    <3>1. CASE \E i \in DOMAIN endpoints : endpoints[i].route = rt
      <4>1. out.routes[rt].service = s
        <5>1. PICK i \in DOMAIN endpoints : endpoints[i].route = rt
          BY <3>1
        <5>2. out.routes[rt] = [service |-> s, route |-> rt, roles |-> endpoints[i].roles]
          BY <1>2, <5>1
        <5>3. QED
          BY <5>2
      <4>2. snap.routes[rt] = None \/ snap.routes[rt].service = s
        BY <1>5, <3>1
      <4> HIDE DEF e
      <4>3. QED
        BY <2>2, <4>1, <4>2
    <3>2. CASE \A i \in DOMAIN endpoints : endpoints[i].route # rt
      <4> HIDE DEF e
      <4>1. QED
        BY <1>2, <2>2, <3>2
    <3>3. QED
      BY <3>1, <3>2
  <2>4. t \in Registered(out) <=> t \in Registered(snap)
    BY <1>3, <1>8
  <2>5. out.services[t] = snap.services[t]
    BY <1>4, <1>8
  <2> HIDE DEF Lists
  <2>6. QED
    BY <2>1, <2>3, <2>4, <2>5
<1>9. QED
  <2>1. \A rt \in Routes, t \in Services, roles \in RoleSets :
          (out.routes[rt] = [service |-> t, route |-> rt, roles |-> roles])
            <=> (t \in Registered(out) /\ Lists(out.services[t], rt, roles))
    <3> HIDE DEF Lists
    <3> SUFFICES ASSUME NEW rt \in Routes, NEW t \in Services, NEW roles \in RoleSets
                 PROVE  (out.routes[rt] = [service |-> t, route |-> rt, roles |-> roles])
                            <=> (t \in Registered(out) /\ Lists(out.services[t], rt, roles))
      OBVIOUS
    <3>1. CASE t = s
      BY <1>7, <3>1
    <3>2. CASE t # s
      BY <1>8, <3>2
    <3>3. QED
      BY <3>1, <3>2
  <2>2. QED
    BY <1>6, <2>1 DEF Indexed, out

Once(list) == \A i, j \in DOMAIN list : list[i] = list[j] => i = j

Apart(a, b) == \A i \in DOMAIN a, j \in DOMAIN b : a[i] # b[j]

\* A list that has the elements of two lists.
Joins(list, a, b) ==
    /\ \A i \in DOMAIN list : (\E j \in DOMAIN a : list[i] = a[j]) \/ (\E j \in DOMAIN b : list[i] = b[j])
    /\ \A j \in DOMAIN a : \E i \in DOMAIN list : list[i] = a[j]
    /\ \A j \in DOMAIN b : \E i \in DOMAIN list : list[i] = b[j]

\* Two lists without repetition that share nothing make one.
LEMMA ConcatOnce ==
  ASSUME NEW S, NEW a \in Seq(S), NEW b \in Seq(S), Once(a), Once(b), Apart(a, b)
  PROVE  Once(a \o b) /\ Joins(a \o b, a, b)
<1> DEFINE ab == a \o b
           n == Len(a)
           m == Len(b)
<1>1. /\ n \in Nat /\ m \in Nat /\ DOMAIN a = 1..n /\ DOMAIN b = 1..m
      /\ ab \in Seq(S) /\ DOMAIN ab = 1..(n + m)
  BY ConcatProperties, LenProperties
<1>2. /\ \A i \in 1..n : ab[i] = a[i]
      /\ \A i \in 1..m : ab[n + i] = b[i]
      /\ \A i \in (n + 1)..(n + m) : ab[i] = b[i - n] /\ i - n \in 1..m
      /\ \A i \in 1..(n + m) : i \in 1..n \/ i \in (n + 1)..(n + m)
  BY ConcatProperties, <1>1
<1> HIDE DEF ab, n, m
<1>3. Once(ab)
  <2> SUFFICES ASSUME NEW i \in 1..(n + m), NEW j \in 1..(n + m), ab[i] = ab[j] PROVE i = j
    BY <1>1 DEF Once
  <2>1. CASE i \in 1..n /\ j \in 1..n
    BY <1>1, <1>2, <2>1 DEF Once
  <2>2. CASE i \in (n + 1)..(n + m) /\ j \in (n + 1)..(n + m)
    <3>1. i - n \in DOMAIN b /\ j - n \in DOMAIN b
      BY <1>1, <1>2, <2>2
    <3>2. b[i - n] = b[j - n]
      BY <1>2, <2>2
    <3>3. i - n = j - n
      BY <3>1, <3>2 DEF Once
    <3>4. QED
      BY <1>1, <2>2, <3>3
  <2>3. CASE i \in 1..n /\ j \in (n + 1)..(n + m)
    <3>1. i \in DOMAIN a /\ ab[i] = a[i] /\ j - n \in DOMAIN b /\ ab[j] = b[j - n]
      BY <1>1, <1>2, <2>3
    <3>2. QED
      BY <3>1 DEF Apart
  <2>4. CASE i \in (n + 1)..(n + m) /\ j \in 1..n
    <3>1. j \in DOMAIN a /\ ab[j] = a[j] /\ i - n \in DOMAIN b /\ ab[i] = b[i - n]
      BY <1>1, <1>2, <2>4
    <3>2. QED
      BY <3>1 DEF Apart
  <2>5. QED
    BY <1>2, <2>1, <2>2, <2>3, <2>4
<1>4. \A i \in DOMAIN ab : (\E j \in DOMAIN a : ab[i] = a[j]) \/ (\E j \in DOMAIN b : ab[i] = b[j])
  BY <1>1, <1>2
<1>5. \A j \in DOMAIN a : \E i \in DOMAIN ab : ab[i] = a[j]
  <2>1. \A j \in DOMAIN a : j \in DOMAIN ab /\ ab[j] = a[j]
    BY <1>1, <1>2
  <2>2. QED
    BY <2>1
<1>6. \A j \in DOMAIN b : \E i \in DOMAIN ab : ab[i] = b[j]
  <2>1. \A j \in DOMAIN b : n + j \in DOMAIN ab /\ ab[n + j] = b[j]
    BY <1>1, <1>2
  <2>2. QED
    BY <2>1
<1>7. QED
  BY <1>3, <1>4, <1>5, <1>6 DEF ab, Joins

\* The elements that Select takes from a list without repetitions.
LEMMA SelectElements ==
  ASSUME NEW S, NEW list \in Seq(S), NEW P \in SUBSET DOMAIN list,
         \A i, j \in P : list[i] = list[j] => i = j
  PROVE  LET sel == Select(list, P) IN
         /\ sel \in Seq(S) /\ Once(sel)
         /\ \A n \in DOMAIN sel : \E i \in P : sel[n] = list[i]
         /\ \A i \in P : \E n \in DOMAIN sel : sel[n] = list[i]
<1> DEFINE sel == Select(list, P)
<1>1. sel \in Seq(S)
  BY SelectProperties
<1>2. PICK nth \in [DOMAIN sel -> P] :
        /\ \A n \in DOMAIN sel : sel[n] = list[nth[n]]
        /\ \A m, n \in DOMAIN sel : nth[m] = nth[n] => m = n
        /\ \A i \in P : \E n \in DOMAIN sel : nth[n] = i
  BY SelectProperties
<1> HIDE DEF sel
<1>3. Once(sel)
  BY <1>2 DEF Once
<1>4. QED
  BY <1>1, <1>2, <1>3 DEF sel

\* Replacing a service keeps the slice of wildcard routes in step with the map.
LEMMA ReplacedIsListed ==
  ASSUME NEW snap, Sound(snap), NEW reg \in Registrations, ~duplicate(reg.endpoints),
         \A i \in DOMAIN reg.endpoints : ~taken(snap, reg.service, reg.endpoints[i].route)
  PROVE  Listed(replaceService(snap, reg))
<1> DEFINE s == reg.service
           endpoints == reg.endpoints
           new == entries(s, endpoints)
           foreign == {i \in DOMAIN snap.wildcards : snap.wildcards[i].service # s}
           wild == {i \in DOMAIN new : new[i].route \in Wildcards}
           kept == Select(snap.wildcards, foreign)
           added == Select(new, wild)
           out == replaceService(snap, reg)
           removed == removeServiceRoutes(snap, s)
<1>1. /\ snap \in Snapshot /\ Listed(snap) /\ Distinct(snap) /\ s \in Services
      /\ endpoints \in Seq(Endpoint) /\ snap.wildcards \in Seq(RouteEntry)
  BY RegistrationTypes DEF Sound, Snapshot
<1>2. /\ \A rt \in Routes : (\A i \in DOMAIN endpoints : endpoints[i].route # rt) =>
            out.routes[rt] = IF snap.routes[rt] = None \/ snap.routes[rt].service # s
                             THEN snap.routes[rt] ELSE None
      /\ \A i \in DOMAIN endpoints :
            /\ endpoints[i].route \in Routes
            /\ out.routes[endpoints[i].route] =
                [service |-> s, route |-> endpoints[i].route, roles |-> endpoints[i].roles]
  BY <1>1, ReplacedRoutes
<1>3. new \in Seq(RouteEntry) /\ DOMAIN new = DOMAIN endpoints /\ wild \in SUBSET DOMAIN new
  <2>1. removed \in Snapshot
    BY <1>1, RemovedRoutes
  <2> HIDE DEF removed
  <2>2. QED
    BY <1>1, <2>1, AddedRoutes
<1>4. out.wildcards = kept \o added
  <2> DEFINE routed == addServiceRoutes(removed, s, endpoints)
  <2>1. out.wildcards = routed.wildcards
    BY <1>1, Replaced
  <2>2. removed \in Snapshot /\ removed.wildcards = kept
    BY <1>1, RemovedRoutes
  <2> HIDE DEF removed
  <2>3. routed.wildcards = removed.wildcards \o added
    BY <1>1, <2>2, AddedRoutes
  <2> HIDE DEF routed
  <2>4. QED
    BY <2>1, <2>2, <2>3
<1>5. \A i \in DOMAIN endpoints :
        snap.routes[endpoints[i].route] = None \/ snap.routes[endpoints[i].route].service = s
  BY DEF taken
<1>6. \A i \in DOMAIN new : new[i] = [service |-> s, route |-> endpoints[i].route, roles |-> endpoints[i].roles]
  BY <1>3 DEF entries
<1>7. \A i, j \in DOMAIN new : new[i] = new[j] => i = j
  <2> SUFFICES ASSUME NEW i \in DOMAIN new, NEW j \in DOMAIN new, new[i] = new[j] PROVE i = j
    OBVIOUS
  <2> HIDE DEF new, endpoints, s
  <2>1. new[i].route = endpoints[i].route /\ new[j].route = endpoints[j].route
    BY <1>6
  <2>2. QED
    BY <1>3, <2>1 DEF duplicate, endpoints
<1> HIDE DEF new, out, endpoints, s
<1>8. /\ kept \in Seq(RouteEntry) /\ Once(kept)
      /\ \A n \in DOMAIN kept : \E i \in foreign : kept[n] = snap.wildcards[i]
      /\ \A i \in foreign : \E n \in DOMAIN kept : kept[n] = snap.wildcards[i]
  <2>1. foreign \in SUBSET DOMAIN snap.wildcards
    OBVIOUS
  <2>2. \A i, j \in foreign : snap.wildcards[i] = snap.wildcards[j] => i = j
    BY <1>1 DEF Listed
  <2> HIDE DEF foreign
  <2>3. QED
    BY <1>1, <2>1, <2>2, SelectElements
<1>9. /\ added \in Seq(RouteEntry) /\ Once(added)
      /\ \A n \in DOMAIN added : \E i \in wild : added[n] = new[i]
      /\ \A i \in wild : \E n \in DOMAIN added : added[n] = new[i]
  <2> HIDE DEF wild
  <2>1. \A i, j \in wild : new[i] = new[j] => i = j
    BY <1>3, <1>7
  <2>2. QED
    BY <1>3, <2>1, SelectElements
<1> HIDE DEF kept, added
<1>10. ASSUME NEW n \in DOMAIN kept
       PROVE  /\ kept[n].service # s /\ kept[n].route \in Wildcards
              /\ out.routes[kept[n].route] = kept[n]
  <2>1. PICK i \in foreign : kept[n] = snap.wildcards[i]
    BY <1>8
  <2>2. /\ kept[n].service # s /\ kept[n].route \in Wildcards /\ kept[n] \in RouteEntry
        /\ snap.routes[kept[n].route] = kept[n]
    BY <1>1, <2>1 DEF Listed
  <2>3. kept[n] # None
    BY <2>2, NoneIsNoValue
  <2>4. \A j \in DOMAIN endpoints : endpoints[j].route # kept[n].route
    BY <1>5, <2>2, <2>3
  <2>5. kept[n].route \in Routes
    BY <2>2, WildcardsAreRoutes
  <2>6. QED
    BY <1>2, <2>2, <2>4, <2>5
<1>11. ASSUME NEW n \in DOMAIN added
       PROVE  /\ added[n].service = s /\ added[n].route \in Wildcards
              /\ out.routes[added[n].route] = added[n]
  <2>1. PICK i \in wild : added[n] = new[i]
    BY <1>9
  <2>2. i \in DOMAIN endpoints /\ new[i].route \in Wildcards
    BY <1>3
  <2>3. new[i].service = s /\ new[i].route = endpoints[i].route /\ out.routes[endpoints[i].route] = new[i]
    BY <1>2, <1>3, <1>6, <2>2
  <2>4. QED
    BY <2>1, <2>2, <2>3
<1>12. ASSUME NEW rt \in Wildcards, out.routes[rt] # None
       PROVE  \/ \E n \in DOMAIN kept : kept[n] = out.routes[rt]
              \/ \E n \in DOMAIN added : added[n] = out.routes[rt]
  <2>1. rt \in Routes
    BY WildcardsAreRoutes
  <2>2. CASE \E i \in DOMAIN endpoints : endpoints[i].route = rt
    <3>1. PICK i \in DOMAIN endpoints : endpoints[i].route = rt
      BY <2>2
    <3>2. i \in wild /\ new[i] = out.routes[rt]
      <4>1. new[i] = [service |-> s, route |-> rt, roles |-> endpoints[i].roles]
        BY <1>3, <1>6, <3>1
      <4>2. out.routes[rt] = [service |-> s, route |-> rt, roles |-> endpoints[i].roles]
        BY <1>2, <3>1
      <4>3. QED
        BY <1>3, <4>1, <4>2
    <3> HIDE DEF wild
    <3>3. QED
      BY <1>9, <3>2
  <2>3. CASE \A i \in DOMAIN endpoints : endpoints[i].route # rt
    <3>1. out.routes[rt] = snap.routes[rt] /\ snap.routes[rt] # None /\ snap.routes[rt].service # s
      BY <1>2, <1>12, <2>1, <2>3
    <3>2. PICK i \in DOMAIN snap.wildcards : snap.wildcards[i] = snap.routes[rt]
      BY <1>1, <3>1 DEF Listed
    <3>3. i \in foreign
      BY <3>1, <3>2
    <3> HIDE DEF foreign
    <3>4. QED
      BY <1>8, <3>1, <3>2, <3>3
  <2>4. QED
    BY <2>2, <2>3
<1>13. QED
  <2> DEFINE list == kept \o added
  <2>1. Apart(kept, added)
    BY <1>10, <1>11 DEF Apart
  <2>2. Once(list) /\ Joins(list, kept, added)
    <3>1. kept \in Seq(RouteEntry) /\ added \in Seq(RouteEntry) /\ Once(kept) /\ Once(added)
      BY <1>8, <1>9
    <3>2. QED
      BY <2>1, <3>1, ConcatOnce
  <2> HIDE DEF list
  <2>3. \A i \in DOMAIN list : list[i].route \in Wildcards /\ out.routes[list[i].route] = list[i]
    BY <1>10, <1>11, <2>2 DEF Joins
  <2>4. \A rt \in Wildcards : out.routes[rt] # None => \E i \in DOMAIN list : list[i] = out.routes[rt]
    BY <1>12, <2>2 DEF Joins
  <2>5. out.wildcards = list
    BY <1>4 DEF list
  <2>6. QED
    BY <2>2, <2>3, <2>4, <2>5 DEF Listed, Once, out

\* The fields of a deregistration.
LEMMA DeregistrationTypes ==
  ASSUME NEW dereg \in Deregistrations
  PROVE  /\ dereg.kind = "deregister" /\ dereg.service \in Services /\ dereg.address \in Addresses
<1>1. dereg \in Deregistration
  BY PayloadsAreNormalized
<1>2. QED
  BY <1>1 DEF Deregistration

\* What removeServiceInstance makes of a snapshot.
LEMMA InstanceRemoved ==
  ASSUME NEW snap \in Snapshot, NEW s \in Registered(snap), NEW address \in Addresses
  PROVE  LET out == removeServiceInstance(snap, s, address)
             old == snap.services[s].instances
         IN /\ out \in Snapshot
            /\ out.routes = snap.routes /\ out.wildcards = snap.wildcards
            /\ Registered(out) = Registered(snap)
            /\ \A t \in Services \ {s} : out.services[t] = snap.services[t]
            /\ out.services[s].settings = snap.services[s].settings
            /\ out.services[s].endpoints = snap.services[s].endpoints
            /\ out.services[s].instances = Select(old, {i \in DOMAIN old : old[i].address # address})
<1> DEFINE old == snap.services[s]
           others == {i \in DOMAIN old.instances : old.instances[i].address # address}
           kept == Select(old.instances, others)
           service == [old EXCEPT !.instances = kept]
           services == [snap.services EXCEPT ![s] = service]
           out == removeServiceInstance(snap, s, address)
<1>1. /\ s \in Services /\ snap.services \in [Services -> ServiceSettings \cup {None}]
      /\ old \in ServiceSettings /\ snap.revision \in Nat
  BY DEF Registered, Snapshot
<1> HIDE DEF old
<1>2. kept \in Seq(Instance)
  <2>1. old.instances \in Seq(Instance) /\ others \in SUBSET DOMAIN old.instances
    BY <1>1 DEF ServiceSettings
  <2> HIDE DEF others
  <2>2. QED
    BY <2>1, SelectProperties
<1> HIDE DEF kept
<1>3. /\ service \in ServiceSettings /\ service # None
      /\ service.settings = old.settings /\ service.endpoints = old.endpoints
      /\ service.instances = kept
  BY <1>1, <1>2, NoneIsNoValue DEF ServiceSettings
<1>4. out = [snap EXCEPT !.services = services, !.revision = snap.revision + 1]
  BY <1>1 DEF removeServiceInstance, old, kept, others, Snapshot
<1> HIDE DEF service, out
<1>5. services \in [Services -> ServiceSettings \cup {None}] /\ services[s] = service
  BY <1>1, <1>3
<1>6. \A t \in Services \ {s} : services[t] = snap.services[t]
  BY <1>1
<1> HIDE DEF services
<1>7. /\ out \in Snapshot /\ out.services = services
      /\ out.routes = snap.routes /\ out.wildcards = snap.wildcards
  <2>1. snap.revision + 1 \in Nat
    BY <1>1
  <2>2. out.services = services /\ out.routes = snap.routes /\ out.wildcards = snap.wildcards
    BY <1>4 DEF Snapshot
  <2>3. out \in Snapshot
    BY <1>4, <1>5, <2>1 DEF Snapshot
  <2>4. QED
    BY <2>2, <2>3
<1>8. Registered(out) = Registered(snap)
  BY <1>1, <1>3, <1>5, <1>6, <1>7 DEF Registered
<1>9. QED
  BY <1>3, <1>5, <1>6, <1>7, <1>8 DEF out, kept, others, old

\* Removing an instance leaves the routes as they are, and the service registered.
LEMMA RemovalIsSound ==
  ASSUME NEW snap, Sound(snap), NEW s \in Registered(snap), NEW address \in Addresses
  PROVE  Sound(removeServiceInstance(snap, s, address))
<1> DEFINE out == removeServiceInstance(snap, s, address)
           old == snap.services[s].instances
           others == {i \in DOMAIN old : old[i].address # address}
<1>1. snap \in Snapshot /\ Indexed(snap) /\ Listed(snap) /\ Distinct(snap) /\ s \in Services
  BY DEF Sound, Registered
<1>2. /\ out \in Snapshot
      /\ out.routes = snap.routes /\ out.wildcards = snap.wildcards
      /\ Registered(out) = Registered(snap)
      /\ \A t \in Services \ {s} : out.services[t] = snap.services[t]
      /\ out.services[s].endpoints = snap.services[s].endpoints
      /\ out.services[s].instances = Select(old, others)
  BY <1>1, InstanceRemoved
<1> HIDE DEF out
<1>3. Indexed(out)
  <2>1. \A t \in Services : out.services[t].endpoints = snap.services[t].endpoints
    BY <1>2
  <2>2. QED
    BY <1>1, <1>2, <2>1 DEF Indexed
<1>4. Listed(out)
  BY <1>1, <1>2 DEF Listed
<1>5. DistinctIn(Select(old, others))
  <2>1. old \in Seq(Instance) /\ DistinctIn(old) /\ others \in SUBSET DOMAIN old
    BY <1>1 DEF Distinct, Snapshot, ServiceSettings, Registered
  <2> HIDE DEF old, others
  <2>2. PICK nth \in [DOMAIN Select(old, others) -> others] :
          /\ \A n \in DOMAIN Select(old, others) : Select(old, others)[n] = old[nth[n]]
          /\ \A m, n \in DOMAIN Select(old, others) : nth[m] = nth[n] => m = n
    BY <2>1, SelectProperties
  <2>3. QED
    BY <2>1, <2>2 DEF DistinctIn
<1>6. Distinct(out)
  <2> SUFFICES ASSUME NEW t \in Registered(out) PROVE DistinctIn(out.services[t].instances)
    BY DEF Distinct
  <2>1. CASE t = s
    BY <1>2, <1>5, <2>1
  <2>2. CASE t # s
    BY <1>1, <1>2, <2>2 DEF Distinct, Registered
  <2>3. QED
    BY <2>1, <2>2
<1>7. QED
  BY <1>2, <1>3, <1>4, <1>6 DEF Sound, out

\* The effect of a call on the snapshot it has copied, when nothing is wrong with its argument.
Change(old, argument, new) ==
    \/ /\ argument \in Registrations
       /\ ~duplicate(argument.endpoints)
       /\ \A i \in DOMAIN argument.endpoints : ~taken(old, argument.service, argument.endpoints[i].route)
       /\ new = replaceService(old, argument)
    \/ /\ argument \in Deregistrations
       /\ knows(old, argument.service, argument.address)
       /\ new = removeServiceInstance(old, argument.service, argument.address)

\* routeconfig.Validator finds nothing to refuse in what the builder makes.
LEMMA SoundIsValid ==
  ASSUME NEW snap, Sound(snap)
  PROVE  /\ routesValid(snap)
         /\ \A rt \in Routes : snap.routes[rt] # None =>
                LET t == snap.routes[rt].service
                IN /\ t \in Registered(snap)
                   /\ \E i \in DOMAIN snap.services[t].endpoints : snap.services[t].endpoints[i].route = rt
<1>1. snap \in Snapshot /\ Indexed(snap) /\ Listed(snap)
  BY DEF Sound
<1>2. ASSUME NEW rt \in Routes, snap.routes[rt] # None
      PROVE  LET t == snap.routes[rt].service
             IN /\ t \in Registered(snap)
                /\ \E i \in DOMAIN snap.services[t].endpoints : snap.services[t].endpoints[i].route = rt
  <2>1. snap.routes[rt] \in RouteEntry /\ snap.routes[rt].route = rt
    BY <1>1, <1>2 DEF Snapshot, Indexed
  <2>2. PICK t \in Services, roles \in RoleSets :
            snap.routes[rt] = [service |-> t, route |-> rt, roles |-> roles]
    BY <2>1 DEF RouteEntry
  <2>3. /\ t \in Registered(snap)
        /\ \E i \in DOMAIN snap.services[t].endpoints :
                snap.services[t].endpoints[i] = [route |-> rt, roles |-> roles]
    BY <1>1, <2>2 DEF Indexed
  <2>4. \E i \in DOMAIN snap.services[t].endpoints : snap.services[t].endpoints[i].route = rt
    BY <2>3
  <2>5. snap.routes[rt].service = t
    BY <2>2
  <2>6. QED
    BY <2>3, <2>4, <2>5
<1>3. \A s \in Registered(snap) : snap.services[s].endpoints # <<>>
  BY <1>1 DEF Registered, Snapshot, ServiceSettings
<1>4. ASSUME NEW i \in DOMAIN snap.wildcards
      PROVE  snap.wildcards[i].route \in Wildcards /\ snap.wildcards[i].service \in Registered(snap)
  <2>1. snap.wildcards[i] \in RouteEntry
    BY <1>1 DEF Snapshot
  <2>2. /\ snap.wildcards[i].route \in Wildcards /\ snap.wildcards[i].route \in Routes
        /\ snap.routes[snap.wildcards[i].route] = snap.wildcards[i]
    BY <1>1, WildcardsAreRoutes DEF Listed
  <2>3. QED
    BY <1>2, <2>1, <2>2, NoneIsNoValue
<1>5. routesValid(snap)
  BY <1>2, <1>3, <1>4 DEF routesValid
<1>6. QED
  BY <1>2, <1>5

\* A change keeps the indexes and the instance lists in order, and spoils the settings of a
\* snapshot only by its own.
LEMMA ChangeIsSound ==
  ASSUME NEW old, Sound(old), NEW argument, NEW new, Change(old, argument, new)
  PROVE  /\ Sound(new) /\ routesValid(new)
         /\ settingsValid(old) /\ ~settingsValid(new) =>
                argument.kind = "register" /\ argument.settings \notin AcceptedSettings
<1>1. old \in Snapshot /\ Distinct(old)
  BY DEF Sound
<1>2. Sound(new) => routesValid(new)
  BY SoundIsValid
<1>3. CASE argument \in Registrations
  <2>1. /\ ~duplicate(argument.endpoints)
        /\ \A i \in DOMAIN argument.endpoints : ~taken(old, argument.service, argument.endpoints[i].route)
        /\ new = replaceService(old, argument)
    BY <1>3, RegistrationTypes, DeregistrationTypes DEF Change
  <2>2. /\ new \in Snapshot /\ Distinct(new)
        /\ new.services = [old.services EXCEPT ![argument.service] = buildService(@, argument)]
        /\ Registered(new) = Registered(old) \cup {argument.service}
    BY <1>1, <1>3, <2>1, Replaced
  <2>3. Indexed(new) /\ Listed(new)
    BY <1>3, <2>1, ReplacedIsIndexed, ReplacedIsListed
  <2>4. ASSUME settingsValid(old), argument.settings \in AcceptedSettings
        PROVE  settingsValid(new)
    <3>1. argument.service \in Services /\ old.services \in [Services -> ServiceSettings \cup {None}]
      BY <1>1, <1>3, RegistrationTypes DEF Snapshot
    <3>2. old.services[argument.service] # None => DistinctIn(old.services[argument.service].instances)
      BY <1>1, <3>1 DEF Distinct, Registered
    <3>3. buildService(old.services[argument.service], argument).settings = argument.settings
      BY <1>3, <3>1, <3>2, BuildTypes
    <3> SUFFICES ASSUME NEW t \in Registered(new) PROVE new.services[t].settings \in AcceptedSettings
      BY DEF settingsValid
    <3>4. CASE t = argument.service
      BY <2>2, <2>4, <3>1, <3>3, <3>4
    <3>5. CASE t # argument.service
      BY <2>2, <2>4, <3>1, <3>5 DEF settingsValid, Registered
    <3>6. QED
      BY <3>4, <3>5
  <2>5. QED
    BY <1>2, <1>3, <2>2, <2>3, <2>4, RegistrationTypes DEF Sound
<1>4. CASE argument \in Deregistrations
  <2>1. /\ knows(old, argument.service, argument.address)
        /\ new = removeServiceInstance(old, argument.service, argument.address)
    BY <1>4, RegistrationTypes, DeregistrationTypes DEF Change
  <2>2. argument.service \in Registered(old) /\ argument.address \in Addresses
    BY <1>4, <2>1, DeregistrationTypes DEF knows, Registered
  <2>3. Sound(new)
    BY <2>1, <2>2, RemovalIsSound
  <2>4. /\ Registered(new) = Registered(old)
        /\ new.services[argument.service].settings = old.services[argument.service].settings
        /\ \A t \in Services \ {argument.service} : new.services[t] = old.services[t]
    BY <1>1, <2>1, <2>2, InstanceRemoved
  <2>5. settingsValid(old) => settingsValid(new)
    BY <2>4 DEF settingsValid, Registered
  <2>6. QED
    BY <1>2, <2>3, <2>5
<1>5. QED
  BY <1>3, <1>4 DEF Change

-----------------------------------------------------------------------------
(* The inductive invariant                                                 *)

\* A call works on a copy of its own of the active snapshot, which nobody replaces meanwhile.
Own(c) ==
    /\ pc[c] \in {"building", "validating"} <=> lock = c
    /\ candidate[c] = c
    /\ pc[c] \notin {"idle", "failed"} => op[c] \in Registrations \cup Deregistrations
    /\ pc[c] = "building" => heap[c] = heap[active]
    /\ pc[c] = "validating" => Change(heap[active], op[c], heap[c])

IInv ==
    /\ TypeOK
    /\ \A c \in Calls : Own(c)
    /\ active \in Published
    /\ Sound(heap[active])
    /\ settingsValid(heap[active])

\* The invariant holds when NewManager returns.
LEMMA InitHolds == Init => IInv
<1> SUFFICES ASSUME Init PROVE IInv
  OBVIOUS
<1>1. EmptySnapshot \in Snapshot /\ Sound(EmptySnapshot) /\ settingsValid(EmptySnapshot)
  BY EmptyIsSound DEF Sound
<1>2. heap[active] = EmptySnapshot /\ active \in Published
  BY DEF Init, Snapshots, Published
<1>3. TypeOK
  BY <1>1 DEF Init, TypeOK, Snapshots
<1>4. ASSUME NEW c \in Calls
      PROVE  Own(c)
  <2>1. pc[c] = "idle" /\ candidate[c] = c /\ lock # c
    BY CallsFinite DEF Init
  <2>2. QED
    BY <2>1 DEF Own
<1>5. QED
  BY <1>1, <1>2, <1>3, <1>4 DEF IInv

\* Two calls never work at the same time, and what requests may read is not what a call writes.
LEMMA Exclusive ==
  ASSUME IInv, NEW c \in Calls, pc[c] \in {"building", "validating"}
  PROVE  /\ lock = c /\ candidate[c] = c /\ active # c
         /\ op[c] \in Registrations \cup Deregistrations
         /\ \A d \in Calls \ {c} : pc[d] \notin {"building", "validating"}
<1>1. lock = c /\ candidate[c] = c /\ op[c] \in Registrations \cup Deregistrations
  BY DEF IInv, Own
<1>2. active # c
  BY CallsFinite DEF IInv, Published
<1>3. \A d \in Calls \ {c} : pc[d] \notin {"building", "validating"}
  BY <1>1 DEF IInv, Own
<1>4. QED
  BY <1>1, <1>2, <1>3

\* A step that neither locks nor writes.
LEMMA OutsideStep ==
  ASSUME IInv, NEW c \in Calls,
         UNCHANGED <<lock, heap, candidate, active>>,
         pc[c] \in {"idle", "notifying"},
         NEW to \in {"waiting", "failed", "done"}, pc' = [pc EXCEPT ![c] = to],
         to = "done" <=> pc[c] = "notifying",
         op' \in [Calls -> Registrations \cup Deregistrations \cup {None}],
         \A d \in Calls \ {c} : op'[d] = op[d],
         to = "waiting" => op'[c] \in Registrations \cup Deregistrations,
         to = "done" => op'[c] = op[c],
         answer' \in [Calls -> {0, 200, 400, 404}]
  PROVE  IInv'
<1>1. TypeOK /\ active \in Published
  BY DEF IInv
<1>2. TypeOK'
  BY <1>1 DEF TypeOK
<1>3. \A d \in Calls : Own(d)'
  <2> SUFFICES ASSUME NEW d \in Calls PROVE Own(d)'
    OBVIOUS
  <2>1. CASE d = c
    BY <1>1, <2>1 DEF TypeOK, IInv, Own
  <2>2. CASE d # c
    BY <1>1, <2>2 DEF TypeOK, IInv, Own
  <2>3. QED
    BY <2>1, <2>2
<1>4. active' \in Published'
  BY <1>1 DEF Published, TypeOK
<1>5. QED
  BY <1>2, <1>3, <1>4 DEF IInv

\* A step of the call that holds the lock, which writes its own candidate only; it may
\* unlock and fail, or go on to the validators with a change.
LEMMA HolderStep ==
  ASSUME IInv, NEW c \in Calls, pc[c] \in {"building", "validating"},
         UNCHANGED <<op, candidate, active>>,
         NEW snap \in Snapshot, heap' = [heap EXCEPT ![c] = snap],
         NEW to \in {"validating", "failed"}, pc' = [pc EXCEPT ![c] = to],
         to = "validating" => lock' = lock /\ Change(heap[active], op[c], snap),
         to = "failed" => lock' = None,
         answer' \in [Calls -> {0, 200, 400, 404}]
  PROVE  IInv'
<1>1. /\ lock = c /\ candidate[c] = c /\ active # c
      /\ op[c] \in Registrations \cup Deregistrations
      /\ \A d \in Calls \ {c} : pc[d] \notin {"building", "validating"}
  BY Exclusive
<1>2. TypeOK /\ active \in Published
  BY DEF IInv
<1>3. TypeOK'
  BY <1>1, <1>2 DEF TypeOK
<1>4. heap'[active] = heap[active] /\ active' = active /\ heap'[c] = snap
  BY <1>1, <1>2 DEF TypeOK, Snapshots
<1>5. \A d \in Calls : Own(d)'
  <2> SUFFICES ASSUME NEW d \in Calls PROVE Own(d)'
    OBVIOUS
  <2>1. CASE d = c
    BY <1>1, <1>2, <1>4, <2>1, CallsFinite DEF TypeOK, IInv, Own
  <2>2. CASE d # c
    BY <1>1, <1>2, <1>4, <2>2, CallsFinite DEF TypeOK, IInv, Own
  <2>3. QED
    BY <2>1, <2>2
<1>6. active' \in Published'
  BY <1>1, <1>2 DEF Published, TypeOK
<1>7. QED
  BY <1>3, <1>4, <1>5, <1>6 DEF IInv

\* The copy is made while nobody else has the lock, and is no published snapshot.
LEMMA CopyStep ==
  ASSUME IInv, NEW c \in Calls, Copy(c)
  PROVE  IInv'
<1>1. TypeOK /\ active \in Published /\ pc[c] = "waiting" /\ lock = None
  BY DEF IInv, Copy
<1>2. active # c /\ \A d \in Calls : pc[d] \notin {"building", "validating"}
  BY <1>1, CallsFinite DEF IInv, Own, Published
<1>3. /\ pc' = [pc EXCEPT ![c] = "building"] /\ lock' = c /\ UNCHANGED <<op, active, answer>>
      /\ heap' = [heap EXCEPT ![c] = heap[active]] /\ candidate' = [candidate EXCEPT ![c] = c]
  BY DEF Copy
<1>4. heap'[active] = heap[active] /\ heap'[c] = heap[active]
  BY <1>1, <1>2, <1>3 DEF TypeOK, Snapshots
<1>5. TypeOK'
  BY <1>1, <1>3 DEF TypeOK, Snapshots
<1>6. \A d \in Calls : Own(d)'
  <2> SUFFICES ASSUME NEW d \in Calls PROVE Own(d)'
    OBVIOUS
  <2>1. CASE d = c
    BY <1>1, <1>3, <1>4, <2>1 DEF TypeOK, IInv, Own
  <2>2. CASE d # c
    BY <1>1, <1>2, <1>3, <2>2 DEF TypeOK, IInv, Own
  <2>3. QED
    BY <2>1, <2>2
<1>7. active' \in Published'
  BY <1>1, <1>2, <1>3 DEF Published, TypeOK
<1>8. QED
  BY <1>3, <1>4, <1>5, <1>6, <1>7 DEF IInv

\* What is published is sound and valid, and the candidate is given up with it.
LEMMA CommitStep ==
  ASSUME IInv, NEW c \in Calls, Commit(c)
  PROVE  IInv'
<1>1. TypeOK /\ pc[c] = "validating" /\ valid(heap[c])
  BY Exclusive DEF IInv, Commit
<1>2. /\ lock = c /\ candidate[c] = c
      /\ op[c] \in Registrations \cup Deregistrations
      /\ \A d \in Calls \ {c} : pc[d] \notin {"building", "validating"}
  BY <1>1, Exclusive
<1>3. /\ active' = c /\ lock' = None /\ pc' = [pc EXCEPT ![c] = "notifying"]
      /\ UNCHANGED <<op, heap, candidate, answer>>
  BY <1>2 DEF Commit
<1>4. Sound(heap[c])
  BY <1>1, ChangeIsSound DEF IInv, Own
<1>5. TypeOK'
  BY <1>1, <1>3 DEF TypeOK, Snapshots
<1>6. \A d \in Calls : Own(d)'
  BY <1>1, <1>2, <1>3, CallsFinite DEF TypeOK, IInv, Own
<1>7. active' \in Published'
  BY <1>1, <1>3 DEF Published, TypeOK
<1>8. QED
  BY <1>1, <1>3, <1>4, <1>5, <1>6, <1>7 DEF IInv, valid

\* The errors: what the candidate has become is a snapshot still, if no sensible one.
LEMMA FailStep ==
  ASSUME IInv, NEW c \in Calls,
         RefuseDuplicate(c) \/ RefuseTaken(c) \/ RefuseUnknown(c) \/ RefuseInvalid(c)
  PROVE  IInv'
<1>1. TypeOK
  BY DEF IInv
<1>2. pc[c] \in {"building", "validating"}
  BY DEF RefuseDuplicate, RefuseTaken, RefuseUnknown, RefuseInvalid
<1>3. candidate[c] = c /\ heap[c] \in Snapshot /\ op[c] \in Registrations \cup Deregistrations
  BY <1>1, <1>2, Exclusive DEF TypeOK, Snapshots
<1>4. PICK status \in {400, 404} : Fail(c, status)
  BY DEF RefuseDuplicate, RefuseTaken, RefuseUnknown, RefuseInvalid
<1>5. \E snap \in Snapshot : heap' = [heap EXCEPT ![c] = snap]
  <2>1. CASE RefuseDuplicate(c) \/ RefuseUnknown(c) \/ RefuseInvalid(c)
    <3>1. heap' = [heap EXCEPT ![c] = heap[c]]
      BY <1>1, <2>1 DEF RefuseDuplicate, RefuseUnknown, RefuseInvalid, TypeOK
    <3> DEFINE snap == heap[c]
    <3>2. heap' = [heap EXCEPT ![c] = snap] /\ snap \in Snapshot
      BY <1>3, <3>1
    <3> HIDE DEF snap
    <3>3. QED
      BY <3>2
  <2>2. CASE RefuseTaken(c)
    <3>1. op[c] \in Registrations
      BY <1>3, <2>2, DeregistrationTypes DEF RefuseTaken
    <3>2. PICK i \in DOMAIN op[c].endpoints :
            heap' = [heap EXCEPT ![candidate[c]] =
                addServiceRoutes(removeServiceRoutes(heap[candidate[c]], op[c].service), op[c].service,
                                 SubSeq(op[c].endpoints, 1, i - 1))]
      BY <2>2 DEF RefuseTaken
    <3>3. heap' = [heap EXCEPT ![c] =
                addServiceRoutes(removeServiceRoutes(heap[c], op[c].service), op[c].service,
                                 SubSeq(op[c].endpoints, 1, i - 1))]
      BY <1>3, <3>2
    <3>4. op[c].endpoints \in Seq(Endpoint) /\ op[c].service \in Services
      BY <3>1, RegistrationTypes
    <3>5. SubSeq(op[c].endpoints, 1, i - 1) \in Seq(Endpoint)
      BY <3>4, SubSeqProperties
    <3> DEFINE removed == removeServiceRoutes(heap[c], op[c].service)
               snap == addServiceRoutes(removed, op[c].service, SubSeq(op[c].endpoints, 1, i - 1))
    <3>6. removed \in Snapshot
      BY <1>3, <3>4, RemovedRoutes
    <3> HIDE DEF removed
    <3>7. snap \in Snapshot
      BY <3>4, <3>5, <3>6, AddedRoutes
    <3>8. heap' = [heap EXCEPT ![c] = snap]
      BY <3>3 DEF removed
    <3> HIDE DEF snap
    <3>9. QED
      BY <3>7, <3>8
  <2>3. QED
    BY <2>1, <2>2
<1>6. PICK snap \in Snapshot : heap' = [heap EXCEPT ![c] = snap]
  BY <1>5
<1>7. /\ lock' = None /\ pc' = [pc EXCEPT ![c] = "failed"] /\ UNCHANGED <<op, candidate, active>>
      /\ answer' \in [Calls -> {0, 200, 400, 404}]
  BY <1>1, <1>4 DEF Fail, Answers, TypeOK
<1>8. \A to \in {"validating", "failed"} : to = "failed" =>
        /\ to = "validating" => lock' = lock /\ Change(heap[active], op[c], snap)
        /\ to = "failed" => lock' = None
        /\ pc' = [pc EXCEPT ![c] = to]
  BY <1>7
<1>9. QED
  BY <1>2, <1>6, <1>7, <1>8, HolderStep

\* The builder changes the candidate as the payload demands, and the active snapshot not at all.
LEMMA BuildStep ==
  ASSUME IInv, NEW c \in Calls, BuildRegistration(c) \/ BuildDeregistration(c)
  PROVE  /\ pc[c] = "building" /\ pc' = [pc EXCEPT ![c] = "validating"]
         /\ UNCHANGED <<op, lock, candidate, active, answer>>
         /\ \E snap \in Snapshot : heap' = [heap EXCEPT ![c] = snap] /\ Change(heap[active], op[c], snap)
         /\ IInv'
<1>1. pc[c] = "building" /\ TypeOK /\ Sound(heap[active])
  BY DEF BuildRegistration, BuildDeregistration, IInv
<1>2. candidate[c] = c /\ heap[c] = heap[active] /\ op[c] \in Registrations \cup Deregistrations
  BY <1>1 DEF IInv, Own
<1>3. /\ pc' = [pc EXCEPT ![c] = "validating"] /\ UNCHANGED <<op, lock, candidate, active, answer>>
      /\ answer' \in [Calls -> {0, 200, 400, 404}]
  BY <1>1 DEF BuildRegistration, BuildDeregistration, Built, TypeOK
<1>4. \E snap : heap' = [heap EXCEPT ![c] = snap] /\ Change(heap[active], op[c], snap)
  <2>1. CASE BuildRegistration(c)
    <3>1. op[c] \in Registrations
      BY <1>2, <2>1, DeregistrationTypes DEF BuildRegistration
    <3>2. /\ heap' = [heap EXCEPT ![c] = replaceService(heap[active], op[c])]
          /\ ~duplicate(op[c].endpoints)
          /\ \A i \in DOMAIN op[c].endpoints : ~taken(heap[active], op[c].service, op[c].endpoints[i].route)
      BY <1>2, <2>1 DEF BuildRegistration, Built
    <3>3. Change(heap[active], op[c], replaceService(heap[active], op[c]))
      BY <3>1, <3>2 DEF Change
    <3>4. QED
      BY <3>2, <3>3
  <2>2. CASE BuildDeregistration(c)
    <3>1. op[c] \in Deregistrations
      BY <1>2, <2>2, RegistrationTypes DEF BuildDeregistration
    <3>2. /\ heap' = [heap EXCEPT ![c] = removeServiceInstance(heap[active], op[c].service, op[c].address)]
          /\ knows(heap[active], op[c].service, op[c].address)
      BY <1>2, <2>2 DEF BuildDeregistration, Built
    <3>3. Change(heap[active], op[c], removeServiceInstance(heap[active], op[c].service, op[c].address))
      BY <3>1, <3>2 DEF Change
    <3>4. QED
      BY <3>2, <3>3
  <2>3. QED
    BY <2>1, <2>2
<1>5. PICK snap : heap' = [heap EXCEPT ![c] = snap] /\ Change(heap[active], op[c], snap)
  BY <1>4
<1>6. snap \in Snapshot
  BY <1>1, <1>5, ChangeIsSound DEF Sound
<1>7. IInv'
  <2>1. "validating" \in {"validating", "failed"} /\ "failed" # "validating"
    OBVIOUS
  <2>2. QED
    BY <1>1, <1>3, <1>5, <1>6, <2>1, HolderStep
<1>8. QED
  BY <1>1, <1>3, <1>5, <1>6, <1>7

\* The invariant, action by action.
LEMMA Inductive == IInv /\ [Next]_vars => IInv'
<1> SUFFICES ASSUME IInv, [Next]_vars PROVE IInv'
  OBVIOUS
<1>1. TypeOK
  BY DEF IInv
<1>2. ASSUME NEW c \in Calls, Reject(c)
      PROVE  IInv'
  <2>1. /\ UNCHANGED <<op, lock, heap, candidate, active>>
        /\ pc[c] = "idle" /\ pc' = [pc EXCEPT ![c] = "failed"]
        /\ answer' \in [Calls -> {0, 200, 400, 404}]
    BY <1>1, <1>2 DEF Reject, Answers, TypeOK
  <2>2. op' \in [Calls -> Registrations \cup Deregistrations \cup {None}]
    BY <1>1, <2>1 DEF TypeOK
  <2>3. QED
    BY <2>1, <2>2, OutsideStep
<1>3. ASSUME NEW c \in Calls, NEW argument \in Registrations \cup Deregistrations, Call(c, argument)
      PROVE  IInv'
  <2>1. /\ UNCHANGED <<lock, heap, candidate, active, answer>>
        /\ pc[c] = "idle" /\ pc' = [pc EXCEPT ![c] = "waiting"]
        /\ op' = [op EXCEPT ![c] = argument]
    BY <1>3 DEF Call
  <2>2. /\ op' \in [Calls -> Registrations \cup Deregistrations \cup {None}]
        /\ op'[c] = argument /\ \A d \in Calls \ {c} : op'[d] = op[d]
        /\ answer' \in [Calls -> {0, 200, 400, 404}]
    BY <1>1, <2>1 DEF TypeOK
  <2>3. QED
    BY <2>1, <2>2, OutsideStep
<1>4. ASSUME NEW c \in Calls, Return(c)
      PROVE  IInv'
  <2>1. /\ UNCHANGED <<op, lock, heap, candidate, active>>
        /\ pc[c] = "notifying" /\ pc' = [pc EXCEPT ![c] = "done"]
        /\ answer' \in [Calls -> {0, 200, 400, 404}]
    BY <1>1, <1>4 DEF Return, Answers, TypeOK
  <2>2. op' \in [Calls -> Registrations \cup Deregistrations \cup {None}]
    BY <1>1, <2>1 DEF TypeOK
  <2>3. QED
    BY <2>1, <2>2, OutsideStep
<1>5. ASSUME NEW c \in Calls, Work(c)
      PROVE  IInv'
  BY <1>5, CopyStep, CommitStep, FailStep, BuildStep DEF Work
<1>6. ASSUME UNCHANGED vars
      PROVE  IInv'
  BY <1>6 DEF vars, IInv, TypeOK, Own, Published
<1>7. QED
  BY <1>2, <1>3, <1>4, <1>5, <1>6 DEF Next

\* The invariant holds in every reachable state.
THEOREM Invariance == Spec => []IInv
<1>1. IInv /\ [Next]_vars => IInv'
  BY Inductive
<1>2. QED
  BY InitHolds, <1>1, PTL DEF Spec

\* Variables keep their types; above all, whatever a failed registration leaves of its candidate
\* is a snapshot still.
THEOREM TypeCorrect == Spec => []TypeOK
<1>1. IInv => TypeOK
  BY DEF IInv
<1>2. QED
  BY <1>1, Invariance, PTL

\* Replacing the routes of a service takes the old ones out and puts the new ones in, and is
\* refused before it could take a route from another (snapshot.go:99-141).
THEOREM RoutesAreIndexed == Spec => []RoutesIndexServices
<1>1. IInv => RoutesIndexServices
  BY DEF IInv, Sound, Indexed, RoutesIndexServices
<1>2. QED
  BY <1>1, Invariance, PTL

\* The slice of wildcard routes is kept up beside the map, by itself (snapshot.go:106-117,
\* 134-137): it has the same wildcard routes, without repetition.
THEOREM WildcardsAreListed == Spec => []WildcardsIndexRoutes
<1>1. IInv => WildcardsIndexRoutes
  <2> SUFFICES ASSUME IInv PROVE WildcardsIndexRoutes
    OBVIOUS
  <2> DEFINE snap == heap[active]
             list == snap.wildcards
             wild == {snap.routes[rt] : rt \in Wildcards} \ {None}
  <2>1. snap \in Snapshot /\ Listed(snap) /\ list \in Seq(RouteEntry)
    BY DEF IInv, Sound, Snapshot
  <2> HIDE DEF snap
  <2>2. \A i \in DOMAIN list : list[i] \in wild
    <3> SUFFICES ASSUME NEW i \in DOMAIN list PROVE list[i] \in wild
      OBVIOUS
    <3>1. list[i] \in RouteEntry /\ list[i].route \in Wildcards /\ snap.routes[list[i].route] = list[i]
      BY <2>1 DEF Listed
    <3>2. list[i] # None
      BY <3>1, NoneIsNoValue
    <3>3. QED
      BY <3>1, <3>2
  <2>3. \A e \in wild : \E i \in DOMAIN list : list[i] = e
    BY <2>1 DEF Listed
  <2>4. \A i, j \in DOMAIN list : list[i] = list[j] => i = j
    BY <2>1 DEF Listed
  <2>5. {list[i] : i \in DOMAIN list} = wild
    BY <2>2, <2>3
  <2> HIDE DEF list, wild
  <2>6. Len(list) = Cardinality(wild)
    <3>1. Len(list) \in Nat /\ DOMAIN list = 1..Len(list) /\ list \in [1..Len(list) -> wild]
      BY <2>1, <2>2, LenProperties
    <3>2. list \in Bijection(1..Len(list), wild)
      BY <2>3, <2>4, <3>1, Fun_IsBij
    <3>3. ExistsBijection(1..Len(list), wild)
      BY <3>2 DEF ExistsBijection
    <3>4. QED
      BY <3>1, <3>3, FS_CountingElements
  <2>7. QED
    BY <2>5, <2>6 DEF WildcardsIndexRoutes, list, wild, snap
<1>2. QED
  BY <1>1, Invariance, PTL

\* A registration looks for its address before it appends (snapshot.go:185-194).
THEOREM AddressesStayDistinct == Spec => []AddressesAreDistinct
<1>1. IInv => AddressesAreDistinct
  BY DEF IInv, Sound, Distinct, DistinctIn, AddressesAreDistinct
<1>2. QED
  BY <1>1, Invariance, PTL

-----------------------------------------------------------------------------
(* Steps                                                                   *)

\* Whoever writes to an object writes to its own candidate, which nobody has published.
LEMMA FrozenStep ==
  ASSUME IInv, [Next]_vars, NEW o \in Published
  PROVE  heap'[o] = heap[o]
<1>1. /\ TypeOK /\ o \in Snapshots
      /\ \A c \in Calls : pc[c] \in {"idle", "waiting", "building", "validating"} => o # c
  BY CallsFinite DEF IInv, Published, Snapshots
<1>2. \A c \in Calls : candidate[c] = c
  BY DEF IInv, Own
<1>3. ASSUME NEW c \in Calls, Work(c)
      PROVE  heap'[o] = heap[o]
  <2>1. pc[c] \in {"waiting", "building", "validating"} /\ o # c
    BY <1>1, <1>3 DEF Work, Copy, BuildRegistration, BuildDeregistration, RefuseDuplicate, RefuseTaken,
                      RefuseUnknown, RefuseInvalid, Commit
  <2>2. CASE Copy(c) \/ Commit(c) \/ RefuseDuplicate(c) \/ RefuseUnknown(c) \/ RefuseInvalid(c)
    BY <1>1, <2>1, <2>2 DEF Copy, Commit, RefuseDuplicate, RefuseUnknown, RefuseInvalid, TypeOK
  <2>3. CASE BuildRegistration(c) \/ BuildDeregistration(c)
    BY <1>1, <2>1, <2>3, BuildStep DEF TypeOK
  <2>4. CASE RefuseTaken(c)
    <3>1. \E snap : heap' = [heap EXCEPT ![c] = snap]
      BY <1>2, <2>4 DEF RefuseTaken
    <3>2. QED
      BY <1>1, <2>1, <3>1 DEF TypeOK
  <2>5. QED
    BY <1>3, <2>2, <2>3, <2>4 DEF Work
<1>4. QED
  BY <1>3 DEF Next, Reject, Call, Return, vars

\* The builder writes the copy only, never what has been published (manager.go:149).
THEOREM PublishedStays == Spec => PublishedIsFrozen
<1>1. IInv /\ [Next]_vars => [\A o \in Published : heap'[o] = heap[o]]_vars
  BY FrozenStep
<1>2. QED
  BY <1>1, Invariance, PTL DEF Spec, PublishedIsFrozen

\* A call that fails has a reason in its own payload or in a route another service owns.
LEMMA FailureStep ==
  ASSUME IInv, [Next]_vars, NEW c \in Calls, pc[c] \notin {"idle", "failed"}, pc'[c] = "failed"
  PROVE  IF answer'[c] = 400
         THEN /\ op[c].kind = "register"
              /\ \/ duplicate(op[c].endpoints)
                 \/ op[c].settings \notin AcceptedSettings
                 \/ \E s \in Services \ {op[c].service} : ConfigFor(s) # None /\
                     \E i \in DOMAIN op[c].endpoints, j \in DOMAIN ConfigFor(s).endpoints :
                         ConfigFor(s).endpoints[j].route = op[c].endpoints[i].route
         ELSE /\ answer'[c] = 404
              /\ op[c].kind = "deregister"
              /\ ~knows(heap[active], op[c].service, op[c].address)
<1>1. TypeOK /\ Sound(heap[active]) /\ settingsValid(heap[active]) /\ candidate[c] = c
  BY DEF IInv, Own
<1>2. RefuseDuplicate(c) \/ RefuseTaken(c) \/ RefuseUnknown(c) \/ RefuseInvalid(c)
  <2> USE <1>1 DEF TypeOK
  <2>1. ASSUME NEW d \in Calls, d # c
        PROVE  ~Work(d) /\ ~Reject(d) /\ ~Return(d)
               /\ \A argument \in Registrations \cup Deregistrations : ~Call(d, argument)
    BY <2>1 DEF Work, Copy, BuildRegistration, BuildDeregistration, RefuseDuplicate, RefuseTaken,
                RefuseUnknown, RefuseInvalid, Commit, Reject, Return, Call, Built, Fail
  <2>2. ~Copy(c) /\ ~BuildRegistration(c) /\ ~BuildDeregistration(c) /\ ~Commit(c) /\ ~Reject(c) /\ ~Return(c)
        /\ \A argument \in Registrations \cup Deregistrations : ~Call(c, argument)
    BY DEF Copy, BuildRegistration, BuildDeregistration, Commit, Reject, Return, Call, Built
  <2>3. ~UNCHANGED vars
    BY DEF vars
  <2>4. QED
    BY <2>1, <2>2, <2>3 DEF Next, Work
<1>3. ASSUME NEW status \in {400, 404}, Fail(c, status)
      PROVE  answer'[c] = status
  BY <1>1, <1>3 DEF Fail, Answers, TypeOK
<1>4. CASE RefuseDuplicate(c)
  BY <1>3, <1>4 DEF RefuseDuplicate
<1>5. CASE RefuseTaken(c)
  <2>1. /\ answer'[c] = 400 /\ op[c].kind = "register" /\ heap[c] = heap[active]
        /\ op[c] \in Registrations \cup Deregistrations
    BY <1>3, <1>5 DEF RefuseTaken, IInv, Own
  <2>2. op[c] \in Registrations
    BY <2>1, DeregistrationTypes
  <2>3. PICK i \in DOMAIN op[c].endpoints : taken(heap[active], op[c].service, op[c].endpoints[i].route)
    BY <1>1, <1>5, <2>1 DEF RefuseTaken
  <2> DEFINE rt == op[c].endpoints[i].route
             t == heap[active].routes[rt].service
  <2>4. rt \in Routes
    <3>1. op[c].endpoints[i] \in Endpoint
      BY <2>2, RegistrationTypes
    <3>2. QED
      BY <3>1 DEF Endpoint
  <2>5. heap[active].routes[rt] # None /\ t # op[c].service
    BY <2>3 DEF taken
  <2> HIDE DEF rt
  <2>6. /\ t \in Registered(heap[active])
        /\ \E j \in DOMAIN heap[active].services[t].endpoints :
                heap[active].services[t].endpoints[j].route = rt
    BY <1>1, <2>4, <2>5, SoundIsValid
  <2> HIDE DEF t
  <2>7. t \in Services \ {op[c].service} /\ ConfigFor(t) # None
    BY <2>5, <2>6 DEF Registered, ConfigFor
  <2>8. QED
    BY <2>1, <2>6, <2>7 DEF ConfigFor, rt
<1>6. CASE RefuseUnknown(c)
  <2>1. answer'[c] = 404 /\ op[c].kind = "deregister" /\ heap[c] = heap[active]
    BY <1>3, <1>6 DEF RefuseUnknown, IInv, Own
  <2>2. ~knows(heap[active], op[c].service, op[c].address)
    BY <1>1, <1>6, <2>1 DEF RefuseUnknown
  <2>3. QED
    BY <2>1, <2>2
<1>7. CASE RefuseInvalid(c)
  <2>1. answer'[c] = 400 /\ ~valid(heap[c]) /\ Change(heap[active], op[c], heap[c])
    BY <1>1, <1>3, <1>7 DEF RefuseInvalid, IInv, Own
  <2>2. routesValid(heap[c])
    BY <1>1, <2>1, ChangeIsSound
  <2>3. ~settingsValid(heap[c])
    BY <2>1, <2>2 DEF valid
  <2>4. op[c].kind = "register" /\ op[c].settings \notin AcceptedSettings
    BY <1>1, <2>1, <2>3, ChangeIsSound
  <2>5. QED
    BY <2>1, <2>4
<1>8. QED
  BY <1>2, <1>4, <1>5, <1>6, <1>7

\* The validators look at the settings of every service (manager.go:117-127), but those of the
\* others have passed them when they were committed: nobody is refused on their account.
THEOREM FailuresAreOwn == Spec => FailsForOwnReason
<1>1. IInv /\ [Next]_vars =>
        [\A c \in Calls :
            (pc[c] \notin {"idle", "failed"} /\ pc'[c] = "failed") =>
                IF answer'[c] = 400
                THEN /\ op[c].kind = "register"
                     /\ \/ duplicate(op[c].endpoints)
                        \/ op[c].settings \notin AcceptedSettings
                        \/ \E s \in Services \ {op[c].service} : ConfigFor(s) # None /\
                            \E i \in DOMAIN op[c].endpoints, j \in DOMAIN ConfigFor(s).endpoints :
                                ConfigFor(s).endpoints[j].route = op[c].endpoints[i].route
                ELSE /\ answer'[c] = 404
                     /\ op[c].kind = "deregister"
                     /\ ~knows(heap[active], op[c].service, op[c].address)]_vars
  BY FailureStep
<1>2. QED
  BY <1>1, Invariance, PTL DEF Spec, FailsForOwnReason

-----------------------------------------------------------------------------
(* ConfigManager implements ServiceRegistry                                *)

\* ByAddress says what it should of a list that names each address once.
LEMMA ByAddressValues ==
  ASSUME NEW instances, DistinctIn(instances)
  PROVE  /\ \A i \in DOMAIN instances : instances[i].address \in Addresses =>
                ByAddress(instances)[instances[i].address] = instances[i].scheme
         /\ \A a \in Addresses : (\A i \in DOMAIN instances : instances[i].address # a) =>
                ByAddress(instances)[a] = None
<1> DEFINE At(a) == {i \in DOMAIN instances : instances[i].address = a}
<1>1. \A a \in Addresses : ByAddress(instances)[a] =
        IF At(a) = {} THEN None ELSE instances[CHOOSE i \in At(a) : TRUE].scheme
  BY DEF ByAddress
<1>2. ASSUME NEW i \in DOMAIN instances, instances[i].address \in Addresses
      PROVE  ByAddress(instances)[instances[i].address] = instances[i].scheme
  <2>1. At(instances[i].address) = {i}
    BY DEF DistinctIn
  <2>2. (CHOOSE j \in {i} : TRUE) = i
    OBVIOUS
  <2> HIDE DEF At
  <2>3. QED
    BY <1>1, <1>2, <2>1, <2>2
<1>3. ASSUME NEW a \in Addresses, \A i \in DOMAIN instances : instances[i].address # a
      PROVE  ByAddress(instances)[a] = None
  <2>1. At(a) = {}
    BY <1>3
  <2> HIDE DEF At
  <2>2. QED
    BY <1>1, <2>1
<1>4. QED
  BY <1>2, <1>3

\* Read by address, a list of instances gives each address one scheme or none.
LEMMA ByAddressType ==
  ASSUME NEW instances \in Seq(Instance), DistinctIn(instances)
  PROVE  ByAddress(instances) \in [Addresses -> Schemes \cup {None}]
<1>1. \A i \in DOMAIN instances : instances[i] \in Instance
  OBVIOUS
<1>2. ASSUME NEW a \in Addresses
      PROVE  ByAddress(instances)[a] \in Schemes \cup {None}
  <2>1. CASE \E i \in DOMAIN instances : instances[i].address = a
    <3>1. PICK i \in DOMAIN instances : instances[i].address = a
      BY <2>1
    <3>2. ByAddress(instances)[a] = instances[i].scheme
      BY <3>1, ByAddressValues
    <3>3. QED
      BY <1>1, <3>1, <3>2 DEF Instance
  <2>2. CASE \A i \in DOMAIN instances : instances[i].address # a
    BY <2>2, ByAddressValues
  <2>3. QED
    BY <2>1, <2>2
<1>3. ByAddress(instances) = [a \in Addresses |-> ByAddress(instances)[a]]
  BY DEF ByAddress
<1>4. QED
  BY <1>2, <1>3

\* An upsert sets the scheme of one address.
LEMMA UpsertByAddress ==
  ASSUME NEW instances \in Seq(Instance), DistinctIn(instances), NEW next \in Instance
  PROVE  ByAddress(upsertInstanceSettings(instances, next)) =
            [ByAddress(instances) EXCEPT ![next.address] = next.scheme]
<1> DEFINE out == upsertInstanceSettings(instances, next)
<1>1. out \in Seq(Instance) /\ DistinctIn(out)
  BY UpsertKeepsDistinct
<1>2. /\ \E i \in DOMAIN out : out[i] = next
      /\ \A i \in DOMAIN instances : instances[i].address # next.address =>
            \E j \in DOMAIN out : out[j] = instances[i]
      /\ \A j \in DOMAIN out : out[j] = next \/ \E i \in DOMAIN instances : out[j] = instances[i]
  <2>1. CASE \E i \in DOMAIN instances : instances[i].address = next.address
    <3>1. out = [i \in DOMAIN instances |->
                    IF instances[i].address = next.address THEN next ELSE instances[i]]
      BY <2>1 DEF upsertInstanceSettings
    <3> HIDE DEF out
    <3>2. QED
      BY <2>1, <3>1
  <2>2. CASE ~(\E i \in DOMAIN instances : instances[i].address = next.address)
    <3>1. out = Append(instances, next)
      BY <2>2 DEF upsertInstanceSettings
    <3>2. /\ Len(instances) \in Nat /\ DOMAIN instances = 1..Len(instances)
          /\ DOMAIN Append(instances, next) = 1..(Len(instances) + 1)
          /\ \A i \in 1..Len(instances) : Append(instances, next)[i] = instances[i]
          /\ Append(instances, next)[Len(instances) + 1] = next
      OBVIOUS
    <3> HIDE DEF out
    <3>3. \A j \in DOMAIN out : j \in DOMAIN instances \/ j = Len(instances) + 1
      BY <3>1, <3>2
    <3>4. \A i \in DOMAIN instances : i \in DOMAIN out /\ out[i] = instances[i]
      BY <3>1, <3>2
    <3>5. Len(instances) + 1 \in DOMAIN out /\ out[Len(instances) + 1] = next
      BY <3>1, <3>2
    <3>6. QED
      BY <3>3, <3>4, <3>5
  <2>3. QED
    BY <2>1, <2>2
<1> HIDE DEF out
<1>3. next.address \in Addresses /\ \A i \in DOMAIN instances : instances[i].address \in Addresses
  <2>1. \A i \in DOMAIN instances : instances[i] \in Instance
    OBVIOUS
  <2>2. QED
    BY <2>1 DEF Instance
<1>4. ASSUME NEW a \in Addresses
      PROVE  ByAddress(out)[a] = [ByAddress(instances) EXCEPT ![next.address] = next.scheme][a]
  <2>1. ByAddress(instances) \in [Addresses -> Schemes \cup {None}]
    BY ByAddressType
  <2>2. CASE a = next.address
    <3>1. PICK i \in DOMAIN out : out[i] = next
      BY <1>2
    <3>2. ByAddress(out)[a] = next.scheme
      BY <1>1, <2>2, <3>1, ByAddressValues
    <3>3. QED
      BY <2>1, <2>2, <3>2
  <2>3. CASE a # next.address /\ \E i \in DOMAIN instances : instances[i].address = a
    <3>1. PICK i \in DOMAIN instances : instances[i].address = a
      BY <2>3
    <3>2. PICK j \in DOMAIN out : out[j] = instances[i]
      BY <1>2, <2>3, <3>1
    <3>3. ByAddress(out)[a] = ByAddress(instances)[a]
      BY <1>1, <3>1, <3>2, ByAddressValues
    <3>4. QED
      BY <2>1, <2>3, <3>3
  <2>4. CASE a # next.address /\ \A i \in DOMAIN instances : instances[i].address # a
    <3>1. \A j \in DOMAIN out : out[j].address # a
      BY <1>2, <2>4
    <3>2. ByAddress(out)[a] = None /\ ByAddress(instances)[a] = None
      BY <1>1, <2>4, <3>1, ByAddressValues
    <3>3. QED
      BY <2>1, <2>4, <3>2
  <2>5. QED
    BY <2>2, <2>3, <2>4
<1>5. ByAddress(out) = [a \in Addresses |-> ByAddress(out)[a]]
  BY DEF ByAddress
<1>6. DOMAIN [ByAddress(instances) EXCEPT ![next.address] = next.scheme] = Addresses
  BY ByAddressType
<1>7. QED
  BY <1>4, <1>5, <1>6 DEF out

\* The removal of an instance leaves nothing at its address.
LEMMA RemoveByAddress ==
  ASSUME NEW instances \in Seq(Instance), DistinctIn(instances), NEW address \in Addresses
  PROVE  LET others == {i \in DOMAIN instances : instances[i].address # address}
         IN ByAddress(Select(instances, others)) = [ByAddress(instances) EXCEPT ![address] = None]
<1> DEFINE others == {i \in DOMAIN instances : instances[i].address # address}
           out == Select(instances, others)
<1>1. /\ Once(out) /\ \A n \in DOMAIN out : \E i \in others : out[n] = instances[i]
      /\ \A i \in others : \E n \in DOMAIN out : out[n] = instances[i]
  <2>1. others \in SUBSET DOMAIN instances /\ \A i, j \in others : instances[i] = instances[j] => i = j
    BY DEF DistinctIn
  <2> HIDE DEF others
  <2>2. QED
    BY <2>1, SelectElements
<1> HIDE DEF out
<1>2. DistinctIn(out)
  <2> SUFFICES ASSUME NEW m \in DOMAIN out, NEW n \in DOMAIN out, out[m].address = out[n].address
               PROVE  m = n
    BY DEF DistinctIn
  <2>1. PICK i \in DOMAIN instances : out[m] = instances[i]
    BY <1>1
  <2>2. PICK j \in DOMAIN instances : out[n] = instances[j]
    BY <1>1
  <2>3. i = j
    BY <2>1, <2>2 DEF DistinctIn
  <2>4. QED
    BY <1>1, <2>1, <2>2, <2>3 DEF Once
<1>3. ByAddress(instances) \in [Addresses -> Schemes \cup {None}]
  BY ByAddressType
<1>4. ASSUME NEW a \in Addresses
      PROVE  ByAddress(out)[a] = [ByAddress(instances) EXCEPT ![address] = None][a]
  <2>1. CASE a = address
    <3>1. \A n \in DOMAIN out : out[n].address # a
      BY <1>1, <2>1
    <3>2. ByAddress(out)[a] = None
      BY <1>2, <3>1, ByAddressValues
    <3>3. QED
      BY <1>3, <2>1, <3>2
  <2>2. CASE a # address /\ \E i \in DOMAIN instances : instances[i].address = a
    <3>1. PICK i \in DOMAIN instances : instances[i].address = a
      BY <2>2
    <3>2. i \in others
      BY <2>2, <3>1
    <3>3. PICK j \in DOMAIN out : out[j] = instances[i]
      BY <1>1, <3>2
    <3>4. ByAddress(out)[a] = ByAddress(instances)[a]
      BY <1>2, <3>1, <3>3, ByAddressValues
    <3>5. QED
      BY <1>3, <2>2, <3>4
  <2>3. CASE a # address /\ \A i \in DOMAIN instances : instances[i].address # a
    <3>1. \A n \in DOMAIN out : out[n].address # a
      BY <1>1, <2>3
    <3>2. ByAddress(out)[a] = None /\ ByAddress(instances)[a] = None
      BY <1>2, <2>3, <3>1, ByAddressValues
    <3>3. QED
      BY <1>3, <2>3, <3>2
  <2>4. QED
    BY <2>1, <2>2, <2>3
<1>5. ByAddress(out) = [a \in Addresses |-> ByAddress(out)[a]]
  BY DEF ByAddress
<1>6. DOMAIN [ByAddress(instances) EXCEPT ![address] = None] = Addresses
  BY <1>3
<1>7. QED
  BY <1>4, <1>5, <1>6 DEF out

\* The services as callers see them.
View(snap) == [s \in Services |-> ServiceOf(snap.services[s])]
abs == [s \in Services |-> ServiceOf(ConfigFor(s))]

EndpointsOf(service) == {service.endpoints[i] : i \in DOMAIN service.endpoints}

\* What callers see of a sound snapshot.
LEMMA OfferTypes ==
  ASSUME NEW snap, Sound(snap), NEW s \in Services
  PROVE  /\ snap.services[s] = None => View(snap)[s] = None
         /\ snap.services[s] # None =>
                /\ snap.services[s] \in ServiceSettings
                /\ snap.services[s].instances \in Seq(Instance) /\ DistinctIn(snap.services[s].instances)
                /\ View(snap)[s] \in Offer /\ View(snap)[s] # None
                /\ View(snap)[s] = [settings |-> snap.services[s].settings,
                                    endpoints |-> EndpointsOf(snap.services[s]),
                                    instances |-> ByAddress(snap.services[s].instances)]
                /\ View(snap)[s].settings = snap.services[s].settings
                /\ View(snap)[s].endpoints = EndpointsOf(snap.services[s])
                /\ View(snap)[s].instances = ByAddress(snap.services[s].instances)
<1>1. View(snap)[s] = ServiceOf(snap.services[s])
  BY DEF View
<1>2. CASE snap.services[s] = None
  BY <1>1, <1>2 DEF ServiceOf
<1>3. CASE snap.services[s] # None
  <2>1. snap.services[s] \in ServiceSettings /\ DistinctIn(snap.services[s].instances)
    BY <1>3 DEF Sound, Snapshot, Distinct, Registered
  <2>2. /\ snap.services[s].settings \in Settings /\ snap.services[s].instances \in Seq(Instance)
        /\ snap.services[s].endpoints \in Seq(Endpoint)
    BY <2>1 DEF ServiceSettings
  <2>3. EndpointsOf(snap.services[s]) \subseteq Endpoint
    BY <2>2 DEF EndpointsOf
  <2>4. View(snap)[s] = [settings |-> snap.services[s].settings,
                         endpoints |-> EndpointsOf(snap.services[s]),
                         instances |-> ByAddress(snap.services[s].instances)]
    BY <1>1, <1>3 DEF ServiceOf, EndpointsOf
  <2>5. View(snap)[s] \in Offer
    BY <2>1, <2>2, <2>3, <2>4, ByAddressType DEF Offer
  <2>6. /\ View(snap)[s].settings = snap.services[s].settings
        /\ View(snap)[s].endpoints = EndpointsOf(snap.services[s])
        /\ View(snap)[s].instances = ByAddress(snap.services[s].instances)
    BY <2>4
  <2>7. QED
    BY <1>3, <2>1, <2>2, <2>4, <2>5, <2>6, NoneIsNoValue
<1>4. QED
  BY <1>2, <1>3

\* The list of endpoints that is registered, as a set.
LEMMA RegisteredEndpoints ==
  ASSUME NEW reg \in Registrations, ~duplicate(reg.endpoints)
  PROVE  /\ EndpointsOf(reg) \in (SUBSET Endpoint) \ {{}}
         /\ \A e1, e2 \in EndpointsOf(reg) : e1.route = e2.route => e1 = e2
<1>1. reg.endpoints \in Seq(Endpoint) /\ reg.endpoints # <<>>
  BY RegistrationTypes
<1>2. 1 \in DOMAIN reg.endpoints
  <2>1. Len(reg.endpoints) \in Nat /\ DOMAIN reg.endpoints = 1..Len(reg.endpoints)
    BY <1>1
  <2>2. Len(reg.endpoints) # 0
    BY <1>1, EmptySeq
  <2>3. QED
    BY <2>1, <2>2
<1>3. EndpointsOf(reg) \subseteq Endpoint /\ reg.endpoints[1] \in EndpointsOf(reg)
  BY <1>1, <1>2 DEF EndpointsOf
<1>4. \A e1, e2 \in EndpointsOf(reg) : e1.route = e2.route => e1 = e2
  BY DEF EndpointsOf, duplicate
<1>5. EndpointsOf(reg) # {}
  BY <1>3
<1>6. EndpointsOf(reg) \in (SUBSET Endpoint) \ {{}}
  BY <1>3, <1>5
<1>7. QED
  BY <1>4, <1>6

\* To callers, replacing a service is what a registration of the registry does.
LEMMA RegisterView ==
  ASSUME NEW old, Sound(old), NEW reg \in Registrations, Change(old, reg, replaceService(old, reg)),
         ~duplicate(reg.endpoints)
  PROVE  View(replaceService(old, reg)) =
            [View(old) EXCEPT ![reg.service] =
                [settings |-> reg.settings, endpoints |-> EndpointsOf(reg),
                 instances |-> [IF @ = None THEN [a \in Addresses |-> None] ELSE @.instances
                                EXCEPT ![reg.instance.address] = reg.instance.scheme]]]
<1> DEFINE new == replaceService(old, reg)
           s == reg.service
           was == old.services[s]
           service == buildService(was, reg)
           before == IF View(old)[s] = None THEN [a \in Addresses |-> None] ELSE View(old)[s].instances
           after == [before EXCEPT ![reg.instance.address] = reg.instance.scheme]
<1>1. /\ s \in Services /\ reg.instance \in Instance
      /\ reg.instance.address \in Addresses /\ reg.instance.scheme \in Schemes
  BY RegistrationTypes
<1>2. old \in Snapshot /\ Distinct(old) /\ Sound(new)
  BY ChangeIsSound DEF Sound
<1>3. new.services = [old.services EXCEPT ![s] = service]
  BY <1>2, Replaced
<1>4. old.services \in [Services -> ServiceSettings \cup {None}]
  BY <1>2 DEF Snapshot
<1>5. /\ service # None /\ service.endpoints = reg.endpoints /\ service.settings = reg.settings
      /\ service.instances = IF was = None THEN <<reg.instance>>
                             ELSE upsertInstanceSettings(was.instances, reg.instance)
  <2>1. was # None => DistinctIn(was.instances)
    BY <1>1, <1>2 DEF Distinct, Registered
  <2>2. service # None /\ service.endpoints = reg.endpoints /\ service.settings = reg.settings
    BY <1>1, <1>4, <2>1, BuildTypes
  <2>3. QED
    BY <2>2 DEF buildService
<1> HIDE DEF new, service, s
<1>6. ByAddress(service.instances) = after
  <2>1. CASE was = None
    <3>1. before = [a \in Addresses |-> None]
      BY <1>1, <2>1, OfferTypes
    <3>2. service.instances = <<reg.instance>>
      BY <1>5, <2>1
    <3>3. DistinctIn(<<reg.instance>>) /\ DOMAIN <<reg.instance>> = {1} /\ <<reg.instance>>[1] = reg.instance
      BY DEF DistinctIn
    <3> DEFINE list == <<reg.instance>>
    <3> HIDE DEF list
    <3>4. /\ ByAddress(list)[reg.instance.address] = reg.instance.scheme
          /\ \A a \in Addresses \ {reg.instance.address} : ByAddress(list)[a] = None
      BY <1>1, <3>3, ByAddressValues DEF list
    <3>5. ByAddress(list) = [a \in Addresses |-> ByAddress(list)[a]]
      BY DEF ByAddress
    <3> HIDE DEF before
    <3>6. \A a \in Addresses : ByAddress(list)[a] = after[a]
      BY <1>1, <3>1, <3>4
    <3>7. DOMAIN after = Addresses
      BY <3>1
    <3> HIDE DEF after
    <3>8. ByAddress(list) = after
      BY <3>5, <3>6, <3>7 DEF after, before
    <3>9. QED
      BY <3>2, <3>8 DEF list
  <2>2. CASE was # None
    <3>1. /\ before = ByAddress(was.instances)
          /\ was.instances \in Seq(Instance) /\ DistinctIn(was.instances)
      <4>1. /\ was.instances \in Seq(Instance) /\ DistinctIn(was.instances)
            /\ View(old)[s] # None
            /\ View(old)[s] = [settings |-> was.settings, endpoints |-> EndpointsOf(was),
                               instances |-> ByAddress(was.instances)]
        BY <1>1, <2>2, OfferTypes
      <4> HIDE DEF was
      <4>2. QED
        BY <4>1
    <3>2. service.instances = upsertInstanceSettings(was.instances, reg.instance)
      BY <1>5, <2>2
    <3> HIDE DEF was, before
    <3>3. QED
      BY <1>1, <3>1, <3>2, UpsertByAddress
  <2>3. QED
    BY <2>1, <2>2
<1> HIDE DEF after
<1>7. View(new)[s] = [settings |-> reg.settings, endpoints |-> EndpointsOf(reg), instances |-> after]
  <2>1. new.services[s] = service
    BY <1>1, <1>3, <1>4
  <2>2. View(new)[s] = [settings |-> service.settings, endpoints |-> EndpointsOf(service),
                        instances |-> ByAddress(service.instances)]
    BY <1>1, <1>2, <1>5, <2>1, OfferTypes
  <2>3. EndpointsOf(service) = EndpointsOf(reg)
    BY <1>5 DEF EndpointsOf
  <2>4. QED
    BY <1>5, <1>6, <2>2, <2>3
<1>8. \A t \in Services \ {s} : View(new)[t] = View(old)[t]
  BY <1>3, <1>4 DEF View
<1>9. View(new) = [View(old) EXCEPT ![s] =
                    [settings |-> reg.settings, endpoints |-> EndpointsOf(reg), instances |-> after]]
  BY <1>1, <1>7, <1>8 DEF View
<1>10. QED
  BY <1>9 DEF new, s, after, before

\* To callers, removing an instance is what a deregistration of the registry does.
LEMMA DeregisterView ==
  ASSUME NEW old, Sound(old), NEW s \in Registered(old), NEW address \in Addresses
  PROVE  View(removeServiceInstance(old, s, address)) = [View(old) EXCEPT ![s].instances[address] = None]
<1> DEFINE new == removeServiceInstance(old, s, address)
           was == old.services[s]
           others == {i \in DOMAIN was.instances : was.instances[i].address # address}
<1>1. old \in Snapshot /\ s \in Services /\ old.services[s] # None /\ Sound(new)
  BY RemovalIsSound DEF Sound, Registered
<1>2. /\ Registered(new) = Registered(old)
      /\ \A t \in Services \ {s} : new.services[t] = old.services[t]
      /\ new.services[s].settings = was.settings /\ new.services[s].endpoints = was.endpoints
      /\ new.services[s].instances = Select(was.instances, others)
  BY <1>1, InstanceRemoved
<1> HIDE DEF new
<1>3. new.services[s] # None
  BY <1>1, <1>2 DEF Registered
<1>4. /\ was.instances \in Seq(Instance) /\ DistinctIn(was.instances)
      /\ View(old)[s] = [settings |-> was.settings, endpoints |-> EndpointsOf(was),
                         instances |-> ByAddress(was.instances)]
  BY <1>1, OfferTypes
<1>5. View(new)[s] = [settings |-> was.settings, endpoints |-> EndpointsOf(new.services[s]),
                      instances |-> ByAddress(Select(was.instances, others))]
  BY <1>1, <1>2, <1>3, OfferTypes
<1>6. EndpointsOf(new.services[s]) = EndpointsOf(was)
  BY <1>2 DEF EndpointsOf
<1> HIDE DEF was
<1>7. ByAddress(Select(was.instances, others)) = [ByAddress(was.instances) EXCEPT ![address] = None]
  BY <1>4, RemoveByAddress
<1> HIDE DEF others
<1>8. View(new)[s] = [View(old)[s] EXCEPT !.instances[address] = None]
  BY <1>4, <1>5, <1>6, <1>7
<1>9. \A t \in Services \ {s} : View(new)[t] = View(old)[t]
  BY <1>2 DEF View
<1>10. View(new) = [View(old) EXCEPT ![s].instances[address] = None]
  BY <1>1, <1>8, <1>9 DEF View
<1>11. QED
  BY <1>10 DEF new

\* Only a commit can be seen.
LEMMA InvisibleStep ==
  ASSUME IInv, [Next]_vars, active' = active
  PROVE  abs' = abs
<1>1. heap'[active'] = heap[active]
  BY FrozenStep DEF IInv
<1>2. QED
  BY <1>1 DEF abs, ConfigFor

\* A route of a registration is no other service's.
LEMMA RoutesAreApart ==
  ASSUME NEW old, Sound(old), NEW reg \in Registrations,
         \A i \in DOMAIN reg.endpoints : ~taken(old, reg.service, reg.endpoints[i].route),
         NEW other \in Services \ {reg.service}, old.services[other] # None
  PROVE  {e.route : e \in EndpointsOf(reg)} \cap {e.route : e \in EndpointsOf(old.services[other])} = {}
<1> SUFFICES ASSUME NEW i \in DOMAIN reg.endpoints, NEW j \in DOMAIN old.services[other].endpoints,
                    reg.endpoints[i].route = old.services[other].endpoints[j].route
             PROVE  FALSE
  BY DEF EndpointsOf
<1> DEFINE e == old.services[other].endpoints[j]
<1>1. old \in Snapshot /\ Indexed(old) /\ other \in Registered(old)
  BY DEF Sound, Registered
<1>2. old.services[other] \in ServiceSettings
  BY <1>1 DEF Snapshot
<1>3. e \in Endpoint
  BY <1>2 DEF ServiceSettings
<1>4. e.route \in Routes /\ e.roles \in RoleSets /\ e = [route |-> e.route, roles |-> e.roles]
  BY <1>3 DEF Endpoint
<1> HIDE DEF e
<1>5. \E k \in DOMAIN old.services[other].endpoints :
        old.services[other].endpoints[k] = [route |-> e.route, roles |-> e.roles]
  BY <1>4 DEF e
<1>6. old.routes[e.route] = [service |-> other, route |-> e.route, roles |-> e.roles]
  BY <1>1, <1>4, <1>5 DEF Indexed
<1>7. [service |-> other, route |-> e.route, roles |-> e.roles] \in RouteEntry
  BY <1>4 DEF RouteEntry
<1>8. taken(old, reg.service, e.route)
  BY <1>6, <1>7, NoneIsNoValue DEF taken
<1>9. QED
  BY <1>8 DEF e

\* A commit is one step of the registry.
LEMMA CommitRefines ==
  ASSUME IInv, NEW c \in Calls, Commit(c)
  PROVE  Registry!Next
<1> DEFINE old == heap[active]
<1>1. TypeOK /\ Sound(old) /\ candidate[c] = c
  BY DEF IInv, Own
<1>2. pc[c] = "validating" /\ Change(old, op[c], heap[c]) /\ settingsValid(heap[c])
      /\ op[c] \in Registrations \cup Deregistrations
  BY <1>1 DEF Commit, valid, IInv, Own
<1>3. abs = View(old) /\ abs' = View(heap[c])
  BY <1>1 DEF Commit, abs, ConfigFor, View
<1> HIDE DEF old
<1>4. CASE op[c] \in Registrations
  <2> DEFINE reg == op[c]
             s == reg.service
  <2>1. /\ ~duplicate(reg.endpoints) /\ heap[c] = replaceService(old, reg)
        /\ \A i \in DOMAIN reg.endpoints : ~taken(old, s, reg.endpoints[i].route)
    BY <1>2, <1>4, RegistrationTypes, DeregistrationTypes DEF Change
  <2>2. /\ s \in Services /\ reg.instance.address \in Addresses /\ reg.instance.scheme \in Schemes
    BY <1>4, RegistrationTypes
  <2>3. reg.settings \in AcceptedSettings
    <3>1. Registered(heap[c]) = Registered(old) \cup {s}
      <4>1. old \in Snapshot /\ Distinct(old)
        BY <1>1 DEF Sound
      <4>2. Registered(replaceService(old, op[c])) = Registered(old) \cup {op[c].service}
        BY <1>4, <4>1, Replaced
      <4>3. QED
        BY <2>1, <4>2
    <3>2. Sound(heap[c])
      BY <1>1, <1>2, ChangeIsSound
    <3>3. heap[c].services[s].settings = View(heap[c])[s].settings
      BY <2>2, <3>1, <3>2, OfferTypes DEF Registered
    <3>4. View(heap[c]) = [View(old) EXCEPT ![s] =
            [settings |-> reg.settings, endpoints |-> EndpointsOf(reg),
             instances |-> [IF @ = None THEN [a \in Addresses |-> None] ELSE @.instances
                            EXCEPT ![reg.instance.address] = reg.instance.scheme]]]
      BY <1>1, <1>2, <1>4, <2>1, RegisterView
    <3>5. DOMAIN View(old) = Services
      BY DEF View
    <3> HIDE DEF reg, s
    <3>6. View(heap[c])[s].settings = reg.settings
      BY <2>2, <3>4, <3>5
    <3>7. QED
      BY <1>2, <3>1, <3>3, <3>6 DEF settingsValid
  <2>4. /\ EndpointsOf(reg) \in (SUBSET Registry!Endpoint) \ {{}}
        /\ \A e1, e2 \in EndpointsOf(reg) : e1.route = e2.route => e1 = e2
    BY <1>4, <2>1, RegisteredEndpoints DEF Endpoint, Registry!Endpoint
  <2>5. \A other \in Services \ {s} : abs[other] # None =>
          Registry!RoutesOf(EndpointsOf(reg)) \cap Registry!RoutesOf(abs[other].endpoints) = {}
    <3> SUFFICES ASSUME NEW other \in Services \ {s}, abs[other] # None
                 PROVE  Registry!RoutesOf(EndpointsOf(reg)) \cap Registry!RoutesOf(abs[other].endpoints) = {}
      OBVIOUS
    <3>1. old.services[other] # None /\ abs[other].endpoints = EndpointsOf(old.services[other])
      <4> HIDE DEF s
      <4>1. other \in Services /\ abs[other] = View(old)[other]
        BY <1>3
      <4>2. QED
        BY <1>1, <4>1, OfferTypes
    <3>2. QED
      BY <1>1, <1>4, <2>1, <3>1, RoutesAreApart DEF Registry!RoutesOf
  <2>6. abs' = [abs EXCEPT ![s] =
                  [settings |-> reg.settings, endpoints |-> EndpointsOf(reg),
                   instances |-> [IF @ = None THEN [a \in Addresses |-> None] ELSE @.instances
                                  EXCEPT ![reg.instance.address] = reg.instance.scheme]]]
    BY <1>1, <1>2, <1>3, <1>4, <2>1, RegisterView
  <2> HIDE DEF reg, s
  <2>7. Registry!Register(s, reg.settings, EndpointsOf(reg), reg.instance.address, reg.instance.scheme)
    BY <2>4, <2>5, <2>6 DEF Registry!Register, Registry!NoInstances, abs
  <2>8. QED
    BY <2>2, <2>3, <2>4, <2>7 DEF Registry!Next
<1>5. CASE op[c] \in Deregistrations
  <2> DEFINE s == op[c].service
             address == op[c].address
  <2>1. knows(old, s, address) /\ heap[c] = removeServiceInstance(old, s, address)
    BY <1>2, <1>5, RegistrationTypes, DeregistrationTypes DEF Change
  <2>2. s \in Services /\ address \in Addresses /\ s \in Registered(old)
    BY <1>5, <2>1, DeregistrationTypes DEF knows, Registered
  <2> HIDE DEF s, address
  <2>3. /\ abs[s] # None
        /\ old.services[s].instances \in Seq(Instance) /\ DistinctIn(old.services[s].instances)
        /\ abs[s].instances = ByAddress(old.services[s].instances)
    <3>1. abs[s] = View(old)[s] /\ old.services[s] # None
      BY <1>3, <2>2 DEF Registered
    <3>2. QED
      BY <1>1, <2>2, <3>1, OfferTypes
  <2>4. PICK i \in DOMAIN old.services[s].instances : old.services[s].instances[i].address = address
    BY <2>1 DEF knows
  <2>5. abs[s].instances[address] = old.services[s].instances[i].scheme
    BY <2>2, <2>3, <2>4, ByAddressValues
  <2>6. abs[s].instances[address] # None
    <3>1. old.services[s].instances[i] \in Instance
      BY <2>3
    <3>2. QED
      BY <2>5, <3>1, NoneIsNoValue DEF Instance
  <2>7. abs' = [abs EXCEPT ![s].instances[address] = None]
    BY <1>1, <1>3, <2>1, <2>2, DeregisterView
  <2>8. Registry!Deregister(s, address)
    BY <2>3, <2>6, <2>7 DEF Registry!Deregister, abs
  <2>9. QED
    BY <2>2, <2>8 DEF Registry!Next
<1>6. QED
  BY <1>2, <1>4, <1>5

\* The manager, with its copies, its lock and its validators, implements the registry: what
\* callers see changes with a commit only, and then as one registration or deregistration
\* demands.
THEOREM ImplementsRegistry == Spec => RegistrySpec
<1>1. Init => Registry!Init
  BY DEF Init, Registry!Init, ConfigFor, ServiceOf, EmptySnapshot, Snapshots
<1>2. ASSUME IInv, [Next]_vars
      PROVE  Registry!Next \/ abs' = abs
  <2>1. (\E c \in Calls : Commit(c)) \/ active' = active
    BY <1>2 DEF Next, Work, Reject, Call, Return, Copy, BuildRegistration, BuildDeregistration, Built,
                RefuseDuplicate, RefuseTaken, RefuseUnknown, RefuseInvalid, Fail, vars
  <2>2. QED
    BY <1>2, <2>1, CommitRefines, InvisibleStep
<1>3. IInv /\ [Next]_vars => [Registry!Next]_[s \in Services |-> ServiceOf(ConfigFor(s))]
  BY <1>2 DEF abs
<1>4. QED
  BY Invariance, <1>1, <1>3, PTL DEF Spec, RegistrySpec, Registry!Spec

=============================================================================

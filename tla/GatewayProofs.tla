---------------------------- MODULE GatewayProofs ----------------------------
(***************************************************************************)
(* Proofs about Gateway and TokenDecoder: for any number of requests, any  *)
(* snapshots the configuration manager may commit, any tokens and clocks.  *)
(***************************************************************************)
EXTENDS Gateway, NaturalsLemmas, FunctionTheorems, FiniteSetTheorems, SequenceTheorems

-----------------------------------------------------------------------------
(* The decision about a token                                              *)

\* What DecodeFor accepts was made for the service and holds around now, unless its dates
\* contradict each other.
LEMMA DecodesSound ==
  ASSUME NEW settings \in AuthSettings, authValid(settings), NEW token \in Token,
         NEW now \in Nat, decodes(settings, token, now)
  PROVE  /\ MadeFor(settings, token)
         /\ HoldsAround(token, now, settings.skew) \/ Contradictory(token)
<1>1. MadeFor(settings, token)
  <2>1. CASE settings.algorithm = "HS256"
    BY <2>1 DEF decodes, verifySignature, signingKeys, validateClaims, MadeFor
  <2>2. CASE settings.algorithm = "RS256"
    <3>1. PICK i \in Usable(settings.jwks) :
            settings.jwks[i].kid = token.kid /\ token.signer = settings.jwks[i].pair
      BY <2>2 DEF decodes, verifySignature, signingKeys
    <3>2. settings.jwks[i] \in JWK /\ settings.jwks[i].usable = TRUE /\ i \in DOMAIN settings.jwks
      <4>1. settings.jwks \in Seq(JWK) /\ i \in DOMAIN settings.jwks /\ settings.jwks[i].usable
        BY <3>1 DEF Usable, AuthSettings
      <4>2. settings.jwks[i] \in JWK
        BY <4>1
      <4>3. settings.jwks[i].usable \in BOOLEAN
        BY <4>2 DEF JWK
      <4>4. QED
        BY <4>1, <4>2, <4>3
    <3>3. settings.jwks[i] = [usable |-> TRUE, kid |-> token.kid, pair |-> token.signer]
      BY <3>1, <3>2 DEF JWK
    <3>4. QED
      BY <2>2, <3>2, <3>3 DEF decodes, verifySignature, validateClaims, MadeFor
  <2>3. QED
    BY <2>1, <2>2 DEF AuthSettings, Algorithms
<1>2. ASSUME ~Contradictory(token)
      PROVE  HoldsAround(token, now, settings.skew)
  <2> DEFINE skew == settings.skew
  <2>1. /\ skew \in Nat /\ token.expires \in Nat
        /\ now <= token.expires + skew
        /\ token.notBefore # None => token.notBefore \in Nat /\ token.notBefore <= now + skew
                                     /\ token.notBefore <= token.expires
        /\ token.issuedAt # None => token.issuedAt \in Nat /\ token.issuedAt <= now + skew
                                    /\ token.issuedAt <= token.expires
    BY <1>2 DEF decodes, validateClaims, Contradictory, HoldsAt, AuthSettings, Token
  <2> HIDE DEF skew
  <2>2. PICK t \in Int :
          /\ t >= now - skew /\ t <= now + skew /\ t <= token.expires
          /\ token.notBefore # None => token.notBefore <= t
          /\ token.issuedAt # None => token.issuedAt <= t
    <3>1. \A a, b \in Int : \E t \in {a, b} : a <= t /\ b <= t
      OBVIOUS
    <3>2. PICK a \in Int : /\ a >= now - skew /\ a <= now + skew /\ a <= token.expires
                           /\ token.notBefore # None => token.notBefore <= a
      <4>1. CASE token.notBefore = None
        BY <2>1, <4>1
      <4>2. CASE token.notBefore # None
        BY <2>1, <4>2, <3>1
      <4>3. QED
        BY <4>1, <4>2
    <3>3. CASE token.issuedAt = None
      BY <3>2, <3>3
    <3>4. CASE token.issuedAt # None
      <4>1. PICK t \in {a, token.issuedAt} : a <= t /\ token.issuedAt <= t
        BY <2>1, <3>1, <3>4
      <4>2. token.notBefore # None => token.notBefore <= t
        BY <2>1, <3>2, <4>1, <3>4
      <4>3. t \in Int /\ t >= now - skew /\ t <= now + skew /\ t <= token.expires
        BY <2>1, <3>2, <4>1, <3>4
      <4>4. QED
        BY <4>1, <4>2, <4>3
    <3>5. QED
      BY <3>3, <3>4
  <2>3. HoldsAt(token, t)
    BY <2>1, <2>2, NoneIsNoValue DEF HoldsAt
  <2>4. t \in (now - skew)..(now + skew)
    BY <2>1, <2>2
  <2>5. QED
    BY <2>3, <2>4 DEF HoldsAround, skew
<1>3. QED
  BY <1>1, <1>2

\* And whatever was made for the service and holds around now, it accepts.
LEMMA DecodesComplete ==
  ASSUME NEW settings \in AuthSettings, authValid(settings), NEW token \in Token,
         NEW now \in Nat, Genuine(settings, token, now)
  PROVE  decodes(settings, token, now)
<1>1. verifySignature(settings, token)
  <2>1. CASE settings.algorithm = "HS256"
    BY <2>1 DEF Genuine, MadeFor, verifySignature, signingKeys
  <2>2. CASE settings.algorithm = "RS256"
    <3>1. PICK i \in DOMAIN settings.jwks :
            settings.jwks[i] = [usable |-> TRUE, kid |-> token.kid, pair |-> token.signer]
      BY <2>2 DEF Genuine, MadeFor
    <3>2. i \in Usable(settings.jwks) /\ settings.jwks[i].kid = token.kid
          /\ settings.jwks[i].pair = token.signer
      BY <3>1 DEF Usable
    <3>3. token.kid # None
      BY <2>2, <3>2 DEF authValid, keySetValid
    <3>4. token.signer \in signingKeys(settings, token.kid)
      BY <2>2, <3>2 DEF signingKeys
    <3>5. QED
      BY <3>3, <3>4 DEF Genuine, MadeFor, verifySignature
  <2>3. QED
    BY <2>1, <2>2 DEF AuthSettings, Algorithms
<1>2. validateClaims(settings, token, now)
  <2>1. PICK t \in (now - settings.skew)..(now + settings.skew) : HoldsAt(token, t)
    BY DEF Genuine, HoldsAround
  <2>2. settings.skew \in Nat
    BY DEF AuthSettings
  <2>3. /\ token.expires # None => token.expires \in Nat
        /\ token.notBefore # None => token.notBefore \in Nat
        /\ token.issuedAt # None => token.issuedAt \in Nat
    BY DEF Token
  <2>4. QED
    BY <2>1, <2>2, <2>3 DEF Genuine, MadeFor, HoldsAt, validateClaims
<1>3. QED
  BY <1>1, <1>2 DEF decodes

-----------------------------------------------------------------------------
(* The two indexes of a snapshot                                           *)

\* The parts of a snapshot.
LEMMA SnapshotTypes ==
  ASSUME NEW snap \in Snapshots
  PROVE  /\ snap \in Snapshot /\ Committable(snap)
         /\ \A s \in Services : snap.services[s] # None => snap.services[s] \in Service
         /\ \A k \in RouteKey : snap.routes[k] # None => snap.routes[k] \in RouteEntry
         /\ snap.wildcards \in Seq(RouteEntry)
<1>1. snap \in Snapshot /\ Committable(snap)
  BY SnapshotsAreCommittable
<1>2. QED
  BY <1>1 DEF Snapshot

\* The parts of a registered service, with what its validation has established.
LEMMA ServiceTypes ==
  ASSUME NEW snap \in Snapshots, NEW s \in Services, snap.services[s] # None
  PROVE  /\ snap.services[s].auth \in AuthSettings /\ authValid(snap.services[s].auth)
         /\ snap.services[s].instances \in Seq(Instances)
         /\ snap.services[s].endpoints \subseteq Endpoint
         /\ LET list == snap.services[s].instances
            IN \A i, j \in 1..Len(list) : list[i] = list[j] => i = j
<1>1. snap.services[s] \in Service /\ Committable(snap) /\ s \in Registered(snap)
  BY SnapshotTypes DEF Registered
<1>2. snap.services[s].instances \in Seq(Instances)
  BY <1>1 DEF Service
<1>3. DOMAIN snap.services[s].instances = 1..Len(snap.services[s].instances)
  BY <1>2
<1>4. QED
  BY <1>1, <1>2, <1>3 DEF Service, Committable

\* The exact index leads to the entries of the registered services, each at its own key.
LEMMA RoutesLeadToEntries ==
  ASSUME NEW snap \in Snapshots
  PROVE  /\ \A k \in RouteKey : snap.routes[k] # None =>
                /\ snap.routes[k] \in EntriesOf(snap)
                /\ snap.routes[k].method = k.method /\ snap.routes[k].path = k.path
         /\ \A e \in EntriesOf(snap) :
                /\ e \in RouteEntry /\ e.service \in Registered(snap)
                /\ snap.routes[[method |-> e.method, path |-> e.path]] = e
<1>1. Committable(snap) /\ snap \in Snapshot
  BY SnapshotTypes
<1>2. ASSUME NEW k \in RouteKey, snap.routes[k] # None
      PROVE  /\ snap.routes[k] \in EntriesOf(snap)
             /\ snap.routes[k].method = k.method /\ snap.routes[k].path = k.path
  BY <1>1, <1>2 DEF Committable
<1>3. ASSUME NEW e \in EntriesOf(snap)
      PROVE  /\ e \in RouteEntry /\ e.service \in Registered(snap)
             /\ snap.routes[[method |-> e.method, path |-> e.path]] = e
  <2>1. PICK s \in Registered(snap) : \E p \in snap.services[s].endpoints :
          e = [service |-> s, method |-> p.method, path |-> p.path, roles |-> p.roles]
    BY DEF EntriesOf
  <2>2. PICK p \in snap.services[s].endpoints :
          e = [service |-> s, method |-> p.method, path |-> p.path, roles |-> p.roles]
    BY <2>1
  <2>3. p \in Endpoint
    BY <2>2, ServiceTypes DEF Registered
  <2>4. e \in RouteEntry /\ e.service = s
    BY <2>3, <2>2 DEF RouteEntry, Endpoint, Registered
  <2>5. PICK k \in RouteKey : snap.routes[k] = e
    BY <1>1 DEF Committable
  <2>6. snap.routes[k] # None
    BY <2>4, <2>5, NoneIsNoValue
  <2>7. k = [method |-> e.method, path |-> e.path]
    BY <1>1, <2>5, <2>6 DEF Committable
  <2>8. QED
    BY <2>1, <2>4, <2>5, <2>7
<1>4. QED
  BY <1>2, <1>3

\* RouteFor finds an entry that matches most closely, and none only if none matches.
LEMMA RouteIsClosest ==
  ASSUME NEW snap \in Snapshots, NEW method \in Methods, NEW path \in Paths
  PROVE  LET e == routeFor(snap, method, path) IN
         /\ e = None => Matching(snap, method, path) = {}
         /\ e # None => /\ e \in Matching(snap, method, path)
                        /\ \A o \in Matching(snap, method, path) : Closeness(o) <= Closeness(e)
<1> DEFINE at(m) == snap.routes[[method |-> m, path |-> path]]
           wild == snap.wildcards
           matching == {i \in DOMAIN wild :
                wild[i].method \in {method, "ALL"} /\ path \in Under[wild[i].path]}
           first == CHOOSE i \in matching : \A j \in matching : i <= j
           e == routeFor(snap, method, path)
<1>1. /\ [method |-> method, path |-> path] \in RouteKey
      /\ [method |-> "ALL", path |-> path] \in RouteKey
  BY MethodsIncludeAll DEF RouteKey
<1>2. e = IF at(method) # None /\ path \notin Wildcards THEN at(method)
          ELSE IF at("ALL") # None /\ path \notin Wildcards THEN at("ALL")
          ELSE IF matching # {} THEN wild[first]
          ELSE None
  BY DEF routeFor
<1>3. \A m \in {method, "ALL"} : at(m) # None =>
        at(m) \in EntriesOf(snap) /\ at(m).method = m /\ at(m).path = path
  BY <1>1, RoutesLeadToEntries
<1>4. \A o \in EntriesOf(snap) :
        o # None /\ snap.routes[[method |-> o.method, path |-> o.path]] = o
  BY RoutesLeadToEntries, NoneIsNoValue
<1>5. ASSUME NEW o \in Matching(snap, method, path), o.path \notin Wildcards
      PROVE  path \notin Wildcards /\ at(o.method) = o /\ at(o.method) # None
             /\ o.method \in {method, "ALL"}
  BY <1>4, <1>5 DEF Matching
<1>6. {wild[i] : i \in DOMAIN wild} = {o \in EntriesOf(snap) : o.path \in Wildcards}
  BY SnapshotTypes DEF Committable
<1>7. ASSUME NEW o \in Matching(snap, method, path), o.path \in Wildcards
      PROVE  matching # {}
  <2>1. o \in EntriesOf(snap) /\ o.method \in {method, "ALL"} /\ path \in Under[o.path]
    BY <1>7 DEF Matching
  <2>2. PICK i \in DOMAIN wild : wild[i] = o
    BY <1>6, <1>7, <2>1
  <2>3. QED
    BY <2>1, <2>2
<1>8. matching # {} => first \in matching
  <2>1. matching \in SUBSET Nat
    BY SnapshotTypes
  <2>2. matching # {} => \E i \in matching : \A j \in matching : i <= j
    BY <2>1, LeastElement
  <2>3. QED
    BY <2>2
<1>9. \A o : Closeness(o) \in {0, 1, 2}
  BY DEF Closeness
<1>10. CASE at(method) # None /\ path \notin Wildcards
  <2>1. e = at(method) /\ e \in EntriesOf(snap) /\ e.method = method /\ e.path = path
    BY <1>2, <1>3, <1>10
  <2>2. e \in Matching(snap, method, path)
    BY <1>10, <2>1 DEF Matching
  <2>3. ASSUME NEW o \in Matching(snap, method, path)
        PROVE  Closeness(o) <= Closeness(e)
    <3>1. CASE method = "ALL"
      <4>1. o.method = "ALL"
        BY <3>1 DEF Matching
      <4>2. QED
        BY <1>10, <2>1, <3>1, <4>1 DEF Closeness
    <3>2. CASE method # "ALL"
      <4>1. Closeness(e) = 2
        BY <1>10, <2>1, <3>2 DEF Closeness
      <4>2. QED
        BY <1>9, <4>1
    <3>3. QED
      BY <3>1, <3>2
  <2>4. QED
    BY <2>1, <2>2, <2>3, <1>4
<1>11. CASE ~(at(method) # None /\ path \notin Wildcards) /\ at("ALL") # None /\ path \notin Wildcards
  <2>1. e = at("ALL") /\ e \in EntriesOf(snap) /\ e.method = "ALL" /\ e.path = path
    BY <1>2, <1>3, <1>11
  <2>2. e \in Matching(snap, method, path) /\ Closeness(e) = 1
    BY <1>11, <2>1 DEF Matching, Closeness
  <2>3. ASSUME NEW o \in Matching(snap, method, path)
        PROVE  Closeness(o) <= 1
    <3>1. o.path \notin Wildcards => o.method = "ALL"
      BY <1>5, <1>11
    <3>2. QED
      BY <3>1 DEF Closeness
  <2>4. QED
    BY <2>1, <2>2, <2>3, <1>4
<1>12. CASE ~(at(method) # None /\ path \notin Wildcards) /\ ~(at("ALL") # None /\ path \notin Wildcards)
  <2>1. \A o \in Matching(snap, method, path) : o.path \in Wildcards
    BY <1>5, <1>12
  <2>2. CASE matching # {}
    <3>1. e = wild[first] /\ first \in DOMAIN wild
      BY <1>2, <1>8, <1>12, <2>2
    <3>2. e \in EntriesOf(snap) /\ e.path \in Wildcards
      BY <1>6, <3>1
    <3>3. e \in Matching(snap, method, path)
      BY <1>8, <2>2, <3>1, <3>2 DEF Matching
    <3>4. \A o \in Matching(snap, method, path) : Closeness(o) <= Closeness(e)
      BY <2>1, <3>2 DEF Closeness
    <3>5. QED
      BY <1>4, <3>2, <3>3, <3>4
  <2>3. CASE matching = {}
    BY <1>2, <1>7, <1>12, <2>1, <2>3
  <2>4. QED
    BY <2>2, <2>3
<1>13. QED
  BY <1>10, <1>11, <1>12

-----------------------------------------------------------------------------
(* The inductive invariant, in parts, about one request at a time          *)

Served == {"probing", "routed", "authenticated", "forwarded", "unauthorized", "forbidden"}

\* What a request has found is what the snapshot it captured says.
CaptureInv(r) ==
    /\ pc[r] # "new" => captured[r] \in 1..Len(published) /\ asked[r] \in Asks
    /\ pc[r] \in {"new", "captured", "not_found"} => entry[r] = None
    /\ pc[r] \in Served => entry[r] # None
    /\ entry[r] # None => entry[r] = RouteOf(r)
    /\ pc[r] = "not_found" => RouteOf(r) = None

InstanceInv(r) ==
    pc[r] \in Served \ {"probing"} =>
        LET list == InstancesOf(r, entry[r].service)
        IN \E i \in 1..Len(list) : list[i] = instance[r]

\* What a request has been let through for, or refused for.
TokenInv(r) ==
    /\ pc[r] \in {"authenticated", "forwarded", "forbidden"} /\ Restricted(r) =>
        Accepts(r, checkedAt[r])
    /\ pc[r] = "forwarded" /\ Restricted(r) => checkRole(asked[r].authorization.roles, entry[r].roles)
    /\ pc[r] = "unauthorized" => ~Accepts(r, checkedAt[r])
    /\ pc[r] = "forbidden" => ~checkRole(asked[r].authorization.roles, entry[r].roles)

\* An instance that has been up all the time has not been looked at yet.
ProbeInv(r) ==
    /\ pc[r] \in {"new", "captured"} => offset[r] = 0
    /\ pc[r] # "probing" => steady[r] = {}
    /\ pc[r] = "probing" =>
        LET list == InstancesOf(r, entry[r].service) IN
        /\ list # <<>> /\ offset[r] <= Len(list)
        /\ \A i \in steady[r] : \E n \in 1..Len(list) : list[n] = i
        /\ \A k \in 0..(offset[r] - 1) : list[((ticket[r] + k) % Len(list)) + 1] \notin steady[r]
        /\ \A i \in steady[r] : <<entry[r].service, i>> \notin unhealthy

Own(r) == CaptureInv(r) /\ InstanceInv(r) /\ TokenInv(r) /\ ProbeInv(r)

IInv == TypeOK /\ \A r \in Requests : Own(r)

-----------------------------------------------------------------------------
(* What the captured snapshot says                                         *)

\* What a request that has begun carries with it.
LEMMA Captured ==
  ASSUME IInv, NEW r \in Requests, pc[r] # "new"
  PROVE  /\ captured[r] \in 1..Len(published) /\ Snap(r) \in Snapshots
         /\ asked[r] \in Ask /\ asked[r].method \in Methods /\ asked[r].path \in Paths
         /\ asked[r].authorization \in Token \cup {None}
<1>1. captured[r] \in 1..Len(published) /\ published \in Seq(Snapshots) /\ asked[r] \in Asks
  BY DEF IInv, Own, CaptureInv, TypeOK
<1>2. Snap(r) \in Snapshots
  BY <1>1 DEF Snap
<1>3. asked[r] \in Ask
  BY <1>1, AsksAreNormalized
<1>4. QED
  BY <1>1, <1>2, <1>3 DEF Ask

\* The entry RouteFor has found, and where it leads.
LEMMA RouteTypes ==
  ASSUME IInv, NEW r \in Requests, pc[r] # "new", RouteOf(r) # None
  PROVE  LET e == RouteOf(r)
             list == InstancesOf(r, e.service)
         IN /\ e \in RouteEntry /\ e.service \in Registered(Snap(r)) /\ e.service \in Services
            /\ e \in EntriesOf(Snap(r)) /\ e \in Matching(Snap(r), asked[r].method, asked[r].path)
            /\ list \in Seq(Instances)
            /\ Snap(r).services[e.service].auth \in AuthSettings
            /\ authValid(Snap(r).services[e.service].auth)
<1> DEFINE e == RouteOf(r)
<1>1. e \in Matching(Snap(r), asked[r].method, asked[r].path)
  BY Captured, RouteIsClosest DEF RouteOf
<1>2. e \in EntriesOf(Snap(r))
  BY <1>1 DEF Matching
<1>3. e \in RouteEntry /\ e.service \in Registered(Snap(r))
  BY <1>2, Captured, RoutesLeadToEntries
<1>4. e.service \in Services /\ Snap(r).services[e.service] # None
  BY <1>3 DEF Registered
<1>5. QED
  BY <1>1, <1>2, <1>3, <1>4, Captured, ServiceTypes DEF InstancesOf

\* The same of a request that has its route.
LEMMA EntryTypes ==
  ASSUME IInv, NEW r \in Requests, entry[r] # None
  PROVE  /\ pc[r] # "new" /\ entry[r] = RouteOf(r) /\ RouteOf(r) # None
         /\ entry[r] \in RouteEntry /\ entry[r].service \in Services
         /\ InstancesOf(r, entry[r].service) \in Seq(Instances)
         /\ AuthOf(r) \in AuthSettings /\ authValid(AuthOf(r))
<1>1. pc[r] # "new" /\ entry[r] = RouteOf(r)
  BY DEF IInv, Own, CaptureInv
<1>2. QED
  BY <1>1, RouteTypes DEF AuthOf

\* The index NextInstance draws is one of the list's, whatever the cursor.
LEMMA CandidateIsListed ==
  ASSUME IInv, NEW r \in Requests, pc[r] = "probing"
  PROVE  LET list == InstancesOf(r, entry[r].service)
             n == ((ticket[r] + offset[r]) % Len(list)) + 1
         IN /\ n \in 1..Len(list) /\ Candidate(r) = list[n] /\ Candidate(r) \in Instances
            /\ Len(list) \in Nat \ {0}
<1> DEFINE list == InstancesOf(r, entry[r].service)
           n == ((ticket[r] + offset[r]) % Len(list)) + 1
<1>1. entry[r] # None /\ list # <<>>
  BY DEF IInv, Own, CaptureInv, ProbeInv, Served
<1>2. list \in Seq(Instances)
  BY <1>1, EntryTypes
<1>3. Len(list) \in Nat \ {0}
  BY <1>1, <1>2, EmptySeq
<1>4. ticket[r] + offset[r] \in Nat
  BY DEF IInv, TypeOK
<1>5. n \in 1..Len(list)
  <2>1. ((ticket[r] + offset[r]) % Len(list)) \in 0..(Len(list) - 1)
    BY <1>3, <1>4, DivisionWithRemainder
  <2>2. QED
    BY <1>3, <2>1
<1>6. list[n] \in Instances
  BY <1>2, <1>5, ElementOfSeq
<1>7. QED
  BY <1>3, <1>5, <1>6 DEF Candidate

-----------------------------------------------------------------------------
(* What a step leaves alone                                                *)

\* Published snapshots stay.
LEMMA SnapshotsStay ==
  ASSUME TypeOK, [Next]_vars
  PROVE  /\ Len(published') \in Nat /\ Len(published) <= Len(published')
         /\ \A v \in 1..Len(published) : published'[v] = published[v]
<1>1. published \in Seq(Snapshots) /\ Len(published) \in Nat
  BY DEF TypeOK
<1>2. ASSUME NEW snap \in Snapshots, Commit(snap)
      PROVE  /\ Len(published') = Len(published) + 1
             /\ \A v \in 1..Len(published) : published'[v] = published[v]
  BY <1>1, <1>2, AppendProperties DEF Commit
<1>3. published' = published \/ \E snap \in Snapshots : Commit(snap)
  BY DEF Next, vars, envVars, HealthChanges, Capture, RefuseUnknown, RefuseEmpty, Draw, Choose, Skip,
         RefuseDown, Authenticate, RefuseToken, Authorize, RefuseRoles
<1>4. QED
  BY <1>1, <1>2, <1>3

\* A request that has captured a snapshot keeps it.
LEMMA SnapStays ==
  ASSUME IInv, [Next]_vars, NEW r \in Requests, pc[r] # "new",
         captured'[r] = captured[r], asked'[r] = asked[r]
  PROVE  /\ captured'[r] \in 1..Len(published') /\ asked'[r] \in Asks
         /\ Snap(r)' = Snap(r) /\ RouteOf(r)' = RouteOf(r)
         /\ \A s : InstancesOf(r, s)' = InstancesOf(r, s)
<1>1. captured[r] \in 1..Len(published) /\ asked[r] \in Asks
  BY DEF IInv, Own, CaptureInv
<1>2. Len(published) \in Nat
  BY DEF IInv, TypeOK
<1>3. captured'[r] \in 1..Len(published') /\ Snap(r)' = Snap(r)
  BY <1>1, <1>2, SnapshotsStay DEF IInv, Snap
<1>4. QED
  BY <1>1, <1>3 DEF RouteOf, InstancesOf

\* The request r is where it was, and at most fewer instances have been up all the time.
Rests(r) ==
    /\ pc'[r] = pc[r] /\ asked'[r] = asked[r] /\ captured'[r] = captured[r] /\ entry'[r] = entry[r]
    /\ ticket'[r] = ticket[r] /\ offset'[r] = offset[r] /\ instance'[r] = instance[r]
    /\ checkedAt'[r] = checkedAt[r] /\ steady'[r] \subseteq steady[r]
    /\ pc[r] = "probing" => \A i \in steady'[r] : <<entry[r].service, i>> \notin unhealthy'

\* A step of somebody else, a commit or a change of health keeps what a request knows.
LEMMA RestingKeeps ==
  ASSUME IInv, [Next]_vars, NEW r \in Requests, Rests(r)
  PROVE  Own(r)'
<1>1. CASE pc[r] = "new"
  BY <1>1 DEF IInv, Own, Rests, CaptureInv, InstanceInv, TokenInv, ProbeInv, Served
<1>2. CASE pc[r] # "new"
  <2>1. /\ captured'[r] \in 1..Len(published') /\ asked'[r] \in Asks
        /\ Snap(r)' = Snap(r) /\ RouteOf(r)' = RouteOf(r)
        /\ \A s : InstancesOf(r, s)' = InstancesOf(r, s)
    BY <1>2, SnapStays DEF Rests
  <2>2. InstancesOf(r, entry[r].service)' = InstancesOf(r, entry[r].service)
    BY <2>1 DEF Rests
  <2>3. CaptureInv(r)'
    BY <2>1 DEF IInv, Own, Rests, CaptureInv, Served
  <2>4. InstanceInv(r)'
    BY <2>2 DEF IInv, Own, Rests, InstanceInv, Served
  <2>5. TokenInv(r)'
    BY <2>1 DEF IInv, Own, Rests, TokenInv, Accepts, AuthOf, Restricted
  <2>6. ProbeInv(r)'
    BY <2>2 DEF IInv, Own, Rests, ProbeInv
  <2>7. QED
    BY <2>3, <2>4, <2>5, <2>6 DEF Own
<1>3. QED
  BY <1>1, <1>2

-----------------------------------------------------------------------------
(* The invariant is inductive                                              *)

\* The invariant holds before the first request.
LEMMA InitHolds == Init => IInv
<1> SUFFICES ASSUME Init PROVE IInv
  OBVIOUS
<1>1. TypeOK
  <2>1. PICK snap \in Snapshots : published = <<snap>>
    BY DEF Init
  <2>2. published \in Seq(Snapshots) /\ published # <<>>
    BY <2>1
  <2>3. QED
    BY <2>2 DEF Init, TypeOK
<1>2. ASSUME NEW r \in Requests
      PROVE  Own(r)
  BY DEF Init, Own, CaptureInv, InstanceInv, TokenInv, ProbeInv, Served
<1>3. QED
  BY <1>1, <1>2 DEF IInv

\* Every step keeps the types.
LEMMA TypeStep == IInv /\ [Next]_vars => TypeOK'
<1> SUFFICES ASSUME IInv, [Next]_vars PROVE TypeOK'
  OBVIOUS
<1>0. TypeOK
  BY DEF IInv
<1> USE DEF TypeOK, Goes, envVars, historyVars, Refused
<1>1. ASSUME NEW snap \in Snapshots, Commit(snap)
      PROVE  TypeOK'
  BY <1>0, <1>1, AppendProperties DEF Commit
<1>2. ASSUME NEW key \in HealthKeys, HealthChanges(key[1], key[2])
      PROVE  TypeOK'
  <2>1. <<key[1], key[2]>> \in HealthKeys
    BY DEF HealthKeys
  <2>2. unhealthy' \subseteq HealthKeys
    BY <1>0, <1>2, <2>1 DEF HealthChanges
  <2>3. steady' \in [Requests -> SUBSET Instances]
    BY <1>0, <1>2 DEF HealthChanges
  <2>4. QED
    BY <1>0, <1>2, <2>2, <2>3 DEF HealthChanges
<1>3. ASSUME NEW r \in Requests, NEW ask \in Asks, Capture(r, ask)
      PROVE  TypeOK'
  BY <1>0, <1>3 DEF Capture
<1>4. ASSUME NEW r \in Requests, RefuseUnknown(r) \/ RefuseEmpty(r) \/ RefuseDown(r)
                                 \/ Authorize(r) \/ RefuseRoles(r)
      PROVE  TypeOK'
  BY <1>0, <1>4 DEF RefuseUnknown, RefuseEmpty, RefuseDown, Authorize, RefuseRoles
<1>5. ASSUME NEW r \in Requests, Draw(r)
      PROVE  TypeOK'
  <2> DEFINE s == RouteOf(r).service
             up == {InstancesOf(r, s)[i] : i \in DOMAIN InstancesOf(r, s)}
                        \ {i \in Instances : <<s, i>> \in unhealthy}
  <2>1. pc[r] = "captured" /\ RouteOf(r) # None
    BY <1>5 DEF Draw
  <2>2. RouteOf(r) \in RouteEntry /\ s \in Services /\ InstancesOf(r, s) \in Seq(Instances)
    BY <2>1, RouteTypes
  <2>3. up \in SUBSET Instances
    BY <2>2
  <2>4. /\ entry' = [entry EXCEPT ![r] = RouteOf(r)]
        /\ ticket' = [ticket EXCEPT ![r] = cursors[s]]
        /\ cursors' = [cursors EXCEPT ![s] = @ + 1]
        /\ steady' = [steady EXCEPT ![r] = up]
        /\ pc' = [pc EXCEPT ![r] = "probing"]
        /\ UNCHANGED <<published, unhealthy, asked, captured, offset, instance, checkedAt>>
    BY <1>5 DEF Draw
  <2> HIDE DEF s, up
  <2>5. QED
    BY <1>0, <2>2, <2>3, <2>4
<1>6. ASSUME NEW r \in Requests, Choose(r)
      PROVE  TypeOK'
  <2>1. Candidate(r) \in Instances
    BY <1>6, CandidateIsListed DEF Choose
  <2>2. QED
    BY <1>0, <1>6, <2>1 DEF Choose
<1>7. ASSUME NEW r \in Requests, Skip(r)
      PROVE  TypeOK'
  BY <1>0, <1>7 DEF Skip
<1>8. ASSUME NEW r \in Requests, NEW now \in Times, Authenticate(r, now) \/ RefuseToken(r, now)
      PROVE  TypeOK'
  BY <1>0, <1>8 DEF Authenticate, RefuseToken
<1>9. CASE UNCHANGED vars
  BY <1>0, <1>9 DEF vars
<1>10. QED
  BY <1>1, <1>2, <1>3, <1>4, <1>5, <1>6, <1>7, <1>8, <1>9 DEF Next

\* The steps of a request leave the others where they are.
LEMMA OthersRest ==
  ASSUME IInv, NEW r \in Requests, NEW q \in Requests \ {r},
         \/ \E ask \in Asks : Capture(r, ask)
         \/ RefuseUnknown(r) \/ RefuseEmpty(r) \/ Draw(r)
         \/ Choose(r) \/ Skip(r) \/ RefuseDown(r)
         \/ \E now \in Times : Authenticate(r, now) \/ RefuseToken(r, now)
         \/ Authorize(r) \/ RefuseRoles(r)
  PROVE  Rests(q)
<1>1. pc[q] = "probing" => \A i \in steady[q] : <<entry[q].service, i>> \notin unhealthy
  BY DEF IInv, Own, ProbeInv
<1> USE DEF Rests, TypeOK, Goes, envVars, historyVars
<1>2. TypeOK
  BY DEF IInv
<1>3. CASE \E ask \in Asks : Capture(r, ask)
  BY <1>1, <1>2, <1>3 DEF Capture
<1>4. CASE RefuseUnknown(r) \/ RefuseEmpty(r) \/ RefuseDown(r) \/ Authorize(r) \/ RefuseRoles(r)
  BY <1>1, <1>2, <1>4 DEF RefuseUnknown, RefuseEmpty, RefuseDown, Authorize, RefuseRoles
<1>5. CASE Draw(r)
  BY <1>1, <1>2, <1>5 DEF Draw
<1>6. CASE Choose(r) \/ Skip(r)
  BY <1>1, <1>2, <1>6 DEF Choose, Skip
<1>7. CASE \E now \in Times : Authenticate(r, now) \/ RefuseToken(r, now)
  BY <1>1, <1>2, <1>7 DEF Authenticate, RefuseToken
<1>8. QED
  BY <1>3, <1>4, <1>5, <1>6, <1>7

\* Each step, for the request that takes it.
LEMMA OwnStep ==
  ASSUME IInv, [Next]_vars, NEW r \in Requests,
         \/ \E ask \in Asks : Capture(r, ask)
         \/ RefuseUnknown(r) \/ RefuseEmpty(r) \/ Draw(r)
         \/ Choose(r) \/ Skip(r) \/ RefuseDown(r)
         \/ \E now \in Times : Authenticate(r, now) \/ RefuseToken(r, now)
         \/ Authorize(r) \/ RefuseRoles(r)
  PROVE  Own(r)'
<1>0. TypeOK /\ CaptureInv(r) /\ InstanceInv(r) /\ TokenInv(r) /\ ProbeInv(r)
  BY DEF IInv, Own
<1> DEFINE list == InstancesOf(r, entry[r].service)
<1>1. ASSUME NEW ask \in Asks, Capture(r, ask)
      PROVE  Own(r)'
  <2>1. Len(published) \in 1..Len(published)
    BY <1>0, EmptySeq DEF TypeOK
  <2>2. QED
    BY <1>0, <1>1, <2>1 DEF Capture, Goes, envVars, historyVars, TypeOK, Own, CaptureInv,
        InstanceInv, TokenInv, ProbeInv, Served
<1>2. ASSUME pc[r] # "new", captured'[r] = captured[r], asked'[r] = asked[r]
      PROVE  /\ captured'[r] \in 1..Len(published') /\ asked'[r] \in Asks
             /\ RouteOf(r)' = RouteOf(r) /\ Snap(r)' = Snap(r)
             /\ \A s : InstancesOf(r, s)' = InstancesOf(r, s)
  BY <1>2, SnapStays
<1>3. ASSUME RefuseUnknown(r) \/ RefuseEmpty(r)
      PROVE  Own(r)'
  <2>1. /\ pc[r] = "captured" /\ pc'[r] \in {"not_found", "unavailable"}
        /\ pc'[r] = "not_found" => RouteOf(r) = None
        /\ UNCHANGED <<asked, captured, entry, steady>>
    BY <1>0, <1>3 DEF RefuseUnknown, RefuseEmpty, Goes, envVars, historyVars, TypeOK
  <2>2. QED
    BY <1>0, <1>2, <2>1 DEF Own, CaptureInv, InstanceInv, TokenInv, ProbeInv, Served
<1>4. ASSUME Draw(r)
      PROVE  Own(r)'
  <2> DEFINE s == RouteOf(r).service
             drawn == InstancesOf(r, s)
  <2>1. /\ pc[r] = "captured" /\ pc'[r] = "probing" /\ RouteOf(r) # None /\ drawn # <<>>
        /\ entry'[r] = RouteOf(r) /\ offset'[r] = offset[r] /\ unhealthy' = unhealthy
        /\ steady'[r] = {drawn[i] : i \in DOMAIN drawn} \ {i \in Instances : <<s, i>> \in unhealthy}
        /\ UNCHANGED <<asked, captured>>
    BY <1>0, <1>4 DEF Draw, Goes, envVars, TypeOK
  <2>2. /\ captured'[r] \in 1..Len(published') /\ asked'[r] \in Asks
        /\ RouteOf(r)' = RouteOf(r) /\ Snap(r)' = Snap(r)
        /\ \A t : InstancesOf(r, t)' = InstancesOf(r, t)
    BY <1>2, <2>1
  <2>3. drawn \in Seq(Instances)
    BY <2>1, RouteTypes
  <2>4. offset[r] = 0
    BY <1>0, <2>1 DEF ProbeInv
  <2>5. CaptureInv(r)'
    BY <2>1, <2>2 DEF CaptureInv, Served
  <2>6. InstanceInv(r)' /\ TokenInv(r)'
    BY <2>1 DEF InstanceInv, TokenInv
  <2>7. ProbeInv(r)'
    <3>1. InstancesOf(r, entry[r].service)' = drawn
      BY <2>1, <2>2
    <3>2. \A i \in steady'[r] : \E n \in 1..Len(drawn) : drawn[n] = i
      BY <2>1, <2>3
    <3>3. \A i \in steady'[r] : <<s, i>> \notin unhealthy'
      BY <2>1, <2>3
    <3>4. Len(drawn) \in Nat
      BY <2>3
    <3> HIDE DEF drawn
    <3>5. QED
      BY <2>1, <2>4, <3>1, <3>2, <3>3, <3>4 DEF ProbeInv
  <2>8. QED
    BY <2>5, <2>6, <2>7 DEF Own
<1>5. ASSUME Choose(r)
      PROVE  Own(r)'
  <2>1. /\ pc[r] = "probing" /\ pc'[r] = "routed" /\ instance'[r] = Candidate(r) /\ steady'[r] = {}
        /\ UNCHANGED <<asked, captured, entry>>
    BY <1>0, <1>5 DEF Choose, Goes, envVars, TypeOK
  <2>2. CaptureInv(r)'
    BY <1>0, <1>2, <2>1 DEF CaptureInv, Served
  <2>3. InstanceInv(r)'
    <3>1. InstancesOf(r, entry[r].service)' = list
      BY <1>2, <2>1
    <3>2. \E n \in 1..Len(list) : list[n] = Candidate(r)
      BY <2>1, CandidateIsListed
    <3>3. QED
      BY <2>1, <3>1, <3>2 DEF InstanceInv
  <2>4. TokenInv(r)' /\ ProbeInv(r)'
    BY <2>1 DEF TokenInv, ProbeInv
  <2>5. QED
    BY <2>2, <2>3, <2>4 DEF Own
<1>6. ASSUME Skip(r)
      PROVE  Own(r)'
  <2>1. /\ pc[r] = "probing" /\ pc'[r] = "probing" /\ offset[r] < Len(list)
        /\ offset'[r] = offset[r] + 1 /\ <<entry[r].service, Candidate(r)>> \in unhealthy
        /\ UNCHANGED <<asked, captured, entry, ticket, steady, unhealthy>>
    BY <1>0, <1>6 DEF Skip, envVars, historyVars, TypeOK
  <2>2. CaptureInv(r)'
    BY <1>0, <1>2, <2>1 DEF CaptureInv, Served
  <2>3. InstanceInv(r)' /\ TokenInv(r)'
    BY <2>1 DEF InstanceInv, TokenInv
  <2>4. ProbeInv(r)'
    <3>1. InstancesOf(r, entry[r].service)' = list
      BY <1>2, <2>1
    <3>2. list[((ticket[r] + offset[r]) % Len(list)) + 1] \notin steady[r]
      BY <1>0, <2>1, CandidateIsListed DEF ProbeInv
    <3>3. offset[r] \in Nat /\ Len(list) \in Nat
      BY <1>0, <2>1, CandidateIsListed DEF TypeOK
    <3>4. \A k \in 0..(offset'[r] - 1) : list[((ticket[r] + k) % Len(list)) + 1] \notin steady[r]
      <4>1. \A k \in 0..(offset'[r] - 1) : k \in 0..(offset[r] - 1) \/ k = offset[r]
        BY <2>1, <3>3
      <4>2. QED
        BY <1>0, <2>1, <3>2, <4>1 DEF ProbeInv
    <3>5. list # <<>> /\ offset'[r] <= Len(list)
      BY <1>0, <2>1, <3>3 DEF ProbeInv
    <3>6. \A i \in steady[r] : /\ \E n \in 1..Len(list) : list[n] = i
                               /\ <<entry[r].service, i>> \notin unhealthy
      BY <1>0, <2>1 DEF ProbeInv
    <3> HIDE DEF list
    <3>7. QED
      BY <2>1, <3>1, <3>4, <3>5, <3>6 DEF ProbeInv
  <2>5. QED
    BY <2>2, <2>3, <2>4 DEF Own
<1>7. ASSUME RefuseDown(r)
      PROVE  Own(r)'
  <2>1. /\ pc[r] = "probing" /\ pc'[r] = "unavailable" /\ offset[r] = Len(list)
        /\ UNCHANGED <<asked, captured, entry, steady>>
    BY <1>0, <1>7 DEF RefuseDown, Goes, envVars, historyVars, TypeOK
  <2>2. CaptureInv(r)'
    BY <1>0, <1>2, <2>1 DEF CaptureInv, Served
  <2>3. steady[r] = {}
    <3>1. SUFFICES ASSUME NEW i \in steady[r] PROVE FALSE
      OBVIOUS
    <3>2. PICK n \in 1..Len(list) : list[n] = i
      BY <1>0, <2>1 DEF ProbeInv
    <3>3. Len(list) \in Nat \ {0} /\ ticket[r] \in Nat
      BY <1>0, <2>1, CandidateIsListed DEF TypeOK
    <3>4. n - 1 \in 0..(Len(list) - 1)
      BY <3>2, <3>3
    <3>5. PICK k \in 0..(Len(list) - 1) : (ticket[r] + k) % Len(list) = n - 1
      BY <3>3, <3>4, RoundMeetsAll
    <3>6. list[((ticket[r] + k) % Len(list)) + 1] \notin steady[r]
      BY <1>0, <2>1, <3>5 DEF ProbeInv
    <3>7. ((ticket[r] + k) % Len(list)) + 1 = n
      BY <3>3, <3>5, <3>2
    <3>8. QED
      BY <3>1, <3>2, <3>6, <3>7
  <2>4. InstanceInv(r)' /\ TokenInv(r)' /\ ProbeInv(r)'
    BY <2>1, <2>3 DEF InstanceInv, TokenInv, ProbeInv, Served
  <2>5. QED
    BY <2>2, <2>4 DEF Own
<1>8. ASSUME NEW now \in Times, Authenticate(r, now) \/ RefuseToken(r, now)
      PROVE  Own(r)'
  <2>1. /\ pc[r] = "routed" /\ pc'[r] \in {"authenticated", "unauthorized"} /\ checkedAt'[r] = now
        /\ pc'[r] = "authenticated" => (Restricted(r) => Accepts(r, now))
        /\ pc'[r] = "unauthorized" => ~Accepts(r, now)
        /\ UNCHANGED <<asked, captured, entry, instance, steady>>
    BY <1>0, <1>8 DEF Authenticate, RefuseToken, Goes, envVars, TypeOK
  <2>2. /\ captured'[r] \in 1..Len(published') /\ asked'[r] \in Asks
        /\ RouteOf(r)' = RouteOf(r) /\ Snap(r)' = Snap(r)
        /\ \A s : InstancesOf(r, s)' = InstancesOf(r, s)
    BY <1>2, <2>1
  <2>3. CaptureInv(r)'
    BY <1>0, <2>1, <2>2 DEF CaptureInv, Served
  <2>4. InstanceInv(r)'
    BY <1>0, <2>1, <2>2 DEF InstanceInv, Served
  <2>5. TokenInv(r)'
    BY <2>1, <2>2 DEF TokenInv, Accepts, AuthOf, Restricted
  <2>6. ProbeInv(r)'
    BY <1>0, <2>1 DEF ProbeInv
  <2>7. QED
    BY <2>3, <2>4, <2>5, <2>6 DEF Own
<1>9. ASSUME Authorize(r) \/ RefuseRoles(r)
      PROVE  Own(r)'
  <2>1. /\ pc[r] = "authenticated" /\ pc'[r] \in {"forwarded", "forbidden"}
        /\ pc'[r] = "forwarded" =>
                (Restricted(r) => checkRole(asked[r].authorization.roles, entry[r].roles))
        /\ pc'[r] = "forbidden" => ~checkRole(asked[r].authorization.roles, entry[r].roles)
        /\ UNCHANGED <<asked, captured, entry, instance, checkedAt, steady>>
    BY <1>0, <1>9 DEF Authorize, RefuseRoles, Goes, envVars, historyVars, TypeOK
  <2>2. /\ captured'[r] \in 1..Len(published') /\ asked'[r] \in Asks
        /\ RouteOf(r)' = RouteOf(r) /\ Snap(r)' = Snap(r)
        /\ \A s : InstancesOf(r, s)' = InstancesOf(r, s)
    BY <1>2, <2>1
  <2>3. CaptureInv(r)'
    BY <1>0, <2>1, <2>2 DEF CaptureInv, Served
  <2>4. InstanceInv(r)'
    BY <1>0, <2>1, <2>2 DEF InstanceInv, Served
  <2>5. TokenInv(r)'
    BY <1>0, <2>1, <2>2 DEF TokenInv, Accepts, AuthOf, Restricted
  <2>6. ProbeInv(r)'
    BY <1>0, <2>1 DEF ProbeInv
  <2>7. QED
    BY <2>3, <2>4, <2>5, <2>6 DEF Own
<1>10. QED
  BY <1>1, <1>3, <1>4, <1>5, <1>6, <1>7, <1>8, <1>9

\* The invariant: one request moves, the others rest.
LEMMA Inductive == IInv /\ [Next]_vars => IInv'
<1> SUFFICES ASSUME IInv, [Next]_vars PROVE IInv'
  OBVIOUS
<1>1. TypeOK'
  BY TypeStep
<1>2. ASSUME NEW snap \in Snapshots, Commit(snap), NEW q \in Requests
      PROVE  Rests(q)
  BY <1>2 DEF Commit, historyVars, Rests, IInv, Own, ProbeInv
<1>3. ASSUME NEW key \in HealthKeys, HealthChanges(key[1], key[2]), NEW q \in Requests
      PROVE  Rests(q)
  <2>1. /\ steady'[q] \subseteq steady[q]
        /\ pc[q] = "probing" /\ entry[q].service = key[1] => key[2] \notin steady'[q]
        /\ UNCHANGED <<pc, asked, captured, entry, ticket, offset, instance, checkedAt>>
    BY <1>3 DEF HealthChanges
  <2>2. unhealthy' \subseteq unhealthy \cup {<<key[1], key[2]>>}
    BY <1>3 DEF HealthChanges
  <2>3. pc[q] = "probing" => \A i \in steady[q] : <<entry[q].service, i>> \notin unhealthy
    BY DEF IInv, Own, ProbeInv
  <2>4. pc[q] = "probing" => \A i \in steady'[q] : <<entry[q].service, i>> \notin unhealthy'
    BY <2>1, <2>2, <2>3
  <2>5. QED
    BY <2>1, <2>4 DEF Rests
<1>4. ASSUME UNCHANGED vars, NEW q \in Requests
      PROVE  Rests(q)
  BY <1>4 DEF vars, Rests, IInv, Own, ProbeInv
<1>5. ASSUME NEW r \in Requests, NEW q \in Requests,
             \/ \E ask \in Asks : Capture(r, ask)
             \/ RefuseUnknown(r) \/ RefuseEmpty(r) \/ Draw(r)
             \/ Choose(r) \/ Skip(r) \/ RefuseDown(r)
             \/ \E now \in Times : Authenticate(r, now) \/ RefuseToken(r, now)
             \/ Authorize(r) \/ RefuseRoles(r)
      PROVE  Own(q)'
  <2>1. CASE q = r
    BY <1>5, <2>1, OwnStep
  <2>2. CASE q # r
    BY <1>5, <2>2, OthersRest, RestingKeeps
  <2>3. QED
    BY <2>1, <2>2
<1>6. ASSUME NEW q \in Requests
      PROVE  Own(q)'
  BY <1>2, <1>3, <1>4, <1>5, RestingKeeps DEF Next
<1>7. QED
  BY <1>1, <1>6 DEF IInv

\* The invariant holds in every reachable state, for any number of requests.
THEOREM Invariance == Spec => []IInv
<1>1. Init => IInv
  BY InitHolds
<1>2. IInv /\ [Next]_vars => IInv'
  BY Inductive
<1>3. QED
  BY <1>1, <1>2, PTL DEF Spec

\* Variables keep their types; cursors and captured revisions stay numbers.
THEOREM TypeCorrect == Spec => []TypeOK
<1>1. IInv => TypeOK
  BY DEF IInv
<1>2. QED
  BY <1>1, Invariance, PTL

-----------------------------------------------------------------------------
(* What the invariant says                                                 *)

\* The instant at which a token was checked is a number.
LEMMA CheckedIsTime ==
  ASSUME IInv, NEW r \in Requests
  PROVE  checkedAt[r] \in Nat
<1>1. checkedAt[r] \in Times \/ checkedAt[r] = 0
  BY DEF IInv, TypeOK
<1>2. Times \subseteq Nat /\ 0 \in Nat
  BY TimesAreNumbers
<1>3. QED
  BY <1>1, <1>2

\* RouteTask, AuthenticateTask and AuthorizeTask look everything up in the captured snapshot
\* (route.go:58-60), so a request is forwarded only if it was entitled to it by one snapshot.
THEOREM OnlyEntitledAreForwarded == Spec => []ForwardedIsEntitled
<1>1. IInv => ForwardedIsEntitled
  <2> SUFFICES ASSUME IInv, NEW r \in Requests, pc[r] = "forwarded"
               PROVE  \E v \in captured[r]..Len(published) :
                        LET token == asked[r].authorization
                            service == published[v].services[entry[r].service]
                        IN /\ entry[r] \in EntriesOf(published[v])
                           /\ \E i \in DOMAIN service.instances : service.instances[i] = instance[r]
                           /\ entry[r].roles # {} =>
                                /\ token # None
                                /\ MadeFor(service.auth, token)
                                /\ \/ HoldsAround(token, checkedAt[r], service.auth.skew)
                                   \/ Contradictory(token)
                                /\ token.roles \cap entry[r].roles # {}
    BY DEF ForwardedIsEntitled
  <2> DEFINE token == asked[r].authorization
             service == Snap(r).services[entry[r].service]
  <2>1. captured[r] \in captured[r]..Len(published) /\ published[captured[r]] = Snap(r)
    BY Captured DEF Snap, IInv, TypeOK
  <2>2. entry[r] # None /\ TokenInv(r) /\ InstanceInv(r)
    BY DEF IInv, Own, CaptureInv, Served
  <2>3. entry[r] \in EntriesOf(Snap(r))
    BY <2>2, EntryTypes, RouteTypes
  <2>4. service.instances \in Seq(Instances) /\ service.auth = AuthOf(r)
    BY <2>2, EntryTypes DEF InstancesOf, AuthOf
  <2>5. \E i \in DOMAIN service.instances : service.instances[i] = instance[r]
    BY <2>2, <2>4 DEF InstanceInv, InstancesOf, Served
  <2>6. ASSUME entry[r].roles # {}
        PROVE  /\ token # None /\ MadeFor(service.auth, token)
               /\ HoldsAround(token, checkedAt[r], service.auth.skew) \/ Contradictory(token)
               /\ token.roles \cap entry[r].roles # {}
    <3>1. token # None /\ decodes(AuthOf(r), token, checkedAt[r])
      BY <2>2, <2>6 DEF TokenInv, Restricted, Accepts
    <3>2. token \in Token
      BY <3>1, Captured
    <3>3. checkedAt[r] \in Nat
      BY CheckedIsTime
    <3>4. token.roles \cap entry[r].roles # {}
      BY <2>2, <2>6 DEF TokenInv, Restricted, checkRole
    <3>5. AuthOf(r) \in AuthSettings /\ authValid(AuthOf(r))
      BY <2>2, EntryTypes
    <3>6. QED
      BY <2>4, <3>1, <3>2, <3>3, <3>4, <3>5, DecodesSound
  <2>7. QED
    BY <2>1, <2>3, <2>5, <2>6
<1>2. QED
  BY <1>1, Invariance, PTL

\* RouteFor asks two indexes (router.go:31-43): the route taken is the closest there is, and a
\* request is only not found if no endpoint of a registered service matches.
THEOREM RoutesAreClosest == Spec => []RoutedMostClosely
<1>1. IInv => RoutedMostClosely
  <2> SUFFICES ASSUME IInv, NEW r \in Requests, pc[r] # "new"
               PROVE  LET matching == Matching(Snap(r), asked[r].method, asked[r].path) IN
                      /\ pc[r] = "not_found" => matching = {}
                      /\ entry[r] # None =>
                            /\ entry[r] \in matching
                            /\ \A e \in matching : Closeness(e) <= Closeness(entry[r])
    BY DEF RoutedMostClosely
  <2>1. /\ entry[r] # None => entry[r] = RouteOf(r)
        /\ pc[r] = "not_found" => RouteOf(r) = None
    BY DEF IInv, Own, CaptureInv
  <2>2. QED
    BY <2>1, Captured, RouteIsClosest DEF RouteOf
<1>2. QED
  BY <1>1, Invariance, PTL

\* NextInstance looks at every instance once, starting anywhere (load_balancer.go:64-73): it
\* gives up only if each of them was down when it was looked at, or has been since.
THEOREM DownMeansAllDown == Spec => []RefusedOnlyIfAllDown
<1>1. IInv => RefusedOnlyIfAllDown
  BY DEF IInv, Own, ProbeInv, RefusedOnlyIfAllDown
<1>2. QED
  BY <1>1, Invariance, PTL

\* The decoder and checkRole refuse nobody who has a genuine token with an allowed role
\* (decoder.go:188-222, 231-268, authorize.go:78-94).
THEOREM EntitledPass == Spec => []EntitledIsNotRefused
<1>1. IInv => EntitledIsNotRefused
  <2> SUFFICES ASSUME IInv, NEW r \in Requests, pc[r] \in {"unauthorized", "forbidden"},
                      asked[r].authorization # None,
                      Genuine(AuthOf(r), asked[r].authorization, checkedAt[r])
               PROVE  asked[r].authorization.roles \cap entry[r].roles = {}
    BY DEF EntitledIsNotRefused
  <2>1. entry[r] # None /\ TokenInv(r)
    BY DEF IInv, Own, CaptureInv, Served
  <2>2. AuthOf(r) \in AuthSettings /\ authValid(AuthOf(r)) /\ pc[r] # "new"
    BY <2>1, EntryTypes
  <2>3. asked[r].authorization \in Token /\ checkedAt[r] \in Nat
    BY <2>2, Captured, CheckedIsTime
  <2>4. Accepts(r, checkedAt[r])
    BY <2>2, <2>3, DecodesComplete DEF Accepts
  <2>5. QED
    BY <2>1, <2>4 DEF TokenInv, checkRole
<1>2. QED
  BY <1>1, Invariance, PTL

-----------------------------------------------------------------------------
(* Even shares: the requests of a service hold the numbers below its       *)
(* cursor, each one of them.                                               *)

ServedBy(s) == {r \in Requests : entry[r] # None /\ entry[r].service = s}

TicketInv(s) ==
    /\ \A r \in ServedBy(s) : ticket[r] \in 0..(cursors[s] - 1)
    /\ \A r, q \in ServedBy(s) : ticket[r] = ticket[q] => r = q
    /\ \A t \in 0..(cursors[s] - 1) : \E r \in ServedBy(s) : ticket[r] = t

\* The instance of a request is the one its number and the skipped ones lead to.
ChoiceInv(r) ==
    instance[r] # None =>
        /\ pc[r] \in Served \ {"probing"}
        /\ LET list == InstancesOf(r, entry[r].service)
           IN instance[r] = list[((ticket[r] + offset[r]) % Len(list)) + 1]

ShareInv == /\ \A s \in Services : TicketInv(s)
            /\ \A r \in Requests : ChoiceInv(r)

\* The numbers drawn from a cursor stay those below it, each drawn once.
LEMMA TicketStep ==
  ASSUME IInv, [Next]_vars, ShareInv, NEW s \in Services
  PROVE  TicketInv(s)'
<1>1. CASE UNCHANGED <<entry, ticket, cursors>>
  BY <1>1 DEF ShareInv, TicketInv, ServedBy
<1>2. ASSUME NEW r \in Requests, Draw(r)
      PROVE  TicketInv(s)'
  <2> DEFINE e == RouteOf(r)
  <2>1. /\ pc[r] = "captured" /\ e # None
        /\ entry' = [entry EXCEPT ![r] = e]
        /\ ticket' = [ticket EXCEPT ![r] = cursors[e.service]]
        /\ cursors' = [cursors EXCEPT ![e.service] = @ + 1]
    BY <1>2 DEF Draw, Goes
  <2>2. e.service \in Services /\ entry[r] = None
    BY <2>1, RouteTypes DEF IInv, Own, CaptureInv
  <2>3. /\ entry \in [Requests -> RouteEntry \cup {None}] /\ ticket \in [Requests -> Nat]
        /\ cursors \in [Services -> Nat]
    BY DEF IInv, TypeOK
  <2> HIDE DEF e
  <2>4. CASE s # e.service
    <3>1. ServedBy(s)' = ServedBy(s) /\ r \notin ServedBy(s) /\ cursors'[s] = cursors[s]
      BY <2>1, <2>2, <2>3, <2>4 DEF ServedBy
    <3>2. \A q \in ServedBy(s) : q \in Requests /\ ticket'[q] = ticket[q]
      BY <2>1, <2>3, <3>1 DEF ServedBy
    <3>3. QED
      BY <3>1, <3>2 DEF ShareInv, TicketInv
  <2>5. CASE s = e.service
    <3>1. /\ ServedBy(s)' = ServedBy(s) \cup {r} /\ r \notin ServedBy(s)
          /\ cursors'[s] = cursors[s] + 1 /\ ticket'[r] = cursors[s]
      BY <2>1, <2>2, <2>3, <2>5 DEF ServedBy
    <3>2. \A q \in ServedBy(s) : q \in Requests /\ ticket'[q] = ticket[q]
      BY <2>1, <2>3, <3>1 DEF ServedBy
    <3>3. TicketInv(s) /\ cursors[s] \in Nat
      BY <2>3 DEF ShareInv
    <3>4. \A q \in ServedBy(s) : ticket[q] < cursors[s] /\ ticket[q] \in Nat
      BY <3>3 DEF TicketInv
    <3>5. \A t \in 0..(cursors'[s] - 1) : t \in 0..(cursors[s] - 1) \/ t = cursors[s]
      BY <3>1, <3>3
    <3>6. \A q \in ServedBy(s)' : ticket'[q] \in 0..(cursors'[s] - 1)
      BY <3>1, <3>2, <3>3, <3>4
    <3>7. \A p, q \in ServedBy(s)' : ticket'[p] = ticket'[q] => p = q
      BY <3>1, <3>2, <3>3, <3>4 DEF TicketInv
    <3>8. \A t \in 0..(cursors'[s] - 1) : \E q \in ServedBy(s)' : ticket'[q] = t
      BY <3>1, <3>2, <3>3, <3>5 DEF TicketInv
    <3>9. QED
      BY <3>6, <3>7, <3>8 DEF TicketInv
  <2>6. QED
    BY <2>4, <2>5
<1>3. UNCHANGED <<entry, ticket, cursors>> \/ \E r \in Requests : Draw(r)
  BY DEF Next, vars, envVars, historyVars, Commit, HealthChanges, Capture, RefuseUnknown, RefuseEmpty,
         Choose, Skip, RefuseDown, Authenticate, RefuseToken, Authorize, RefuseRoles
<1>4. QED
  BY <1>1, <1>2, <1>3

\* The instance of a request stays the one its number and the skipped ones lead to.
LEMMA ChoiceStep ==
  ASSUME IInv, [Next]_vars, ShareInv, NEW r \in Requests
  PROVE  ChoiceInv(r)'
<1>1. TypeOK /\ ChoiceInv(r)
  BY DEF IInv, ShareInv
<1>2. ASSUME instance'[r] = instance[r], instance[r] # None, captured'[r] = captured[r],
             asked'[r] = asked[r], entry'[r] = entry[r], ticket'[r] = ticket[r],
             offset'[r] = offset[r], pc'[r] \in Served \ {"probing"}
      PROVE  ChoiceInv(r)'
  <2>1. InstancesOf(r, entry[r].service)' = InstancesOf(r, entry[r].service)
    BY <1>1, <1>2, SnapStays DEF ChoiceInv, Served
  <2>2. QED
    BY <1>1, <1>2, <2>1 DEF ChoiceInv
<1>3. CASE Choose(r)
  <2>1. /\ pc[r] = "probing" /\ pc'[r] = "routed" /\ instance'[r] = Candidate(r)
        /\ UNCHANGED <<asked, captured, entry, ticket, offset>>
    BY <1>1, <1>3 DEF Choose, Goes, envVars, TypeOK
  <2>2. InstancesOf(r, entry[r].service)' = InstancesOf(r, entry[r].service)
    BY <2>1, SnapStays
  <2>3. QED
    BY <2>1, <2>2 DEF ChoiceInv, Candidate, Served
<1>4. CASE ~Choose(r)
  <2>1. /\ instance'[r] = instance[r]
        /\ instance[r] # None =>
            /\ captured'[r] = captured[r] /\ asked'[r] = asked[r] /\ entry'[r] = entry[r]
            /\ ticket'[r] = ticket[r] /\ offset'[r] = offset[r] /\ pc'[r] \in Served \ {"probing"}
    <3> USE <1>1 DEF TypeOK, ChoiceInv, Goes, Served, envVars, historyVars
    <3>1. CASE \E q \in Requests, ask \in Asks : Capture(q, ask)
      BY <3>1 DEF Capture
    <3>2. CASE \E q \in Requests : RefuseUnknown(q) \/ RefuseEmpty(q) \/ RefuseDown(q)
                                   \/ Authorize(q) \/ RefuseRoles(q)
      BY <3>2 DEF RefuseUnknown, RefuseEmpty, RefuseDown, Authorize, RefuseRoles
    <3>3. CASE \E q \in Requests : Draw(q) \/ Skip(q)
      BY <3>3 DEF Draw, Skip
    <3>4. CASE \E q \in Requests \ {r} : Choose(q)
      BY <3>4 DEF Choose
    <3>5. CASE \E q \in Requests, now \in Times : Authenticate(q, now) \/ RefuseToken(q, now)
      BY <3>5 DEF Authenticate, RefuseToken
    <3>6. CASE \E snap \in Snapshots : Commit(snap)
      BY <3>6 DEF Commit
    <3>7. CASE \E key \in HealthKeys : HealthChanges(key[1], key[2])
      BY <3>7 DEF HealthChanges
    <3>8. CASE UNCHANGED vars
      BY <3>8 DEF vars
    <3>9. QED
      BY <1>4, <3>1, <3>2, <3>3, <3>4, <3>5, <3>6, <3>7, <3>8 DEF Next
  <2>2. CASE instance[r] = None
    BY <2>1, <2>2 DEF ChoiceInv
  <2>3. CASE instance[r] # None
    BY <1>2, <2>1, <2>3
  <2>4. QED
    BY <2>2, <2>3
<1>5. QED
  BY <1>3, <1>4

\* What EvenShare needs beyond IInv holds in every reachable state.
LEMMA ShareInvariance == Spec => []ShareInv
<1>1. Init => ShareInv
  <2> SUFFICES ASSUME Init PROVE ShareInv
    OBVIOUS
  <2>1. \A s \in Services : ServedBy(s) = {} /\ cursors[s] = 0
    BY DEF Init, ServedBy
  <2>2. \A s \in Services : TicketInv(s)
    BY <2>1 DEF TicketInv
  <2>3. QED
    BY <2>2 DEF Init, ShareInv, ChoiceInv
<1>2. IInv /\ ShareInv /\ [Next]_vars => ShareInv'
  BY TicketStep, ChoiceStep DEF ShareInv
<1>3. QED
  BY <1>1, <1>2, Invariance, PTL DEF Spec

\* The residues of the numbers below c differ in their frequency by one at most: but for the
\* first, every number with remainder a has one with remainder b close before it.
LEMMA NumberWithOtherRemainder ==
  ASSUME NEW n \in Nat \ {0}, NEW t \in Nat, NEW b \in 0..(n - 1), t >= n \/ b <= t % n
  PROVE  LET u == (t - (t % n)) + b - (IF b <= t % n THEN 0 ELSE n)
         IN u \in 0..t /\ u % n = b
<1> DEFINE k == t \div n
           a == t % n
<1>1. t = (n * k) + a /\ a \in 0..(n - 1) /\ k \in Nat
  BY DivisionWithRemainder
<1> HIDE DEF k, a
<1>2. CASE b <= a
  <2>1. n * k \in Nat
    BY <1>1
  <2>2. ((n * k) + b) % n = b
    BY <1>1, RemainderIsUnique
  <2>3. (t - a) + b - 0 = (n * k) + b
    BY <1>1, <2>1
  <2>4. QED
    BY <1>1, <1>2, <2>1, <2>2, <2>3 DEF a
<1>3. CASE b > a
  <2>1. k # 0
    BY <1>1, <1>3 DEF a
  <2>2. n * (k - 1) = (n * k) - n /\ k - 1 \in Nat
    BY <1>1, <2>1
  <2>3. n * (k - 1) \in Nat
    BY <2>2
  <2>4. ((n * (k - 1)) + b) % n = b
    BY <2>2, RemainderIsUnique
  <2>5. (t - a) + b - n = (n * (k - 1)) + b
    BY <1>1, <2>2
  <2>6. QED
    BY <1>1, <1>3, <2>3, <2>4, <2>5 DEF a
<1>4. QED
  BY <1>1, <1>2, <1>3

Class(S, f, n, a) == {x \in S : f[x] % n = a}

\* Of numbers that are all there up to c, and each once, about as many have one remainder as
\* have another.
LEMMA ClassesAreEven ==
  ASSUME NEW S, IsFiniteSet(S), NEW c \in Nat, NEW f \in [S -> 0..(c - 1)],
         \A x, y \in S : f[x] = f[y] => x = y,
         \A t \in 0..(c - 1) : \E x \in S : f[x] = t,
         NEW n \in Nat \ {0}, NEW a \in 0..(n - 1), NEW b \in 0..(n - 1)
  PROVE  Cardinality(Class(S, f, n, a)) - Cardinality(Class(S, f, n, b)) <= 1
<1> DEFINE A == {x \in S : f[x] % n = a}
           B == {x \in S : f[x] % n = b}
           X == {x \in A : f[x] >= n \/ b <= a}
           other(t) == (t - a) + b - (IF b <= a THEN 0 ELSE n)
           g == [x \in X |-> CHOOSE y \in B : f[y] = other(f[x])]
<1>1. IsFiniteSet(A) /\ IsFiniteSet(B) /\ IsFiniteSet(X)
  <2>1. A \in SUBSET S /\ B \in SUBSET S /\ X \in SUBSET S
    OBVIOUS
  <2>2. QED
    BY <2>1, FS_Subset
<1>2. ASSUME NEW x \in X
      PROVE  g[x] \in B /\ f[g[x]] = other(f[x])
  <2>1. f[x] \in 0..(c - 1) /\ f[x] \in Nat /\ f[x] % n = a /\ (f[x] >= n \/ b <= f[x] % n)
    OBVIOUS
  <2>2. other(f[x]) \in 0..f[x] /\ other(f[x]) % n = b
    BY <2>1, NumberWithOtherRemainder
  <2>3. other(f[x]) \in 0..(c - 1)
    BY <2>1, <2>2
  <2> HIDE DEF other
  <2>4. PICK y \in S : f[y] = other(f[x])
    BY <2>3
  <2>5. y \in B
    BY <2>2, <2>4
  <2>6. QED
    BY <2>4, <2>5
<1>3. g \in Injection(X, B)
  <2>1. g \in [X -> B]
    BY <1>2
  <2>2. ASSUME NEW x \in X, NEW y \in X, g[x] = g[y]
        PROVE  x = y
    <3>1. other(f[x]) = other(f[y])
      BY <1>2, <2>2
    <3>2. f[x] \in Nat /\ f[y] \in Nat /\ x \in S /\ y \in S
      OBVIOUS
    <3>3. f[x] = f[y]
      BY <3>1, <3>2
    <3>4. QED
      BY <3>2, <3>3
  <2> HIDE DEF g, X, B
  <2>3. QED
    BY <2>1, <2>2, Fun_IsInj
<1>4. Cardinality(X) <= Cardinality(B)
  BY <1>1, <1>3, FS_Injection
<1>5. \A x \in A \ X : f[x] = a
  <2> SUFFICES ASSUME NEW x \in A \ X PROVE f[x] = a
    OBVIOUS
  <2>1. f[x] \in Nat /\ f[x] < n /\ f[x] % n = a
    OBVIOUS
  <2>2. n * 0 = 0 /\ f[x] \in 0..(n - 1)
    BY <2>1
  <2>3. ((n * 0) + f[x]) % n = f[x]
    BY <2>2, RemainderIsUnique
  <2>4. QED
    BY <2>1, <2>2, <2>3
<1>6. Cardinality(A) <= Cardinality(X) + 1
  <2>1. CASE A \ X = {}
    <3>1. A = X
      BY <2>1
    <3> HIDE DEF A, X
    <3>2. QED
      BY <1>1, <3>1, FS_CardinalityType
  <2>2. CASE A \ X # {}
    <3>1. PICK x \in A \ X : TRUE
      BY <2>2
    <3>2. A = X \cup {x} /\ x \notin X
      BY <1>5, <3>1
    <3> HIDE DEF A, X
    <3>3. Cardinality(A) = Cardinality(X) + 1
      BY <1>1, <3>2, FS_AddElement
    <3>4. QED
      BY <1>1, <3>3, FS_CardinalityType
  <2>3. QED
    BY <2>1, <2>2
<1> HIDE DEF A, B, X
<1>7. Cardinality(A) \in Nat /\ Cardinality(B) \in Nat /\ Cardinality(X) \in Nat
  BY <1>1, FS_CardinalityType
<1>8. Cardinality(A) - Cardinality(B) <= 1
  BY <1>4, <1>6, <1>7
<1>9. QED
  BY <1>8 DEF A, B, Class

\* NextInstance takes the drawn number modulo the number of instances (load_balancer.go:62-66):
\* whoever draws between two of a request's steps, no instance gets two requests more than
\* another of the same list.
THEOREM SharesAreEven == Spec => []EvenShare
<1>1. IInv /\ ShareInv => EvenShare
  <2> SUFFICES ASSUME IInv, ShareInv, NEW s \in Services,
                      \A q \in ServedBy(s) : instance[q] # None /\ offset[q] = 0,
                      NEW r \in ServedBy(s),
                      NEW i \in {InstancesOf(r, s)[m] : m \in DOMAIN InstancesOf(r, s)},
                      NEW j \in {InstancesOf(r, s)[m] : m \in DOMAIN InstancesOf(r, s)},
                      \A q \in ServedBy(s) : InstancesOf(q, s) = InstancesOf(r, s)
               PROVE  Cardinality({q \in ServedBy(s) : instance[q] = i})
                        - Cardinality({q \in ServedBy(s) : instance[q] = j}) <= 1
    BY DEF EvenShare, ServedBy
  <2> DEFINE list == InstancesOf(r, s)
             n == Len(list)
             f == [q \in ServedBy(s) |-> ticket[q]]
  <2>1. r \in Requests /\ entry[r] # None /\ entry[r].service = s /\ pc[r] # "new"
    BY DEF ServedBy, IInv, Own, CaptureInv, Served
  <2>2. /\ list \in Seq(Instances)
        /\ \A k, m \in DOMAIN list : list[k] = list[m] => k = m
    <3> HIDE DEF list
    <3>1. Snap(r) \in Snapshots /\ entry[r] = RouteOf(r) /\ RouteOf(r) # None
      BY <2>1, Captured, EntryTypes
    <3>2. Snap(r).services[s] # None /\ list \in Seq(Instances)
      <4>1. /\ RouteOf(r).service \in Registered(Snap(r))
            /\ InstancesOf(r, RouteOf(r).service) \in Seq(Instances)
        BY <2>1, <3>1, RouteTypes
      <4>2. QED
        BY <2>1, <3>1, <4>1 DEF Registered, list
    <3>3. \A k, m \in 1..Len(list) : list[k] = list[m] => k = m
      BY <3>1, <3>2, ServiceTypes DEF InstancesOf, list
    <3>4. DOMAIN list = 1..Len(list)
      BY <3>2, LenProperties
    <3>5. QED
      BY <3>2, <3>3, <3>4
  <2> HIDE DEF list
  <2>3. /\ n \in Nat \ {0} /\ DOMAIN list = 1..n
        /\ \E m \in 1..n : list[m] = i
        /\ \E m \in 1..n : list[m] = j
    <3>1. n \in Nat /\ DOMAIN list = 1..n
      BY <2>2
    <3>2. (\E m \in DOMAIN list : list[m] = i) /\ (\E m \in DOMAIN list : list[m] = j)
      BY DEF list
    <3> HIDE DEF n
    <3>3. QED
      BY <3>1, <3>2
  <2>4. PICK k \in 1..n : list[k] = i
    BY <2>3
  <2>5. PICK m \in 1..n : list[m] = j
    BY <2>3
  <2> HIDE DEF n
  <2>6. \A q \in ServedBy(s) :
          ticket[q] \in Nat /\ instance[q] = list[(ticket[q] % n) + 1] /\ (ticket[q] % n) \in 0..(n - 1)
    <3> SUFFICES ASSUME NEW q \in ServedBy(s)
                 PROVE  ticket[q] \in Nat /\ instance[q] = list[(ticket[q] % n) + 1]
                          /\ (ticket[q] % n) \in 0..(n - 1)
      OBVIOUS
    <3>1. /\ q \in Requests /\ entry[q].service = s /\ instance[q] # None /\ offset[q] = 0
          /\ InstancesOf(q, s) = list
      BY DEF ServedBy, list
    <3>2. ticket[q] \in Nat /\ ticket[q] + 0 = ticket[q]
      BY <3>1 DEF IInv, TypeOK
    <3>3. instance[q] = list[((ticket[q] + offset[q]) % Len(list)) + 1]
      BY <3>1 DEF ShareInv, ChoiceInv
    <3>4. (ticket[q] % n) \in 0..(n - 1)
      BY <2>3, <3>2, DivisionWithRemainder
    <3>5. QED
      BY <3>1, <3>2, <3>3, <3>4 DEF n
  <2>7. /\ {q \in ServedBy(s) : instance[q] = i} = {q \in ServedBy(s) : f[q] % n = k - 1}
        /\ {q \in ServedBy(s) : instance[q] = j} = {q \in ServedBy(s) : f[q] % n = m - 1}
    <3>1. ASSUME NEW q \in ServedBy(s), NEW l \in 1..n
          PROVE  instance[q] = list[l] <=> ticket[q] % n = l - 1
      <4>1. (ticket[q] % n) + 1 \in 1..n
        BY <2>3, <2>6
      <4>2. list[(ticket[q] % n) + 1] = list[l] => (ticket[q] % n) + 1 = l
        BY <2>2, <2>3, <4>1
      <4>3. QED
        BY <2>3, <2>6, <4>2
    <3>2. QED
      BY <2>4, <2>5, <3>1
  <2>8. IsFiniteSet(ServedBy(s))
    BY RequestsFinite, FS_Subset DEF ServedBy
  <2>9. cursors[s] \in Nat
    BY DEF IInv, TypeOK
  <2>10. /\ f \in [ServedBy(s) -> 0..(cursors[s] - 1)]
         /\ \A p, q \in ServedBy(s) : f[p] = f[q] => p = q
         /\ \A t \in 0..(cursors[s] - 1) : \E q \in ServedBy(s) : f[q] = t
    BY DEF ShareInv, TicketInv
  <2>11. k - 1 \in 0..(n - 1) /\ m - 1 \in 0..(n - 1)
    BY <2>3
  <2> HIDE DEF f
  <2>12. \A a, b \in 0..(n - 1) :
           Cardinality(Class(ServedBy(s), f, n, a)) - Cardinality(Class(ServedBy(s), f, n, b)) <= 1
    BY <2>3, <2>8, <2>9, <2>10, ClassesAreEven
  <2>13. QED
    BY <2>7, <2>11, <2>12 DEF Class
<1>2. QED
  BY <1>1, Invariance, ShareInvariance, PTL

=============================================================================

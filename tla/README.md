# A verification development for wintergate

Wintergate is an API gateway in Go. Upstream services register themselves over HTTP; every
other request is authenticated, routed to an instance that passes its health checks, given a
connection pool that fits the load of the service, and forwarded. This directory holds TLA+
models of its parts, the TLC configurations that check them on small instances, and theorems
about them with proofs for TLAPS.

What makes the gateway hard to get right is concurrency. A request runs on its own goroutine and
passes through parts that each protect themselves with a mutex, an atomic pointer or plain
atomics; no lock covers two of them. It holds a snapshot of the configuration that may be out of
date, a client that may be replaced while it is used, and a health status that may change while it
is read. The models are about those interleavings. They abstract what travels (names, addresses,
roles, payloads are members of small sets) and keep what decides (guards, early returns, the order
of writes, which lock covers what).

Contents: 1 the system, 2 the modules, 3 the runs, 4 fairness, 5 the proofs, 6 disagreements
between code and comments, 7 what is not modelled, 8 the plan.

## 1. The system

    main.go ──> api (HTTP) ──Register/Deregister──> config.Manager ──snapshot──> health.Manager
                   │                                  │  validators: route, auth, pool policy
                   │                                  └─ atomic pointer ──> requests
                   └─ a request ─> gateway.Orchestrator
                         RouteTask        captures the active snapshot, router, load balancer ──> health.Store
                         TraceTask        an ID for the request
                         AuthenticateTask JWT decoder, auth settings and key sets of the snapshot
                         AuthorizeTask    roles of the route
                         TransferTask     traffic.Recorder ─> policy.Store ─> transfer.Forwarder ─> pool.Coordinator

| component | state it keeps | operations | meets | what is hard | what makes it correct |
|---|---|---|---|---|---|
| Client pool coordinator, `internal/pool` | map of dedicated clients under an RWMutex, a shared client, a WaitGroup and a drain goroutine per retired client | `Acquire`, `retire`, `Finish` | forwarder, `http.Transport` | look-up under the read lock, replacement under the write lock; retirement while leases are out; connections that become idle after the first close | no client lost, none lent after retirement, none drained in use, leases counted, retired clients drained |
| Forwarder, `internal/pool/transfer.go`, `proxy.go` | none of its own; the response it writes to | `Handle`, the reverse proxy's `ModifyResponse` and `ErrorHandler` | coordinator, upstream, HTTP API, metrics | errors and panics between lease and answer, before and after the first byte; an upgrade that fails after 101; several handlers that learn of one outcome | the lease ends on every path; one answer; each outcome counted once |
| Pool policy store, `internal/pool/policy` | tier, timer and revision of each service, a mutex | `AssignmentFor` (`Apply`, `Delete`) | recorder (load), snapshot (thresholds) | requests hold snapshots of different ages | policies never mixed; up at once, down after the delay |
| Traffic recorder, `internal/pool/traffic` | per service: three atomics and a ring of buckets | `Start`, its `DoneFunc`, `StatusFor` | transfer task | no lock covers the counters; buckets are used again | in-flight exact; a status never shows more finished than started; a bucket counts its own second |
| Configuration manager, `internal/config` | the active snapshot (atomic pointer), a mutex, validators, listeners | `Register`, `DeregisterInstance`, `Settings` | validators, listeners, requests | copy on write; refusal half way; listeners called without the lock | indexes agree with services; published snapshots frozen; calls atomic |
| Settings normalization, `internal/config/normalize.go` | none | `normalizeSettings`, `normalizeHealthSettings` ... | HTTP API, health settings | stored settings are read again by other code, which refuses nothing | what is accepted can be run with, and is a fixpoint |
| Route validator, `internal/route/config/validator.go` | none | `Validate` | configuration manager | | indexes name registered services |
| Auth settings and JWKS, `internal/auth/config` | none of its own: the settings are part of the snapshot | `Validate`, `SnapshotFor`, `PublicKeyFor` | configuration manager, decoder | keys are built anew for every look-up, from the snapshot of the request | a key only if the settings name it under that kid |
| Health manager and checker, `internal/health` | targets with generations, a mutex, a client with room for a connection per target, a goroutine with its counters and its timer per target | `OnSnapshotCommitted`, `reconcile`, the loop | configuration manager, health store | deliveries overlap each other and checks under way; cancellation after unlock | one loop per target, status and waiting time earned by its own checks |
| Health store, `internal/health/store.go` | record per key behind an atomic pointer, a mutex for writers | `SetUnknown`, `UpdateStatus`, `Delete`, `IsRoutableKey` | checker, load balancer | late results of dropped targets | records are those of the present targets |
| Health settings, `internal/health/config.go` | none | `desiredTargets`, `runtimeSettingsFrom`, `nextInterval` | health manager, normalization | doubling and its limit, odd maxima | backoff between base and maximum |
| Router, `internal/route/config/router.go` | none | `RouteFor` | route task | two indexes; overlap of exact, ALL and wildcard routes | the exact method, then ALL, then the first wildcard that matches |
| Load balancer, `internal/route/config/load_balancer.go` | an atomic cursor per service in a `sync.Map` | `NextInstance` | snapshot, health store | instances and their health change under the cursor | no refusal while an instance is up; a fair share |
| Gateway pipeline, `internal/gateway` | the state of one request | `Receive` and the tasks in order | everything | the configuration changes while a request is on its way | what is forwarded is entitled to it by one snapshot; nobody entitled is refused |
| JWT decoder, `internal/auth` | none | `DecodeFor` | auth settings | three dates, each with a skew | accepts the genuine tokens of the service, and those only |
| HTTP API, `api` | the response (gin's `ResponseWriter`) | the handlers of the configuration; `Receive`, `receiveFailure` | configuration manager, pipeline, forwarder | whether anybody has answered is read off a flag that a noted status does not set | one answer; a success only where the upstream's answer is one, or has no body (section 6) |
| Metrics, `internal/metric` | Prometheus counters and gauges | `recordPool` and its `sync.Once`, the observer | forwarder, HTTP API | gauges that go up and down on different paths | counters and gauges add up |
| Pool configuration, `internal/pool/config` | read once | | coordinator | | |
| Request IDs, wiring | none | | | | |

`PROJECT.json` lists the same components with the files of each and what is modelled of it, and,
under `hazards`, each place of the code where an order of events could go wrong, with the
properties that would notice.

## 2. The modules

One module per component, with the variables, one action per atomic step of the code, and the
properties at its end. A step is atomic if the code makes it under one lock or as one atomic
access. The definitions that begin with `Mutant:` are the code with a plausible mistake in it and
are used by no specification; replacing the definition that follows by one of them has to break a
property, which shows that the property speaks about that code.

**`Coordinator`** (`internal/pool/coordinate.go`, `client.go`, and `Handle` of `transfer.go`).
`dedicated` is the map, `lock` the write lock (a reader needs it free), `wg` the counters of the
WaitGroups, `waiter` the goroutine of `retire`. `AcquireFast`/`MissFast` are the look-up under the
read lock, `TakeLock`, `Replace`, `Admit` the section under the write lock with its second look.
A client is named after the request that created it. `GetConn` to `Answer` are `Client.Do` and the
closing of the body. The client is made without a `CheckRedirect`, so `Do` follows redirects by
itself: `Redirect` gives the connection back and wants another under the same lease, for the requests
of `Redirecting`. `http.Transport` is not in the repository and is modelled by what the
coordinator relies on: whether it holds an idle connection (`idle`), whether it closes connections
that become idle (`closing`, set by `CloseIdleConnections` and reset by the next request for a
connection), and a dial that goes on when nobody waits for it (`lateDial`). Left out because no
call in `src/` reaches them: an empty service name, an unknown tier and a nil shared client.

**`ClientLifecycle`** is what the coordinator promises, without locks, maps or counters: a client
is opened, lent, retired and, when nobody holds it, drained. `Coordinator!LifecycleSpec` is the
refinement mapping.

**`PolicyStore`** (`internal/pool/policy/store.go`). `published` is the sequence of snapshots,
a request captures an index of it (`Capture`, as `RouteTask` does) and is decided later
(`AssignStale`, `Assign`, each one critical section of the mutex). `Publish` is a commit by the
configuration manager and `Tick` the clock. `above` is history: when an evaluation that may set
the timer last asked for a dedicated tier. `Apply` and `Delete` are only called by tests.

**`PoolRuntime`** composes both as `TransferTask.Run` does: assignment first, lease afterwards,
with no lock over the two.

**`TrafficRecorder`** (`internal/pool/traffic/record.go`). Each atomic load, store or add is a
step. `Begin` reads the clock and looks for the record; `Look` to `AddSlow` are `bucketAdd` with
its unlocked fast path; `Scan` and `Load` are `StatusFor`, bucket by bucket and counter by
counter. Reading the clock and the read-locked look-up are one step. `Tick` assumes that no
goroutine is held up inside `Start` and `StatusFor` for a whole window (a minute): otherwise the
bucket of its second might be in use for a later second already, and it would turn it back.

**`ConfigManager`** (`internal/config/manager.go`, `snapshot.go`, with the route, auth and
policy validators of the wiring). The candidate is an object on a `heap`, `active` the atomic
pointer: a bug that wrote through the pointer that requests read would be visible. `Copy` locks
and copies; the `Build...` and `Refuse...` actions are the ways through `replaceService` and
`removeServiceInstance`, with what a refusal half way leaves in the candidate; `Commit` validates,
publishes and unlocks; `Return` ends the call of the listeners. `answer` is the HTTP status of the
call: 200 on return, 404 for a deregistration of what is not registered, 400 for everything else,
`Reject` included, which is a payload that cannot be decoded or normalized and never reaches the
manager. `ConfigFor` is the look-up of a service that the mapping to `ServiceRegistry` goes
through. `Select` is what the two filtering loops of `snapshot.go` leave of a list; it is written
without an operator for an argument, so that it can be reasoned about, and the run's instance
compares it with `SelectSeq` of the standard modules over all short lists.

**`ServiceRegistry`** is what the manager promises: registrations and deregistrations are atomic
and no two services own one route.

**`HealthConfig`** is the settings of a health check on their way from a payload to the loop that
uses them: `accepted` and `normalizeHealthSettings` (registration), `runtimeSettingsFrom` (the health
manager, which reads the stored strings again and refuses nothing), `jitterFor` and `nextInterval`
(the waiting time). A duration is a number; storing one as a string keeps it. `nextInterval` is a
recursive function, one value per doubling, because the maximum is met by a comparison with its
half, rounded down.

**`HealthManager`** (`internal/health/manager.go`, `checker.go`, `store.go`). A delivery takes
`mu`, drops outdated targets one by one and creates the missing ones, replaces the health client if
the number of targets has changed (`maxIdleConns`, set in `Unlock`), unlocks, and only then
cancels the loops it dropped. A target is named after its generation. A loop checks (`Check`,
which may still happen after its cancellation, because `select` chooses at random), stores what
its counters say and sets its timer (`SetStatus`, ignored by the store when the generation is
another) and ends. `results` is history for the meaning of a status and of a waiting time. What a
timer is set to is kept, when it fires is not: any time is allowed. The connections of the client
are left out.

**`HealthSync`** composes `ConfigManager` and `HealthManager` as `main.go` does: the call that has
committed delivers its own snapshot after the unlock. The statements about liveness are made here,
for a call returns when its delivery has.

**`Gateway`** (`internal/gateway`, `internal/route/config`). The way of a request from `Receive` to
`TransferTask`, one action per task and per way out of it: `Capture` is the one look at the active
snapshot, `RefuseUnknown` and `routeFor` are `RouteFor`, `Draw` is the atomic add of `NextInstance`
and `Choose`, `Skip`, `RefuseDown` its loop, one look at the health store each; `Authenticate` and
`Authorize` are the tasks of that name. `Commit` and `HealthChanges` are what the configuration
manager and the health manager do meanwhile: snapshots may be any that satisfy `Committable`, which
is what `ConfigManager` establishes of every snapshot it publishes, and a record may change at any
time. The clock is read once for a request and by nothing else, so it may show anything. `TraceTask`
is left out: nothing depends on the ID. What `TransferTask` does is in `PoolRuntime`.

**`TokenDecoder`** (`internal/auth/decoder.go`, `internal/auth/config`) is the decision about a
token: a pure operator that `Gateway` uses, and next to it `Genuine`, its definition by
what a token stands for: somebody who has the key made it for this service (`MadeFor`), and there is
an instant within the skew at which it holds (`HoldsAround`). The two agree but for a token whose own
dates contradict each other (`Contradictory`): it holds at no instant, and yet each date may pass by
itself; see section 6. A signature is abstracted to the key that made it.

**`Forwarding`** (`api/gateway/handler.go`, `internal/gateway/transfer.go`,
`internal/pool/transfer.go`, `proxy.go`, `internal/metric/record`) is the way of a request from the
handler to its pool and back. Four parties write to one response: the upstream's answer is copied to
it, `Handle` and the `ErrorHandler` of the reverse proxy answer 502, `Receive` adds an envelope if
nobody has written, and the observer counts the status it finds. They know of each other only
through gin's `ResponseWriter`, so the model keeps what that keeps: the status `noted` by
`WriteHeader`, whether anything was `written`, and next to them what the client was really `sent`,
and by whom (`authors`). `Answer` notes, `CopyBegins` writes, and both `CopyEnds` and `CopyFails` may
come without it: an empty body, an error before the first byte. `Switch`, `Upgrade`,
`UpgradeRefused` and `UpgradeCut` are the reverse proxy's upgrade with the two ways in which it
fails after the observation of the pool has ended. `upstream` and `empty` are history: what the upstream
answered, after the redirects that `Do` follows (the reverse proxy passes them on), and whether that
answer has no byte of a body. An answer with a body is copied or breaks off; one without is never
written, unless the reverse proxy flushes its header. `held` are the deferred calls that are owed
(recorder, lease, body), and the metrics are those of the code. How requests interleave at the
policy store and the coordinator is the subject of `PoolRuntime`; here a request is given any pool.

The `MC...` modules give the constants their values.

## 3. The runs

| run | instance | states | what it shows |
|---|---|---|---|
| `coordinator` | 3 requests of which 1 is redirected, 1 service, 2 dedicated tiers | 372 thousand | no client is lost, lent after retirement or drained in use; leases are counted; the two looks at the map fit together; `ClientLifecycle` is implemented; a retired client is drained unless a request holds it for ever |
| `policy_store` | 2 requests again and again, 1 service, 2 policies, 3 revisions, 5 instants | 199 thousand | policies of different snapshots are not mixed; a dedicated tier is assigned only if the request's own policy provides for it; the return waits |
| `pool_runtime` | 2 requests, 1 policy | violation | see section 6 |
| `config_manager` | 4 calls, 2 services, 2 routes of which 1 wildcard, 7 payloads | 137 thousand | the calls are atomic (`ServiceRegistry`); the indexes agree with the services and with each other; published snapshots are frozen; a call fails only for its own reasons, and its status says which |
| `health` | 3 deliveries, 2 keys, 2 sets of wanted targets, 2 settings, 3 checks by loops that have not ended | 820 thousand | one loop per target; the targets are those of one delivered snapshot as a whole, with a client for as many; records belong to targets; the status and the waiting time are earned; accepted settings can be run with (every combination of forms, with values on either side of every bound) |
| `health_sync` | 3 calls, 1 service | violation | see section 6 |
| `health_sync_live` | 2 calls, 1 service, 2 checks | 19 thousand | every call returns; the goroutine of a dropped target ends |
| `traffic` | 3 requests, window of 2 seconds, 3 instants | 4 million | in-flight is exact, a status is consistent, a bucket is never charged with another second |
| `gateway` | 2 requests, 2 services, 3 snapshots of which 2 in a row, 5 questions, 3 instants | 1.5 million | what is forwarded was entitled to it by one snapshot; the closest route is taken; no refusal of an entitled request or with an instance up; even shares |
| `traffic_bucket` | as `traffic` | violation | see section 6 |
| `forwarding` | 3 requests, 2 pools, 2 statuses of upstreams, each with and without a body, 2 refusals | 2.5 million | one party answers; a status below 400 is that of the upstream, or the envelope's in the place of an answer without a body; the pool's counters and gauge add up; nothing leaks |
| `forwarding_status` | 2 requests | violation | see section 6 |

Why the bounds are enough to be interesting. Three requests are what a coordinator needs for a
race: one creates, one replaces or goes back, one is between its miss and its lease. One of them may
be redirected, any number of times; the theorems are about any set of such requests. They meet at
one service; that one service's replacement does not touch another's is part of what is proved, for
any number of services and tiers. The policy store needs two policies and a
third revision so that a request can be older than the state by one or by two, and a clock that
runs for twice the delay. Four calls let a service be registered, changed, refused and
deregistered while another competes for its routes. Three deliveries give a key a target, a
replacement, and a replacement of the replacement while the first loop is still running; two keys,
wanted together or one of them alone, make a delivery that is seen half done differ from both its
neighbours; three checks exceed both thresholds and reach an odd maximum of the backoff. One
request that is refused, one that fails and one that upgrades are three, and two pools show a
counter of the wrong one. A window of two seconds and a clock from 2 to 4 use one bucket
twice. Two requests are enough to draw one index at the same time, and the three snapshots differ in
keys, instances, routes and roles, so that a second look at the configuration anywhere on the way
shows. `MaxRevision`, `MaxTime` and `MaxChecks` (checks of all loops that have not ended) are the
only bounds in guards; they cut behaviours short and remove none. Deadlock is checked where the system cannot stop (`policy_store`) and
switched off where every request and call of the instance may simply be done. Symmetry is used in
runs without liveness only, over requests, calls, deliveries, pools and services where all of
them are interchangeable.

## 4. Fairness

Liveness is stated under what the Go runtime owes and nothing more.

- `Coordinator!Fairness`: a goroutine that can run does, for the goroutine of `retire` only.
  Nothing makes an upstream answer, so a lease may be held for ever, and
  `DrainedUnlessHeld` says so.
- `HealthSync!Fairness`: weak fairness for every call as a whole, its delivery and its return
  included, which with a lock taken in one step means that a call that waits is let in when no other
  one can move. `sync.Mutex` hands the lock to a waiter that has waited for a millisecond, so none
  starves. Nothing makes a call begin.
- `HealthManager!Fairness`: weak for deliveries and for storing a status. Strong for the end of a
  cancelled loop: it is offered again after each check, and `select` chooses among ready cases
  uniformly at random, so it is not passed over for ever. A check is not fair: it may
  never come.

## 5. The proofs

`tlapm` checks all of them with Z3, Zenon and LS4. They hold for every value of the constants
under the named assumptions of the modules (finite sets of requests, values that stand for nil
are not values, thresholds are numbers, payloads have the fields of their type).

**`CoordinatorProofs`.** The properties of the run are not inductive by themselves. That the
counter of a WaitGroup equals the number of holders says nothing about a request that holds the
write lock and is about to be admitted, and a client could be retired and then handed out by that
request. `IInv` therefore adds: the lock is held exactly by the request between `TakeLock` and
`Admit` (`LockInv`); what that request found is still true, since nobody else can write
(`WriterInv`); a client exists only after its own request created it (`CreatedInv`); the map
holds created clients only and no two services share one (`MapInv`); a drained transport closes
whatever becomes idle (`DrainInv`). With it,
`PublishedXorRetired`, the counting of leases and the emptiness of drained clients go through
action by action. `Invariance` is the induction, `NoLeaseAfterRetire` and
`ReplacedOnlyByAnotherTier` follow for each step from the invariant, and `ImplementsLifecycle` maps
each action to a step of `ClientLifecycle` or to a stutter. Cardinalities are handled by lemmas about
adding and removing one holder.

**`PolicyStoreProofs`.** The inductive invariant adds to the types that the revision of a
state and of a capture has been published, that the state's policy is the one of its revision,
that a decided answer is one of the tiers the captured policy provides for, and that
a timer that runs started after the last evaluation that asked for a dedicated tier. The last part
is what makes `ReturnsAfterDelay` a consequence of one step.

**`ForwardingProofs`.** Two invariants. `IInv` is about one request at a time: before the upstream is
asked nothing has been written and nothing went wrong (`Untouched`), what is copied is the upstream's
(`CopiesUpstream`), and `Written()` decides who answers (`WrittenDecides`): without it nothing was
sent, with it there is one author, and a request on its way back has it set, or has an error or an
answer without a body to account for. The last part is what `Reply` relies on: it is the reason that
every way out of `Handle` has to leave an error or a written answer behind, and the answer without a
body, which leaves neither, is the one that `Reply` replaces by its envelope. So the theorem about
successes, `SuccessesAreCopiedOrEmpty`, has that exception in its statement (`SuccessIsEarned`): it does
not say that an upstream's 404 is never answered with 200, and `forwarding_status` shows that one
without a body is. `OthersKeep` says once that the steps of a request
change nothing of another, so each action is looked at for its own request only. `MetricsInv` adds
where a request stands with the observation of its pool (`Places`): open exactly while it is
selected, so the `sync.Once` lets through the first outcome and the later calls of the
`ErrorHandler` find it closed; the counters are the sizes of sets of requests, and each action adds
or removes one element or none.

**`HealthManagerProofs`.** `OneLoopPerTarget` speaks about alive loops and their keys; inductive is
`CancelInv`, which says of every generation that what is cancelled, or about to be, is no target, and
the reverse for loops that go on. It needs that a target's loop is alive under its own key
(`LoopInv`), and that a new generation has no past (`FreshInv`). That there is a new generation at
all, although the model numbers only as many as deliveries times keys, is `GenerationInv`: a
delivery never finds outdated what it has created itself, so it uses one per key at most.
`SnapshotInv` is `TargetsAreOfOneSnapshot` with the capacity of the client. `AcceptedSettings` needs
no behaviour: it goes through the two readings of the settings field by field, for any payload.

A second invariant, `RunInv`, is about what the checks add up to, and needs the first. Its
`ResultInv` reads the counters off the history: the present row of equal outcomes is as long as the
counter says, and the status is the one the last completed row judged (`RowAtEnd`, `Judged`). From it
follows `StatusIsEarned`, for any thresholds. `TimerInv` says that a timer is set to what
`nextInterval` gives for the failures in a row. To say what that is, a recursive function has to be
evaluated for every argument, which takes an induction; the library's induction theorems take a
predicate, but `SetInduction` of `NaturalsLemmas` takes a set, and a set can be given. The closed form
(double as often as there were failures beyond the threshold, up to the maximum) is shown to satisfy
the recursion, so that the `CHOOSE` behind it has something to choose, and then that there is no other
(`GrowthIsWaited`, `NextIntervalIs`). So `WaitsAsLongAsFailing` holds for any number of failures, with
the comparison with half an odd maximum included.

**`ConfigManagerProofs`.** The active snapshot is `Sound`: the map of routes indexes the services, the
list of wildcard routes has what the map has, each once, and no service lists an address twice. That
is inductive only together with what a call has in its hands: while it is building, its candidate is a
copy of the active snapshot and nobody's published one; while it is validating, the candidate is what
its payload makes of the active snapshot (`Change`), which is sound unless the call is bound to fail.
`Exclusive` is the lock. The work is in the lemmas about the builder (`ReplacedIsIndexed`,
`ReplacedIsListed`, `RemovalIsSound`), which need what `Select` keeps of a list (`SelectProperties`,
for any list and any positions). `PublishedStays` and `FailuresAreOwn` follow for each step.
`ImplementsRegistry` goes through what callers see of a snapshot (`View`): a commit changes it as one
step of `ServiceRegistry` (`RegisterView`, `DeregisterView`), and every other step leaves it alone
(`InvisibleStep`), because a candidate cannot be seen before it is published.

**`TrafficRecorderProofs`.** Ten invariants that need each other. A request works on the record that is
registered, however many raced to create it (`RecordInv`). A request in `Start` or `StatusFor` is
younger than the window (`TimeInv`), so two of them that meet at a bucket mean the same second
(`SharedBucket`, arithmetic modulo the number of buckets); that is why a bucket that is locked, or was
found to have a request's second, keeps it (`LockInv`, `SecondInv`, `CountedInv`). The three counters
are the sizes of sets of requests (`CounterInv`), and a bucket counts part of those of its second
(`BucketInv`). `ScanInv` is how far a request has read, and `SeenInv` what it has seen by
then: itself, once its own bucket is behind it, and counters loaded in the order that keeps finished
below started. The four properties follow from these.

**`GatewayProofs`.** `IInv` says of each request what it has established so far of its captured snapshot:
that snapshots never change once published, so that `Snap(r)` remains what it was; which entry and
which instance it has; that its token decoded at the instant it noted; which instances it has found
down (`ProbeInv`). `OthersRest` and `RestingKeeps` say that another's step, a commit and a change of
health keep all of it. `DecodesSound` and `DecodesComplete` compare `decodes` with the meaning of a
token, for any dates and any skew; the first found that contradictory dates are accepted.
`RouteIsClosest` is about `routeFor` on any snapshot whose indexes agree with its services.
`SharesAreEven` is arithmetic: tickets below the cursor are drawn by one request each (`TicketInv`),
and of the numbers below any bound no remainder has two more than another (`ClassesAreEven`, which
matches each number of one remainder with a number of the other).

**`NaturalsLemmas`** has the facts about natural numbers the others share: induction over a set, the least
element of a set, division with remainder, a round of a ring that meets every position, powers of
two (as sizes of power sets, for want of a definition the provers can unfold).

Every invariant and action property that a passing run checks, and both refinements, are theorems.
Only model-checked are the liveness properties (`DrainedUnlessHeld`, `EveryCallReturns`,
`DroppedLoopEnds`), which need fairness and `ENABLED`; and the composition modules `PoolRuntime` and
`HealthSync`, of which two of the runs show what their components do not promise together. No module
has a RECURSIVE operator.

## 6. Disagreements between code and comments

Each of the first four is a run that TLC ends with a counterexample to what a comment says.

- `pool_runtime`, `PoolIsKeptForDelay`. `AssignmentFor` promises that under one policy only the
  return to the shared pool is delayed. The store keeps that promise. But a request that was
  assigned the shared pool just before the load rose may reach the coordinator after the request
  that was assigned the dedicated one, and `sharedClient` then retires the new dedicated client at
  once.
- `health_sync`, `TargetsFollowSnapshot`. Listeners are notified after the unlock. Two calls may
  commit in one order and deliver in the other; `reconcile` does not compare revisions, and the
  targets remain those of the older snapshot until the next change.
- `traffic_bucket`, `WindowIsExact`. `bucketAdd` publishes the new second of a bucket before it
  resets the count, so a request of that second on the fast path may be counted between the two
  and lost.
- `forwarding_status`, `AnswerIsUpstreams`. `Handle` notes the upstream's status and copies its body.
  If the body is empty nothing has been written when `Receive` looks, and it answers 200 with an
  envelope of its own: a 204, a 304 or a 404 without a body never reaches the client, although
  `TransferTask` is said to write the upstream's answer to it.

Seen while modelling or proving, and true of the models, but found against no comment or stated by no run:

- An upgrade writes its 101 on the bare connection, gin goes on noting the 404 it entered `NoRoute`
  with, and the observer counts a failure, where the failure counter is said to count answers of
  400 and above (`metric/record/request.go:100`).
- The gauge of a pool goes down when the header of the answer arrives, while the body or the tunnel
  still uses the connection; its help text (`metric/record/pool.go:89`) is about requests that use
  one. `PoolMetricsAddUp` states what it does count.
- A token's dates are compared with the clock one by one (`auth/decoder.go:248-265`). One whose `nbf` or
  `iat` lies after its `exp`, by no more than twice the skew, is accepted between the two, though
  there is no instant at which it holds. `ForwardedIsEntitled` says so.
- The offset of a target is added after the maximum of the backoff has been applied, so a loop may
  wait longer than `maxBackoff`, by less than the jitter.

## 7. What is not modelled, and why

- Parsing, encoding, URLs, headers and the bytes of bodies: data that no property here
  distinguishes. Of normalization the health settings are modelled; payloads in `ConfigManager` are
  those that normalization accepts, and one action stands for all it refuses.
- `http.Transport` beyond the three facts above; its limits and its idle timeout only close more
  connections. The connections of the health client, of which two targets at one address share one.
- `Store.Apply` and `Store.Delete` of the policy store, `AddValidator`, `AddSnapshotListener` and pool
  configuration: called by tests or before the server starts. A file that spells one tier in two ways
  is listed as a hazard: which of the two wins depends on the order of a map.
- Latencies and the time last seen: reported, never read back. Of the metrics, durations, connection
  events and labels.
- Request IDs: stateless.
- The width of durations. They are numbers without a bound, in the statements about accepted settings
  and about waiting times alike; overflow of a doubled interval, or of an interval with its jitter,
  is outside the models. `Duration` has 63 bits of nanoseconds, and settings that reach them wait for
  centuries.
- Slices that two snapshots share. `Services`, `Routes` and the lists in them are values in
  `ConfigManager`, copied as a whole with the snapshot; `PublishedIsFrozen` is about writing to a
  snapshot that is not one's own, and could not notice a list that is written in place. The code
  clones a list before it changes it (`snapshot.go:62-68`).
- What a redirect does to the request itself (its method, its body, the host it leads to, and that
  `Do` gives up after ten): `Redirect` keeps what matters to the lease and the connections, and
  `Forwarding` sees the last answer only.
- The trimming of a kid, which look-up does and the storing of keys does not (`jwks.go:46`,
  `store.go:154`): names are model values here, and have no spaces around them.

## 8. The plan

In order of what matters to a request:

1. *(done)* `Coordinator` with `ClientLifecycle`, `PolicyStore`, `PoolRuntime`; their proofs.
2. *(done)* `ConfigManager` with `ServiceRegistry`, `HealthManager`, `HealthSync`,
   `TrafficRecorder`.
3. *(done)* `Gateway` with `TokenDecoder`: routing, balancing and authorization over the captured
   snapshot.
4. *(done)* `Forwarding`: who answers, and what is counted, with every failure on the way.
5. *(done)* `HealthConfig`: settings from the payload to the loop, and the waiting times; statuses of
   the configuration API in `ConfigManager`.
6. *(done)* Proofs of every invariant, action property and refinement that the passing runs check.
7. Compositions: `Gateway` with `PolicyStore` and `Coordinator` for the whole way of a request, and
   the pool side with the recorder, so that the load of `PolicyStore` is measured and not arbitrary.
8. The forms of a kid, and the file of the pool configuration.

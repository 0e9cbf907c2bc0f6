--------------------------- MODULE TrafficRecorder ---------------------------
(***************************************************************************)
(* internal/pool/traffic: Recorder (record.go) for one service, as         *)
(* TransferTask.Run uses it: every request counts itself (Start), reads    *)
(* the status its pool assignment is decided from (StatusFor) and counts   *)
(* itself out when it has been answered (the DoneFunc, deferred).          *)
(*                                                                         *)
(* Counters are atomics without a common lock, so each load and each store *)
(* is a step.  A ring of one bucket per second of the window counts the    *)
(* requests of that second; a bucket is used again for the second one      *)
(* window later.  A record is named after the request that created it.     *)
(* Latencies and the time last seen, which are only reported, are left out.*)
(***************************************************************************)
EXTENDS Integers, Sequences, FiniteSets

CONSTANTS
    Requests,    \* goroutines
    BucketCount, \* bucketCount(window): seconds in the window
    None,        \* no record, bucket not locked
    MaxTime      \* bound on the clock

ASSUME RequestsFinite == IsFiniteSet(Requests) /\ None \notin Requests
ASSUME WindowIsPositive == BucketCount \in Nat \ {0}

Buckets == 0..(BucketCount - 1)

VARIABLES
    now,       \* the clock, in seconds
    pc,        \* where each request stands
    startedAt, \* the second a request has read in Start
    rec,       \* the record it has got
    readAt,    \* the second it has read in StatusFor
    scan,      \* the next bucket it reads, then the next counter
    status,    \* the status it has read so far
    current,   \* Recorder.records of the service
    inFlight, started, finished, \* of each record
    second, requests, bucketMu   \* of each bucket of each record

requestVars == <<startedAt, rec, readAt, scan, status>>
counterVars == <<inFlight, started, finished>>
bucketVars == <<second, requests, bucketMu>>
vars == <<now, pc, startedAt, rec, readAt, scan, status, current,
          inFlight, started, finished, second, requests, bucketMu>>

Starting == {"create", "inFlight", "started", "look", "fast", "lock", "rotate", "reset", "slow"}
Reading == {"scan", "load"}

Unread == [inWindow |-> 0, finished |-> 0, inFlight |-> 0, started |-> 0]

TypeOK ==
    /\ now \in Nat
    /\ pc \in [Requests -> {"new", "read", "forward", "finish", "done"} \cup Starting \cup Reading]
    /\ startedAt \in [Requests -> Nat]
    /\ rec \in [Requests -> Requests \cup {None}]
    /\ readAt \in [Requests -> Nat]
    /\ scan \in [Requests -> 0..(BucketCount + 3)]
    /\ status \in [Requests -> [inWindow : Nat, finished : Nat, inFlight : Int, started : Nat]]
    /\ current \in Requests \cup {None}
    /\ inFlight \in [Requests -> Int]
    /\ started \in [Requests -> Nat]
    /\ finished \in [Requests -> Nat]
    /\ second \in [Requests -> [Buckets -> Nat]]
    /\ requests \in [Requests -> [Buckets -> Nat]]
    /\ bucketMu \in [Requests -> [Buckets -> Requests \cup {None}]]

\* A bucket starts as the bucket of second zero, long before the window.
Init ==
    /\ now = BucketCount
    /\ pc = [r \in Requests |-> "new"]
    /\ startedAt = [r \in Requests |-> 0]
    /\ rec = [r \in Requests |-> None]
    /\ readAt = [r \in Requests |-> 0]
    /\ scan = [r \in Requests |-> 0]
    /\ status = [r \in Requests |-> Unread]
    /\ current = None
    /\ inFlight = [o \in Requests |-> 0]
    /\ started = [o \in Requests |-> 0]
    /\ finished = [o \in Requests |-> 0]
    /\ second = [o \in Requests |-> [b \in Buckets |-> 0]]
    /\ requests = [o \in Requests |-> [b \in Buckets |-> 0]]
    /\ bucketMu = [o \in Requests |-> [b \in Buckets |-> None]]

Goes(r, from, to) == pc[r] = from /\ pc' = [pc EXCEPT ![r] = to]

\* No goroutine is held up for a whole window (a minute) in Start and StatusFor.
Tick ==
    /\ now < MaxTime
    /\ \A r \in Requests : pc[r] \in Starting \cup Reading \cup {"read"} => now + 1 - startedAt[r] < BucketCount
    /\ now' = now + 1
    /\ UNCHANGED <<pc, requestVars, current, counterVars, bucketVars>>

-----------------------------------------------------------------------------
(* Start                                                                   *)

\* Start reads the clock; findRecord takes the read lock only.
Begin(r) ==
    /\ pc[r] = "new"
    /\ startedAt' = [startedAt EXCEPT ![r] = now]
    /\ rec' = [rec EXCEPT ![r] = current]
    /\ pc' = [pc EXCEPT ![r] = IF current = None THEN "create" ELSE "inFlight"]
    /\ UNCHANGED <<now, readAt, scan, status, current, counterVars, bucketVars>>

\* Mutant: no second look under the write lock.
CreateUnchecked(r) ==
    /\ Goes(r, "create", "inFlight")
    /\ current' = r
    /\ rec' = [rec EXCEPT ![r] = r]
    /\ UNCHANGED <<now, startedAt, readAt, scan, status, counterVars, bucketVars>>

\* Under the write lock: another request may have created the record meanwhile.
Create(r) ==
    /\ Goes(r, "create", "inFlight")
    /\ current' = IF current = None THEN r ELSE current
    /\ rec' = [rec EXCEPT ![r] = current']
    /\ UNCHANGED <<now, startedAt, readAt, scan, status, counterVars, bucketVars>>

CountInFlight(r) ==
    /\ Goes(r, "inFlight", "started")
    /\ inFlight' = [inFlight EXCEPT ![rec[r]] = @ + 1]
    /\ UNCHANGED <<now, requestVars, current, started, finished, bucketVars>>

CountStarted(r) ==
    /\ Goes(r, "started", "look")
    /\ started' = [started EXCEPT ![rec[r]] = @ + 1]
    /\ UNCHANGED <<now, requestVars, current, inFlight, finished, bucketVars>>

bucketOf(r) == startedAt[r] % BucketCount

\* bucketAdd looks at the bucket without its lock.
Look(r) ==
    /\ pc[r] = "look"
    /\ pc' = [pc EXCEPT ![r] =
                IF second[rec[r]][bucketOf(r)] = startedAt[r] THEN "fast" ELSE "lock"]
    /\ UNCHANGED <<now, requestVars, current, counterVars, bucketVars>>

AddFast(r) ==
    /\ Goes(r, "fast", "read")
    /\ requests' = [requests EXCEPT ![rec[r]][bucketOf(r)] = @ + 1]
    /\ UNCHANGED <<now, requestVars, current, counterVars, second, bucketMu>>

LockBucket(r) ==
    /\ Goes(r, "lock", "rotate")
    /\ bucketMu[rec[r]][bucketOf(r)] = None
    /\ bucketMu' = [bucketMu EXCEPT ![rec[r]][bucketOf(r)] = r]
    /\ UNCHANGED <<now, requestVars, current, counterVars, second, requests>>

\* Mutant: the requests of the old second stay in the bucket.
RotateOnly(r) ==
    /\ Goes(r, "rotate", "slow")
    /\ second' = [second EXCEPT ![rec[r]][bucketOf(r)] = startedAt[r]]
    /\ UNCHANGED <<now, requestVars, current, counterVars, requests, bucketMu>>

\* The bucket's second changes first, and is seen by requests that do not lock.
Rotate(r) ==
    /\ pc[r] = "rotate"
    /\ \/ /\ second[rec[r]][bucketOf(r)] # startedAt[r]
          /\ second' = [second EXCEPT ![rec[r]][bucketOf(r)] = startedAt[r]]
          /\ pc' = [pc EXCEPT ![r] = "reset"]
       \/ /\ second[rec[r]][bucketOf(r)] = startedAt[r]
          /\ pc' = [pc EXCEPT ![r] = "slow"]
          /\ UNCHANGED second
    /\ UNCHANGED <<now, requestVars, current, counterVars, requests, bucketMu>>

Reset(r) ==
    /\ Goes(r, "reset", "slow")
    /\ requests' = [requests EXCEPT ![rec[r]][bucketOf(r)] = 0]
    /\ UNCHANGED <<now, requestVars, current, counterVars, second, bucketMu>>

\* Mutant: the request that rotates the bucket is not counted itself.
UnlockOnly(r) ==
    /\ Goes(r, "slow", "read")
    /\ bucketMu' = [bucketMu EXCEPT ![rec[r]][bucketOf(r)] = None]
    /\ UNCHANGED <<now, requestVars, current, counterVars, second, requests>>

AddSlow(r) ==
    /\ Goes(r, "slow", "read")
    /\ requests' = [requests EXCEPT ![rec[r]][bucketOf(r)] = @ + 1]
    /\ bucketMu' = [bucketMu EXCEPT ![rec[r]][bucketOf(r)] = None]
    /\ UNCHANGED <<now, requestVars, current, counterVars, second>>

-----------------------------------------------------------------------------
(* StatusFor                                                               *)

\* StatusFor reads the clock and finds the record.
ReadClock(r) ==
    /\ Goes(r, "read", "scan")
    /\ readAt' = [readAt EXCEPT ![r] = now]
    /\ UNCHANGED <<now, startedAt, rec, scan, status, current, counterVars, bucketVars>>

\* The requests of one bucket, as far as it is in the window that ends at time t.
countedAt(o, b, t) == IF t - second[o][b] \in Buckets THEN requests[o][b] ELSE 0

\* requestsInWindow reads the buckets one by one, each under its lock.
Scan(r) ==
    /\ pc[r] = "scan"
    /\ bucketMu[current][scan[r]] = None
    /\ status' = [status EXCEPT ![r].inWindow = @ + countedAt(current, scan[r], readAt[r])]
    /\ scan' = [scan EXCEPT ![r] = @ + 1]
    /\ pc' = [pc EXCEPT ![r] = IF scan[r] + 1 = BucketCount THEN "load" ELSE "scan"]
    /\ UNCHANGED <<now, startedAt, rec, readAt, current, counterVars, bucketVars>>

\* Mutant: started requests are loaded first.
LoadStartedFirst == <<"started", "inFlight", "finished">>

\* The order StatusFor loads the counters in.
LoadOrder == <<"finished", "inFlight", "started">>

counters(o) == [finished |-> finished[o], inFlight |-> inFlight[o], started |-> started[o]]

Load(r) ==
    LET counter == LoadOrder[scan[r] + 1 - BucketCount] IN
    /\ pc[r] = "load"
    /\ status' = [status EXCEPT ![r][counter] = counters(current)[counter]]
    /\ scan' = [scan EXCEPT ![r] = @ + 1]
    /\ pc' = [pc EXCEPT ![r] = IF scan[r] + 1 = BucketCount + Len(LoadOrder) THEN "forward" ELSE "load"]
    /\ UNCHANGED <<now, startedAt, rec, readAt, current, counterVars, bucketVars>>

-----------------------------------------------------------------------------
(* The DoneFunc, once per request                                          *)

FinishInFlight(r) ==
    /\ Goes(r, "forward", "finish")
    /\ inFlight' = [inFlight EXCEPT ![rec[r]] = @ - 1]
    /\ UNCHANGED <<now, requestVars, current, started, finished, bucketVars>>

FinishCount(r) ==
    /\ Goes(r, "finish", "done")
    /\ finished' = [finished EXCEPT ![rec[r]] = @ + 1]
    /\ UNCHANGED <<now, requestVars, current, inFlight, started, bucketVars>>

-----------------------------------------------------------------------------

Next ==
    \/ Tick
    \/ \E r \in Requests :
        \/ Begin(r) \/ Create(r) \/ CountInFlight(r) \/ CountStarted(r)
        \/ Look(r) \/ AddFast(r) \/ LockBucket(r) \/ Rotate(r) \/ Reset(r) \/ AddSlow(r)
        \/ ReadClock(r) \/ Scan(r) \/ Load(r)
        \/ FinishInFlight(r) \/ FinishCount(r)

Spec == Init /\ [][Next]_vars

-----------------------------------------------------------------------------
(* Properties                                                              *)

\* Between the two counts of a request, in and out.
InFlight(r) == pc[r] \in {"started", "look", "fast", "lock", "rotate", "reset", "slow",
                          "read", "forward"} \cup Reading
Counted(r) == pc[r] \in {"read", "forward", "finish", "done"} \cup Reading

\* The gauge the in-flight thresholds are compared with counts exactly the requests under way,
\* though requests that come first race to create the record (record.go:164-187).
InFlightIsExact ==
    current # None => inFlight[current] = Cardinality({r \in Requests : InFlight(r)})

\* No status shows more finished than started requests, although the counters are loaded one
\* by one while requests start and finish (record.go:114-120).
FinishedWereStarted ==
    \A r \in Requests : pc[r] \in {"forward", "finish", "done"} =>
        status[r].finished <= status[r].started

\* A request never decides by a load without itself: it is in flight, and the second it came in
\* is not counted as empty.
StatusCountsItself ==
    \A r \in Requests : pc[r] \in {"forward", "finish", "done"} =>
        /\ status[r].inFlight > 0
        /\ status[r].inWindow > 0

\* A bucket never counts requests of another second, once its rotation is complete
\* (record.go:213-224).
NeverOvercounts ==
    current # None =>
        \A b \in Buckets :
            (~ \E r \in Requests : pc[r] = "reset" /\ bucketOf(r) = b) =>
                requests[current][b] <=
                    Cardinality({r \in Requests : startedAt[r] = second[current][b]})

\* "Protects the reset of Second and requests when a bucket is used for another second"
\* (record.go:56): when every request has been counted, the window counts all of those that
\* came within it.
WindowIsExact ==
    (current # None /\ \A r \in Requests : pc[r] = "new" \/ Counted(r)) =>
        \A b \in Buckets :
            countedAt(current, b, now) =
                Cardinality({r \in Requests : /\ pc[r] # "new" /\ now - startedAt[r] \in Buckets
                                              /\ bucketOf(r) = b})
=============================================================================

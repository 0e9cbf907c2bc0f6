----------------------- MODULE TrafficRecorderProofs -----------------------
(***************************************************************************)
(* Proofs about TrafficRecorder, for any finite set of requests, a window  *)
(* of any number of seconds and a clock without bound.                     *)
(***************************************************************************)
EXTENDS TrafficRecorder, NaturalsLemmas, FiniteSetTheorems

\* A request that Tick does not leave behind: it is in Start or StatusFor.
Active(r) == pc[r] \in Starting \cup Reading \cup {"read"}

\* A request that has its record.
Located(r) == pc[r] \notin {"new", "create"}

\* A request whose status is complete.
Decided(r) == pc[r] \in {"forward", "finish", "done"}

\* Requests that race to create the record all end up with the same one.
RecordInv == \A r \in Requests : Located(r) => current \in Requests /\ rec[r] = current

\* A request in Start or StatusFor came within the window.
TimeInv == \A r \in Requests : Active(r) => startedAt[r] <= now /\ now - startedAt[r] < BucketCount

\* A bucket is rotated by the request that has locked it.
LockInv ==
    \A r \in Requests :
        pc[r] \in {"rotate", "reset", "slow"} => bucketMu[rec[r]][bucketOf(r)] = r

\* From its rotation until the requests of its second have read it, a bucket is of their second.
SecondInv ==
    \A r \in Requests :
        pc[r] \in {"fast", "reset", "slow", "read"} \cup Reading =>
            second[rec[r]][bucketOf(r)] = startedAt[r]

\* A bucket that is not locked counts at least the request that has counted itself there.
CountedInv ==
    \A r \in Requests :
        (pc[r] \in {"read"} \cup Reading /\ bucketMu[rec[r]][bucketOf(r)] = None) =>
            requests[rec[r]][bucketOf(r)] > 0

\* The requests each counter of a record stands for.
InFlightIn(o) == {r \in Requests : InFlight(r) /\ rec[r] = o}
StartedIn(o) == {r \in Requests : Located(r) /\ pc[r] \notin {"inFlight", "started"} /\ rec[r] = o}
FinishedIn(o) == {r \in Requests : pc[r] = "done" /\ rec[r] = o}

CounterInv ==
    \A o \in Requests :
        /\ inFlight[o] = Cardinality(InFlightIn(o))
        /\ started[o] = Cardinality(StartedIn(o))
        /\ finished[o] = Cardinality(FinishedIn(o))

\* The requests a bucket may count, and those that hold its rotation up.
CountedIn(o, b) == {r \in Requests : Counted(r) /\ rec[r] = o /\ startedAt[r] = second[o][b]}
BeingReset(o, b) == \E r \in Requests : pc[r] = "reset" /\ rec[r] = o /\ bucketOf(r) = b

BucketInv ==
    \A o \in Requests, b \in Buckets :
        ~BeingReset(o, b) => requests[o][b] <= Cardinality(CountedIn(o, b))

\* How far a request has read.
ScanInv ==
    \A r \in Requests :
        /\ pc[r] \notin Reading /\ ~Decided(r) => scan[r] = 0
        /\ pc[r] = "scan" => scan[r] \in Buckets
        /\ pc[r] = "load" => scan[r] \in BucketCount..(BucketCount + 2)
        /\ Decided(r) => scan[r] = BucketCount + 3
        /\ pc[r] \in Reading => readAt[r] - startedAt[r] \in Buckets

\* What a request has seen so far: itself in its bucket, no more finished requests than there
\* are by now, itself in flight, and no more finished than started requests.
SeenInv ==
    \A r \in Requests :
        /\ scan[r] > bucketOf(r) => status[r].inWindow > 0
        /\ scan[r] > BucketCount => status[r].finished <= finished[current]
        /\ scan[r] > BucketCount + 1 => status[r].inFlight > 0
        /\ scan[r] > BucketCount + 2 => status[r].finished <= status[r].started

IInv ==
    /\ TypeOK
    /\ RecordInv
    /\ TimeInv
    /\ LockInv
    /\ SecondInv
    /\ CountedInv
    /\ CounterInv
    /\ BucketInv
    /\ ScanInv
    /\ SeenInv

-----------------------------------------------------------------------------
(* Lemmas                                                                  *)

\* Two numbers less than n apart with the same remainder by n are equal.
LEMMA CloseAndCongruent ==
  ASSUME NEW n \in Nat \ {0}, NEW a \in Nat, NEW b \in Nat,
         a % n = b % n, a - b < n, b - a < n
  PROVE  a = b
<1> DEFINE p == a \div n
           q == b \div n
           m == a % n
<1>1. a = (n * p) + m /\ b = (n * q) + m /\ m \in Nat /\ p \in Nat /\ q \in Nat
  <2>1. a = (n * p) + m /\ m \in 0..(n - 1) /\ p \in Nat
    BY DivisionWithRemainder
  <2>2. b = (n * q) + (b % n) /\ q \in Nat
    BY DivisionWithRemainder
  <2> HIDE DEF p, q
  <2>3. QED
    BY <2>1, <2>2
<1> HIDE DEF p, q, m
<1>2. ASSUME NEW x \in Nat, NEW y \in Nat, x < y
      PROVE  (n * y) - (n * x) >= n
  <2>1. PICK d \in Nat : y = x + 1 + d
    <3>1. (y - x) - 1 \in Nat /\ y = x + 1 + ((y - x) - 1)
      BY <1>2
    <3>2. QED
      BY <3>1
  <2>2. n * y = (n * x) + n + (n * d) /\ n * d \in Nat /\ n * x \in Nat
    BY <2>1
  <2>3. QED
    BY <2>2
<1>3. n * p \in Nat /\ n * q \in Nat
  BY <1>1
<1>4. ~(p < q) /\ ~(q < p)
  BY <1>1, <1>2, <1>3
<1>5. QED
  BY <1>1, <1>4

\* Every request has a bucket.
LEMMA BucketTypes ==
  ASSUME TypeOK, NEW r \in Requests
  PROVE  bucketOf(r) \in Buckets
<1>1. startedAt[r] \in Nat
  BY DEF TypeOK
<1>2. QED
  BY <1>1, WindowIsPositive, DivisionWithRemainder DEF bucketOf, Buckets

\* Requests in Start or StatusFor that share a bucket came in the same second.
LEMMA SharedBucket ==
  ASSUME TypeOK, TimeInv, NEW r \in Requests, NEW q \in Requests, Active(r), Active(q),
         bucketOf(r) = bucketOf(q)
  PROVE  startedAt[r] = startedAt[q]
<1>1. now \in Nat /\ startedAt[r] \in Nat /\ startedAt[q] \in Nat
  BY DEF TypeOK
<1>2. startedAt[r] <= now /\ now - startedAt[r] < BucketCount
      /\ startedAt[q] <= now /\ now - startedAt[q] < BucketCount
  BY DEF TimeInv
<1>3. startedAt[r] % BucketCount = startedAt[q] % BucketCount
  BY DEF bucketOf
<1>4. startedAt[r] - startedAt[q] < BucketCount /\ startedAt[q] - startedAt[r] < BucketCount
  BY <1>1, <1>2, WindowIsPositive
<1>5. QED
  BY <1>1, <1>3, <1>4, WindowIsPositive, CloseAndCongruent

\* A part of the requests is finite.
LEMMA PartsAreFinite ==
  ASSUME NEW S \in SUBSET Requests
  PROVE  IsFiniteSet(S) /\ Cardinality(S) \in Nat
BY RequestsFinite, FS_Subset, FS_CardinalityType

\* A part of the requests that gains one, or loses one.
LEMMA PartGains ==
  ASSUME NEW S \in SUBSET Requests, NEW T \in SUBSET Requests, NEW r \in Requests,
         r \notin S, \A q \in Requests : q \in T <=> (q \in S \/ q = r)
  PROVE  Cardinality(T) = Cardinality(S) + 1
<1>1. T = S \cup {r}
  OBVIOUS
<1>2. QED
  BY <1>1, PartsAreFinite, FS_AddElement

\* Two parts with the same requests are one.
LEMMA PartStays ==
  ASSUME NEW S \in SUBSET Requests, NEW T \in SUBSET Requests,
         \A q \in Requests : q \in T <=> q \in S
  PROVE  T = S
OBVIOUS

\* A part that is not empty counts something.
LEMMA PartCounts ==
  ASSUME NEW S \in SUBSET Requests, NEW r \in S
  PROVE  Cardinality(S) > 0
<1>1. S # {} /\ IsFiniteSet(S)
  BY PartsAreFinite
<1>2. QED
  BY <1>1, PartsAreFinite, FS_EmptySet

\* What a step of the request r leaves to the others.
StepOf(r) ==
    \/ Begin(r) \/ Create(r) \/ CountInFlight(r) \/ CountStarted(r)
    \/ Look(r) \/ AddFast(r) \/ LockBucket(r) \/ Rotate(r) \/ Reset(r) \/ AddSlow(r)
    \/ ReadClock(r) \/ Scan(r) \/ Load(r)
    \/ FinishInFlight(r) \/ FinishCount(r)

\* One request moves, or the clock.
LEMMA StepIsOfOne ==
  ASSUME [Next]_vars
  PROVE  UNCHANGED vars \/ Tick \/ \E r \in Requests : StepOf(r)
BY DEF Next, StepOf

\* The counter that is loaded next.
LEMMA LoadedInOrder ==
  ASSUME TypeOK, ScanInv, NEW r \in Requests, Load(r)
  PROVE  \/ /\ scan[r] = BucketCount
            /\ status' = [status EXCEPT ![r].finished = finished[current]]
         \/ /\ scan[r] = BucketCount + 1
            /\ status' = [status EXCEPT ![r].inFlight = inFlight[current]]
         \/ /\ scan[r] = BucketCount + 2
            /\ status' = [status EXCEPT ![r].started = started[current]]
<1>1. scan[r] \in BucketCount..(BucketCount + 2) /\ BucketCount \in Nat
  BY WindowIsPositive DEF ScanInv, Load
<1>2. scan[r] = BucketCount \/ scan[r] = BucketCount + 1 \/ scan[r] = BucketCount + 2
  BY <1>1
<1>3. /\ (BucketCount + 1) - BucketCount = 1
      /\ ((BucketCount + 1) + 1) - BucketCount = 2
      /\ ((BucketCount + 2) + 1) - BucketCount = 3
  BY <1>1
<1>4. LoadOrder[1] = "finished" /\ LoadOrder[2] = "inFlight" /\ LoadOrder[3] = "started"
  BY DEF LoadOrder
<1> DEFINE counter == LoadOrder[scan[r] + 1 - BucketCount]
<1>5. status' = [status EXCEPT ![r][counter] = counters(current)[counter]]
  BY DEF Load
<1>6. CASE scan[r] = BucketCount
  <2>1. counter = "finished"
    <3>1. scan[r] + 1 - BucketCount = 1
      BY <1>1, <1>6
    <3>2. QED
      BY <1>4, <3>1
  <2>2. counters(current)[counter] = finished[current]
    BY <2>1 DEF counters
  <2> HIDE DEF counter
  <2>3. QED
    BY <1>5, <1>6, <2>1, <2>2
<1>7. CASE scan[r] = BucketCount + 1
  <2>1. counter = "inFlight"
    <3>1. scan[r] + 1 - BucketCount = 2
      BY <1>1, <1>7
    <3>2. QED
      BY <1>4, <3>1
  <2>2. counters(current)[counter] = inFlight[current]
    BY <2>1 DEF counters
  <2> HIDE DEF counter
  <2>3. QED
    BY <1>5, <1>7, <2>1, <2>2
<1>8. CASE scan[r] = BucketCount + 2
  <2>1. counter = "started"
    <3>1. scan[r] + 1 - BucketCount = 3
      BY <1>1, <1>8
    <3>2. QED
      BY <1>4, <3>1
  <2>2. counters(current)[counter] = started[current]
    BY <2>1 DEF counters
  <2> HIDE DEF counter
  <2>3. QED
    BY <1>5, <1>8, <2>1, <2>2
<1>9. QED
  BY <1>2, <1>6, <1>7, <1>8

\* A bucket counts a number of requests, whether it is within the window or not.
LEMMA CountedAtTypes ==
  ASSUME TypeOK, NEW o \in Requests, NEW b \in Buckets, NEW t
  PROVE  countedAt(o, b, t) \in Nat
BY DEF TypeOK, countedAt

\* Where a status has been read to.
LEMMA LoadSteps ==
  ASSUME ScanInv, NEW r \in Requests, Load(r)
  PROVE  /\ pc[r] = "load" /\ scan[r] \in BucketCount..(BucketCount + 2)
         /\ scan' = [scan EXCEPT ![r] = @ + 1]
         /\ pc' = [pc EXCEPT ![r] = IF scan[r] = BucketCount + 2 THEN "forward" ELSE "load"]
<1>1. scan[r] \in BucketCount..(BucketCount + 2) /\ pc[r] = "load"
  BY DEF ScanInv, Load
<1>2. Len(LoadOrder) = 3
  BY DEF LoadOrder
<1>3. scan[r] + 1 = BucketCount + Len(LoadOrder) <=> scan[r] = BucketCount + 2
  BY <1>1, <1>2, WindowIsPositive
<1>4. QED
  BY <1>1, <1>3 DEF Load

-----------------------------------------------------------------------------
(* One step                                                                *)

\* Every step keeps the types, because a request reads and writes only once it has its record.
LEMMA TypeStep == IInv /\ [Next]_vars => TypeOK'
<1> SUFFICES ASSUME IInv, [Next]_vars
             PROVE  TypeOK'
  OBVIOUS
<1> USE DEF Goes
<1>1. TypeOK /\ BucketCount \in Nat /\ BucketCount # 0
  BY WindowIsPositive DEF IInv
<1>2. CASE UNCHANGED vars
  BY <1>1, <1>2 DEF TypeOK, vars
<1>3. CASE Tick
  BY <1>1, <1>3 DEF TypeOK, Tick, requestVars, counterVars, bucketVars
<1>4. ASSUME NEW r \in Requests, StepOf(r)
      PROVE  TypeOK'
  <2>1. bucketOf(r) \in Buckets
    BY <1>1, BucketTypes
  <2>2. Located(r) => rec[r] \in Requests /\ current \in Requests
    BY DEF IInv, RecordInv
  <2>3. CASE Begin(r)
    BY <1>1, <2>3 DEF Begin, TypeOK, counterVars, bucketVars, Starting
  <2>4. CASE Create(r)
    BY <1>1, <2>4 DEF Create, TypeOK, counterVars, bucketVars, Starting
  <2>5. CASE CountInFlight(r)
    <3>1. rec[r] \in Requests
      BY <2>2, <2>5 DEF CountInFlight, Located
    <3>2. QED
      BY <1>1, <2>5, <3>1 DEF CountInFlight, TypeOK, requestVars, bucketVars, Starting
  <2>6. CASE CountStarted(r)
    <3>1. rec[r] \in Requests
      BY <2>2, <2>6 DEF CountStarted, Located
    <3>2. QED
      BY <1>1, <2>6, <3>1 DEF CountStarted, TypeOK, requestVars, bucketVars, Starting
  <2>7. CASE Look(r)
    BY <1>1, <2>7 DEF Look, TypeOK, requestVars, counterVars, bucketVars, Starting
  <2>8. CASE AddFast(r)
    <3>1. rec[r] \in Requests
      BY <2>2, <2>8 DEF AddFast, Located
    <3>2. QED
      BY <1>1, <2>1, <2>8, <3>1 DEF AddFast, TypeOK, requestVars, counterVars
  <2>9. CASE LockBucket(r)
    <3>1. rec[r] \in Requests
      BY <2>2, <2>9 DEF LockBucket, Located
    <3>2. QED
      BY <1>1, <2>1, <2>9, <3>1 DEF LockBucket, TypeOK, requestVars, counterVars, Starting
  <2>10. CASE Rotate(r)
    <3>1. rec[r] \in Requests
      BY <2>2, <2>10 DEF Rotate, Located
    <3>2. startedAt[r] \in Nat
      BY <1>1 DEF TypeOK
    <3>3. second' \in [Requests -> [Buckets -> Nat]]
      <4>1. \/ second' = [second EXCEPT ![rec[r]][bucketOf(r)] = startedAt[r]]
            \/ second' = second
        BY <2>10 DEF Rotate
      <4>2. second \in [Requests -> [Buckets -> Nat]]
        BY <1>1 DEF TypeOK
      <4>3. QED
        BY <2>1, <3>1, <3>2, <4>1, <4>2
    <3>4. /\ pc' \in [Requests -> {"new", "read", "forward", "finish", "done"} \cup Starting \cup Reading]
          /\ UNCHANGED <<now, requestVars, current, counterVars, requests, bucketMu>>
      BY <1>1, <2>10 DEF Rotate, TypeOK, Starting
    <3>5. QED
      BY <1>1, <3>3, <3>4 DEF TypeOK, requestVars, counterVars
  <2>11. CASE Reset(r)
    <3>1. rec[r] \in Requests
      BY <2>2, <2>11 DEF Reset, Located
    <3>2. QED
      BY <1>1, <2>1, <2>11, <3>1 DEF Reset, TypeOK, requestVars, counterVars, Starting
  <2>12. CASE AddSlow(r)
    <3>1. rec[r] \in Requests
      BY <2>2, <2>12 DEF AddSlow, Located
    <3>2. QED
      BY <1>1, <2>1, <2>12, <3>1 DEF AddSlow, TypeOK, requestVars, counterVars
  <2>13. CASE ReadClock(r)
    BY <1>1, <2>13 DEF ReadClock, TypeOK, counterVars, bucketVars, Reading
  <2>14. CASE Scan(r)
    <3>1. scan[r] \in Buckets /\ current \in Requests
      BY <2>2, <2>14 DEF Scan, IInv, ScanInv, Located
    <3>2. countedAt(current, scan[r], readAt[r]) \in Nat
      BY <1>1, <3>1, CountedAtTypes
    <3>3. scan[r] + 1 \in 0..(BucketCount + 3)
      BY <1>1, <3>1 DEF Buckets
    <3>4. status' \in [Requests -> [inWindow : Nat, finished : Nat, inFlight : Int, started : Nat]]
      <4>1. status[r] \in [inWindow : Nat, finished : Nat, inFlight : Int, started : Nat]
        BY <1>1 DEF TypeOK
      <4>2. status' = [status EXCEPT ![r].inWindow = @ + countedAt(current, scan[r], readAt[r])]
        BY <2>14 DEF Scan
      <4>3. status[r].inWindow + countedAt(current, scan[r], readAt[r]) \in Nat
        BY <3>2, <4>1
      <4>4. QED
        BY <1>1, <4>1, <4>2, <4>3 DEF TypeOK
    <3>5. /\ scan' = [scan EXCEPT ![r] = @ + 1]
          /\ pc' = [pc EXCEPT ![r] = IF scan[r] + 1 = BucketCount THEN "load" ELSE "scan"]
          /\ UNCHANGED <<now, startedAt, rec, readAt, current, counterVars, bucketVars>>
      BY <2>14 DEF Scan
    <3>6. QED
      BY <1>1, <3>3, <3>4, <3>5 DEF TypeOK, counterVars, bucketVars, Reading
  <2>15. CASE Load(r)
    <3>1. current \in Requests
      BY <2>2, <2>15 DEF Load, Located
    <3>2. status' \in [Requests -> [inWindow : Nat, finished : Nat, inFlight : Int, started : Nat]]
      <4>1. status[r] \in [inWindow : Nat, finished : Nat, inFlight : Int, started : Nat]
        BY <1>1 DEF TypeOK
      <4>2. finished[current] \in Nat /\ inFlight[current] \in Int /\ started[current] \in Nat
        BY <1>1, <3>1 DEF TypeOK
      <4>3. ScanInv /\ status \in [Requests -> [inWindow : Nat, finished : Nat, inFlight : Int, started : Nat]]
        BY <1>1 DEF IInv, TypeOK
      <4>4. \/ status' = [status EXCEPT ![r].finished = finished[current]]
            \/ status' = [status EXCEPT ![r].inFlight = inFlight[current]]
            \/ status' = [status EXCEPT ![r].started = started[current]]
        BY <1>1, <2>15, <4>3, LoadedInOrder
      <4>5. QED
        BY <4>1, <4>2, <4>3, <4>4
    <3>3. /\ scan[r] + 1 \in 0..(BucketCount + 3)
          /\ scan' = [scan EXCEPT ![r] = @ + 1]
          /\ pc' = [pc EXCEPT ![r] = IF scan[r] = BucketCount + 2 THEN "forward" ELSE "load"]
      BY <1>1, <2>15, LoadSteps DEF IInv
    <3>4. UNCHANGED <<now, startedAt, rec, readAt, current, counterVars, bucketVars>>
      BY <2>15 DEF Load
    <3>5. QED
      BY <1>1, <3>2, <3>3, <3>4 DEF TypeOK, counterVars, bucketVars, Reading
  <2>16. CASE FinishInFlight(r)
    <3>1. rec[r] \in Requests
      BY <2>2, <2>16 DEF FinishInFlight, Located
    <3>2. QED
      BY <1>1, <2>16, <3>1 DEF FinishInFlight, TypeOK, requestVars, bucketVars
  <2>17. CASE FinishCount(r)
    <3>1. rec[r] \in Requests
      BY <2>2, <2>17 DEF FinishCount, Located
    <3>2. QED
      BY <1>1, <2>17, <3>1 DEF FinishCount, TypeOK, requestVars, bucketVars
  <2>18. QED
    BY <1>4, <2>3, <2>4, <2>5, <2>6, <2>7, <2>8, <2>9, <2>10, <2>11, <2>12, <2>13, <2>14, <2>15,
       <2>16, <2>17 DEF StepOf
<1>5. QED
  BY <1>2, <1>3, <1>4, StepIsOfOne

\* A step of one request leaves what the others know alone.
LEMMA OthersStay ==
  ASSUME TypeOK, NEW r \in Requests, StepOf(r), NEW q \in Requests, q # r
  PROVE  /\ pc'[q] = pc[q] /\ startedAt'[q] = startedAt[q] /\ rec'[q] = rec[q]
         /\ readAt'[q] = readAt[q] /\ scan'[q] = scan[q] /\ status'[q] = status[q]
<1> USE DEF Goes, requestVars, TypeOK
<1>1. CASE Begin(r) \/ Create(r) \/ CountInFlight(r) \/ CountStarted(r)
  BY <1>1 DEF Begin, Create, CountInFlight, CountStarted
<1>2. CASE Look(r) \/ AddFast(r) \/ LockBucket(r)
  BY <1>2 DEF Look, AddFast, LockBucket
<1>3. CASE Rotate(r)
  BY <1>3 DEF Rotate
<1>4. CASE Reset(r) \/ AddSlow(r) \/ ReadClock(r)
  BY <1>4 DEF Reset, AddSlow, ReadClock
<1>5. CASE Scan(r) \/ Load(r)
  BY <1>5 DEF Scan, Load
<1>6. CASE FinishInFlight(r) \/ FinishCount(r)
  BY <1>6 DEF FinishInFlight, FinishCount
<1>7. QED
  BY <1>1, <1>2, <1>3, <1>4, <1>5, <1>6 DEF StepOf

\* A request that has its record keeps it, and the second it came in; the record of the
\* service is created once.
LEMMA RecordStays ==
  ASSUME TypeOK, NEW r \in Requests, StepOf(r), Located(r)
  PROVE  /\ startedAt' = startedAt /\ rec' = rec /\ current' = current
         /\ pc'[r] \notin {"new", "create"}
<1> USE DEF Goes, requestVars, TypeOK, Located, Starting, Reading
<1>1. CASE Begin(r) \/ Create(r) \/ CountInFlight(r) \/ CountStarted(r)
  BY <1>1 DEF Begin, Create, CountInFlight, CountStarted
<1>2. CASE Look(r) \/ AddFast(r) \/ LockBucket(r)
  BY <1>2 DEF Look, AddFast, LockBucket
<1>3. CASE Rotate(r)
  BY <1>3 DEF Rotate
<1>4. CASE Reset(r) \/ AddSlow(r) \/ ReadClock(r)
  BY <1>4 DEF Reset, AddSlow, ReadClock
<1>5. CASE Scan(r)
  BY <1>5 DEF Scan
<1>6. CASE Load(r)
  BY <1>6 DEF Load
<1>7. CASE FinishInFlight(r) \/ FinishCount(r)
  BY <1>7 DEF FinishInFlight, FinishCount
<1>8. QED
  BY <1>1, <1>2, <1>3, <1>4, <1>5, <1>6, <1>7 DEF StepOf

\* What a request that has no record yet may do.
LEMMA BeforeRecord ==
  ASSUME TypeOK, NEW r \in Requests, StepOf(r), ~Located(r)
  PROVE  Begin(r) \/ Create(r)
BY DEF StepOf, Located, Goes, CountInFlight, CountStarted, Look, AddFast, LockBucket, Rotate, Reset,
       AddSlow, ReadClock, Scan, Load, FinishInFlight, FinishCount

\* A request works on the record that is registered for the service.
LEMMA RecordStep == IInv /\ [Next]_vars => RecordInv'
<1> SUFFICES ASSUME IInv, [Next]_vars, NEW q \in Requests, Located(q)'
             PROVE  current' \in Requests /\ rec'[q] = current'
  BY DEF RecordInv
<1>1. TypeOK /\ RecordInv
  BY DEF IInv
<1>2. CASE UNCHANGED vars \/ Tick
  BY <1>1, <1>2 DEF vars, Tick, requestVars, RecordInv, Located
<1>3. ASSUME NEW r \in Requests, StepOf(r)
      PROVE  current' \in Requests /\ rec'[q] = current'
  <2>1. CASE Located(r)
    <3>1. startedAt' = startedAt /\ rec' = rec /\ current' = current
      BY <1>1, <1>3, <2>1, RecordStays
    <3>2. Located(q)
      BY <1>1, <1>3, <2>1, OthersStay DEF Located
    <3>3. QED
      BY <1>1, <3>1, <3>2 DEF RecordInv
  <2>2. CASE ~Located(r) /\ Begin(r)
    BY <1>1, <2>2 DEF Begin, RecordInv, Located, TypeOK
  <2>3. CASE ~Located(r) /\ Create(r)
    <3>1. current' \in Requests /\ (current # None => current' = current)
      BY <1>1, <2>3 DEF Create, TypeOK
    <3>2. CASE q = r
      BY <1>1, <2>3, <3>1, <3>2 DEF Create, TypeOK
    <3>3. CASE q # r
      <4>1. Located(q) /\ rec'[q] = rec[q]
        BY <1>1, <1>3, <3>3, OthersStay DEF Located
      <4>2. current \in Requests /\ rec[q] = current
        BY <1>1, <4>1 DEF RecordInv
      <4>3. QED
        BY <3>1, <4>1, <4>2, RequestsFinite
    <3>4. QED
      BY <3>2, <3>3
  <2>4. QED
    BY <1>1, <1>3, <2>1, <2>2, <2>3, BeforeRecord
<1>4. QED
  BY <1>2, <1>3, StepIsOfOne

\* A request that a step leaves in Start or StatusFor was there before, unless it begins.
LEMMA ActiveStays ==
  ASSUME TypeOK, NEW r \in Requests, StepOf(r)
  PROVE  /\ now' = now
         /\ \/ Begin(r)
            \/ startedAt' = startedAt /\ Active(r)
            \/ ~Active(r)'
<1> USE DEF Goes, requestVars, TypeOK, Starting, Reading, Active
<1>1. CASE Begin(r) \/ Create(r) \/ CountInFlight(r) \/ CountStarted(r)
  BY <1>1 DEF Begin, Create, CountInFlight, CountStarted
<1>2. CASE Look(r) \/ AddFast(r) \/ LockBucket(r)
  BY <1>2 DEF Look, AddFast, LockBucket
<1>3. CASE Rotate(r)
  BY <1>3 DEF Rotate
<1>4. CASE Reset(r) \/ AddSlow(r) \/ ReadClock(r)
  BY <1>4 DEF Reset, AddSlow, ReadClock
<1>5. CASE Scan(r) \/ Load(r)
  BY <1>5 DEF Scan, Load
<1>6. CASE FinishInFlight(r) \/ FinishCount(r)
  BY <1>6 DEF FinishInFlight, FinishCount
<1>7. QED
  BY <1>1, <1>2, <1>3, <1>4, <1>5, <1>6 DEF StepOf

\* A request under way has a second the window still covers.
LEMMA TimeStep == IInv /\ [Next]_vars => TimeInv'
<1> SUFFICES ASSUME IInv, [Next]_vars, NEW q \in Requests, Active(q)'
             PROVE  startedAt'[q] <= now' /\ now' - startedAt'[q] < BucketCount
  BY DEF TimeInv
<1>1. TypeOK /\ TimeInv /\ BucketCount \in Nat \ {0} /\ now \in Nat /\ startedAt[q] \in Nat
  BY WindowIsPositive DEF IInv, TypeOK
<1>2. CASE UNCHANGED vars
  BY <1>1, <1>2 DEF vars, TimeInv, Active
<1>3. CASE Tick
  BY <1>1, <1>3 DEF Tick, requestVars, TimeInv, Active
<1>4. ASSUME NEW r \in Requests, StepOf(r)
      PROVE  startedAt'[q] <= now' /\ now' - startedAt'[q] < BucketCount
  <2>1. CASE q # r
    <3>1. Active(q) /\ startedAt'[q] = startedAt[q] /\ now' = now
      BY <1>1, <1>4, <2>1, OthersStay, ActiveStays DEF Active
    <3>2. QED
      BY <1>1, <3>1 DEF TimeInv
  <2>2. CASE q = r /\ Begin(r)
    BY <1>1, <2>2 DEF Begin, TypeOK
  <2>3. CASE q = r /\ ~Begin(r)
    <3>1. Active(q) /\ startedAt'[q] = startedAt[q] /\ now' = now
      BY <1>1, <1>4, <2>3, ActiveStays
    <3>2. QED
      BY <1>1, <3>1 DEF TimeInv
  <2>4. QED
    BY <2>1, <2>2, <2>3
<1>5. QED
  BY <1>2, <1>3, <1>4, StepIsOfOne

\* A request that has its record stays with it and with its bucket, whoever makes the step.
LEMMA BucketStays ==
  ASSUME TypeOK, NEW r \in Requests, StepOf(r), NEW q \in Requests, Located(q)
  PROVE  /\ rec'[q] = rec[q] /\ startedAt'[q] = startedAt[q]
         /\ bucketOf(q)' = bucketOf(q)
         /\ Located(q)'
<1>1. rec'[q] = rec[q] /\ startedAt'[q] = startedAt[q] /\ pc'[q] \notin {"new", "create"}
  BY OthersStay, RecordStays DEF Located
<1>2. QED
  BY <1>1 DEF bucketOf, Located

\* Which steps write which variable of the buckets.
LEMMA BucketWrites ==
  ASSUME TypeOK, NEW r \in Requests, StepOf(r)
  PROVE  /\ bucketMu' = bucketMu \/ LockBucket(r) \/ AddSlow(r)
         /\ second' = second \/ (Rotate(r) /\ second[rec[r]][bucketOf(r)] # startedAt[r])
         /\ requests' = requests \/ AddFast(r) \/ AddSlow(r) \/ Reset(r)
<1> USE DEF bucketVars
<1>1. CASE Begin(r) \/ Create(r) \/ CountInFlight(r) \/ CountStarted(r)
  BY <1>1 DEF Begin, Create, CountInFlight, CountStarted
<1>2. CASE Look(r) \/ AddFast(r) \/ LockBucket(r)
  BY <1>2 DEF Look, AddFast, LockBucket
<1>3. CASE Rotate(r)
  BY <1>3 DEF Rotate
<1>4. CASE Reset(r) \/ AddSlow(r) \/ ReadClock(r)
  BY <1>4 DEF Reset, AddSlow, ReadClock
<1>5. CASE Scan(r) \/ Load(r)
  BY <1>5 DEF Scan, Load
<1>6. CASE FinishInFlight(r) \/ FinishCount(r)
  BY <1>6 DEF FinishInFlight, FinishCount
<1>7. QED
  BY <1>1, <1>2, <1>3, <1>4, <1>5, <1>6 DEF StepOf

\* Where a request comes from that has locked its bucket.
LEMMA IntoRotation ==
  ASSUME TypeOK, NEW r \in Requests, StepOf(r), pc'[r] \in {"rotate", "reset", "slow"}
  PROVE  \/ LockBucket(r) /\ pc'[r] = "rotate"
         \/ /\ Rotate(r) /\ second[rec[r]][bucketOf(r)] # startedAt[r] /\ pc'[r] = "reset"
         \/ /\ Rotate(r) /\ second[rec[r]][bucketOf(r)] = startedAt[r] /\ pc'[r] = "slow"
         \/ Reset(r) /\ pc'[r] = "slow"
<1> USE DEF Goes, TypeOK, Reading
<1>1. CASE Begin(r) \/ Create(r) \/ CountInFlight(r) \/ CountStarted(r)
  BY <1>1 DEF Begin, Create, CountInFlight, CountStarted
<1>2. CASE Look(r) \/ AddFast(r) \/ LockBucket(r)
  BY <1>2 DEF Look, AddFast, LockBucket
<1>3. CASE Rotate(r)
  BY <1>3 DEF Rotate
<1>4. CASE Reset(r) \/ AddSlow(r) \/ ReadClock(r)
  BY <1>4 DEF Reset, AddSlow, ReadClock
<1>5. CASE Scan(r) \/ Load(r)
  BY <1>5 DEF Scan, Load
<1>6. CASE FinishInFlight(r) \/ FinishCount(r)
  BY <1>6 DEF FinishInFlight, FinishCount
<1>7. QED
  BY <1>1, <1>2, <1>3, <1>4, <1>5, <1>6 DEF StepOf

\* A bucket that is locked is left alone by every request but the one that has locked it.
LEMMA LockStep == IInv /\ [Next]_vars => LockInv'
<1> SUFFICES ASSUME IInv, [Next]_vars, NEW q \in Requests, pc'[q] \in {"rotate", "reset", "slow"}
             PROVE  bucketMu'[rec'[q]][bucketOf(q)'] = q
  BY DEF LockInv
<1>1. TypeOK /\ LockInv /\ RecordInv
  BY DEF IInv
<1>2. CASE UNCHANGED vars \/ Tick
  BY <1>1, <1>2 DEF vars, Tick, requestVars, bucketVars, LockInv, bucketOf
<1>3. ASSUME NEW r \in Requests, StepOf(r)
      PROVE  bucketMu'[rec'[q]][bucketOf(q)'] = q
  <2>1. pc[q] \in {"lock", "rotate", "reset", "slow"} /\ (q # r => pc[q] # "lock")
    <3>1. CASE q = r
      BY <1>1, <1>3, <3>1, IntoRotation DEF LockBucket, Rotate, Reset, Goes
    <3>2. CASE q # r
      BY <1>1, <1>3, <3>2, OthersStay
    <3>3. QED
      BY <3>1, <3>2
  <2>2. Located(q)
    BY <2>1 DEF Located
  <2>3. rec'[q] = rec[q] /\ bucketOf(q)' = bucketOf(q) /\ rec[q] \in Requests /\ bucketOf(q) \in Buckets
    BY <1>1, <1>3, <2>2, BucketStays, BucketTypes DEF RecordInv
  <2>4. bucketMu \in [Requests -> [Buckets -> Requests \cup {None}]] /\ bucketMu[rec[q]] \in [Buckets -> Requests \cup {None}]
    BY <1>1, <2>3 DEF TypeOK
  <2>5. CASE LockBucket(r)
    <3>1. CASE q = r
      BY <2>3, <2>4, <2>5, <3>1 DEF LockBucket
    <3>2. CASE q # r
      <4>1. bucketMu[rec[q]][bucketOf(q)] = q /\ q # None
        BY <1>1, <2>1, <3>2, RequestsFinite DEF LockInv
      <4>2. bucketMu[rec[r]][bucketOf(r)] = None
            /\ bucketMu' = [bucketMu EXCEPT ![rec[r]][bucketOf(r)] = r]
        BY <2>5 DEF LockBucket
      <4>3. QED
        BY <2>3, <2>4, <4>1, <4>2
    <3>3. QED
      BY <3>1, <3>2
  <2>6. CASE AddSlow(r)
    <3>1. pc'[r] = "read" /\ pc[r] = "slow"
          /\ bucketMu' = [bucketMu EXCEPT ![rec[r]][bucketOf(r)] = None]
      BY <1>1, <2>6 DEF AddSlow, Goes, TypeOK
    <3>2. q # r /\ bucketMu[rec[r]][bucketOf(r)] = r
      BY <1>1, <3>1 DEF LockInv
    <3>3. bucketMu[rec[q]][bucketOf(q)] = q
      BY <1>1, <2>1, <3>2 DEF LockInv
    <3>4. QED
      BY <2>3, <2>4, <3>1, <3>2, <3>3
  <2>7. CASE ~LockBucket(r) /\ bucketMu' = bucketMu
    <3>1. pc[q] # "lock"
      <4>1. CASE q = r
        BY <1>1, <1>3, <2>7, <4>1, IntoRotation DEF Rotate, Reset, Goes
      <4>2. QED
        BY <2>1, <4>1
    <3>2. QED
      BY <1>1, <2>1, <2>3, <2>7, <3>1 DEF LockInv
  <2>8. QED
    BY <1>1, <1>3, <2>5, <2>6, <2>7, BucketWrites
<1>4. QED
  BY <1>2, <1>3, StepIsOfOne

\* Where a request comes from whose bucket is of its second.
LEMMA IntoSecond ==
  ASSUME TypeOK, NEW r \in Requests, StepOf(r),
         pc'[r] \in {"fast", "reset", "slow", "read"} \cup Reading
  PROVE  \/ pc[r] \in {"fast", "reset", "slow", "read"} \cup Reading
         \/ Look(r) /\ second[rec[r]][bucketOf(r)] = startedAt[r]
         \/ Rotate(r)
<1> USE DEF Goes, TypeOK, Reading
<1>1. CASE Begin(r) \/ Create(r) \/ CountInFlight(r) \/ CountStarted(r)
  BY <1>1 DEF Begin, Create, CountInFlight, CountStarted
<1>2. CASE Look(r) \/ AddFast(r) \/ LockBucket(r)
  BY <1>2 DEF Look, AddFast, LockBucket
<1>3. CASE Rotate(r)
  BY <1>3
<1>4. CASE Reset(r) \/ AddSlow(r) \/ ReadClock(r)
  BY <1>4 DEF Reset, AddSlow, ReadClock
<1>5. CASE Scan(r) \/ Load(r)
  BY <1>5 DEF Scan, Load
<1>6. CASE FinishInFlight(r) \/ FinishCount(r)
  BY <1>6 DEF FinishInFlight, FinishCount
<1>7. QED
  BY <1>1, <1>2, <1>3, <1>4, <1>5, <1>6 DEF StepOf

\* A bucket in use is not rotated away: whoever shares it within the window came in its second.
LEMMA SecondStep == IInv /\ [Next]_vars => SecondInv'
<1> SUFFICES ASSUME IInv, [Next]_vars, NEW q \in Requests,
                    pc'[q] \in {"fast", "reset", "slow", "read"} \cup Reading
             PROVE  second'[rec'[q]][bucketOf(q)'] = startedAt'[q]
  BY DEF SecondInv
<1>1. TypeOK /\ TimeInv /\ SecondInv /\ RecordInv
  BY DEF IInv
<1>2. CASE UNCHANGED vars \/ Tick
  BY <1>1, <1>2 DEF vars, Tick, requestVars, bucketVars, SecondInv, bucketOf
<1>3. ASSUME NEW r \in Requests, StepOf(r)
      PROVE  second'[rec'[q]][bucketOf(q)'] = startedAt'[q]
  <2>1. Active(q) /\ Located(q)
    <3>1. CASE q = r
      BY <1>1, <1>3, <3>1, IntoSecond DEF Look, Rotate, Goes, Active, Located, Starting, Reading
    <3>2. CASE q # r
      BY <1>1, <1>3, <3>2, OthersStay DEF Active, Located, Starting, Reading
    <3>3. QED
      BY <3>1, <3>2
  <2>2. /\ rec'[q] = rec[q] /\ bucketOf(q)' = bucketOf(q) /\ startedAt'[q] = startedAt[q]
        /\ rec[q] \in Requests /\ bucketOf(q) \in Buckets
    BY <1>1, <1>3, <2>1, BucketStays, BucketTypes DEF RecordInv
  <2>3. second \in [Requests -> [Buckets -> Nat]] /\ second[rec[q]] \in [Buckets -> Nat]
    BY <1>1, <2>2 DEF TypeOK
  <2>4. CASE Rotate(r) /\ second[rec[r]][bucketOf(r)] # startedAt[r]
    <3>1. second' = [second EXCEPT ![rec[r]][bucketOf(r)] = startedAt[r]] /\ pc[r] = "rotate"
      BY <2>4 DEF Rotate
    <3>2. rec[r] \in Requests /\ rec[r] = rec[q] /\ bucketOf(r) \in Buckets /\ Active(r)
      BY <1>1, <2>1, <3>1, BucketTypes DEF RecordInv, Located, Active, Starting
    <3>3. CASE bucketOf(r) = bucketOf(q)
      <4>1. startedAt[r] = startedAt[q]
        BY <1>1, <2>1, <3>2, <3>3, SharedBucket
      <4>2. QED
        BY <2>2, <2>3, <3>1, <3>2, <3>3, <4>1
    <3>4. CASE bucketOf(r) # bucketOf(q)
      <4>1. q # r /\ pc[q] = pc'[q]
        BY <1>1, <1>3, <3>4, OthersStay
      <4>2. second[rec[q]][bucketOf(q)] = startedAt[q]
        BY <1>1, <4>1 DEF SecondInv
      <4>3. QED
        BY <2>2, <2>3, <3>1, <3>2, <3>4, <4>2
    <3>5. QED
      BY <3>3, <3>4
  <2>5. CASE second' = second
    <3>1. second[rec[q]][bucketOf(q)] = startedAt[q]
      <4>1. CASE q # r
        BY <1>1, <1>3, <4>1, OthersStay DEF SecondInv
      <4>2. CASE q = r /\ pc[q] \in {"fast", "reset", "slow", "read"} \cup Reading
        BY <1>1, <4>2 DEF SecondInv
      <4>3. CASE q = r /\ Rotate(r)
        <5>1. second[rec[r]][bucketOf(r)] # startedAt[r] => second'[rec[r]][bucketOf(r)] = startedAt[r]
          BY <2>2, <2>3, <4>3 DEF Rotate
        <5>2. QED
          BY <2>5, <4>3, <5>1
      <4>4. QED
        BY <1>1, <1>3, <4>1, <4>2, <4>3, IntoSecond
    <3>2. QED
      BY <2>2, <2>5, <3>1
  <2>6. QED
    BY <1>1, <1>3, <2>4, <2>5, BucketWrites
<1>4. QED
  BY <1>2, <1>3, StepIsOfOne

\* Where a request comes from that reads the status.
LEMMA IntoReading ==
  ASSUME TypeOK, NEW r \in Requests, StepOf(r), pc'[r] \in {"read"} \cup Reading
  PROVE  pc[r] \in {"read"} \cup Reading \/ AddFast(r) \/ AddSlow(r)
<1> USE DEF Goes, TypeOK, Reading
<1>1. CASE Begin(r) \/ Create(r) \/ CountInFlight(r) \/ CountStarted(r)
  BY <1>1 DEF Begin, Create, CountInFlight, CountStarted
<1>2. CASE Look(r) \/ AddFast(r) \/ LockBucket(r)
  BY <1>2 DEF Look, LockBucket
<1>3. CASE Rotate(r)
  BY <1>3 DEF Rotate
<1>4. CASE Reset(r) \/ AddSlow(r) \/ ReadClock(r)
  BY <1>4 DEF Reset, ReadClock
<1>5. CASE Scan(r) \/ Load(r)
  BY <1>5 DEF Scan, Load
<1>6. CASE FinishInFlight(r) \/ FinishCount(r)
  BY <1>6 DEF FinishInFlight, FinishCount
<1>7. QED
  BY <1>1, <1>2, <1>3, <1>4, <1>5, <1>6 DEF StepOf

\* A bucket in which a request has counted itself is emptied only while it is locked, and
\* unlocked only by a request that counts itself there.
LEMMA CountedStep == IInv /\ [Next]_vars => CountedInv'
<1> SUFFICES ASSUME IInv, [Next]_vars, NEW q \in Requests, pc'[q] \in {"read"} \cup Reading,
                    bucketMu'[rec'[q]][bucketOf(q)'] = None
             PROVE  requests'[rec'[q]][bucketOf(q)'] > 0
  BY DEF CountedInv
<1>1. TypeOK /\ LockInv /\ CountedInv /\ RecordInv
  BY DEF IInv
<1>2. CASE UNCHANGED vars \/ Tick
  BY <1>1, <1>2 DEF vars, Tick, requestVars, bucketVars, CountedInv, bucketOf
<1>3. ASSUME NEW r \in Requests, StepOf(r)
      PROVE  requests'[rec'[q]][bucketOf(q)'] > 0
  <2> DEFINE o == rec[q]
             b == bucketOf(q)
  <2>1. pc[q] \in {"read"} \cup Reading \/ (q = r /\ (AddFast(r) \/ AddSlow(r)))
    BY <1>1, <1>3, IntoReading, OthersStay
  <2>2. Located(q)
    BY <2>1 DEF Located, Reading, AddFast, AddSlow, Goes
  <2>3. rec'[q] = o /\ bucketOf(q)' = b /\ o \in Requests /\ b \in Buckets
    BY <1>1, <1>3, <2>2, BucketStays, BucketTypes DEF RecordInv
  <2>4. /\ bucketMu[o] \in [Buckets -> Requests \cup {None}] /\ requests[o] \in [Buckets -> Nat]
        /\ bucketMu \in [Requests -> [Buckets -> Requests \cup {None}]]
        /\ requests \in [Requests -> [Buckets -> Nat]]
    BY <1>1, <2>3 DEF TypeOK
  <2>5. requests[o][b] \in Nat
    BY <2>3, <2>4
  <2> HIDE DEF o, b
  <2>6. CASE AddFast(r) \/ AddSlow(r)
    <3>1. requests' = [requests EXCEPT ![rec[r]][bucketOf(r)] = @ + 1]
      BY <2>6 DEF AddFast, AddSlow
    <3>2. CASE rec[r] = o /\ bucketOf(r) = b
      BY <2>3, <2>4, <2>5, <3>1, <3>2
    <3>3. CASE ~(rec[r] = o /\ bucketOf(r) = b)
      <4>1. requests'[o][b] = requests[o][b]
        BY <2>3, <2>4, <3>1, <3>3
      <4>2. q # r /\ pc[q] \in {"read"} \cup Reading
        BY <2>1, <3>3 DEF o, b
      <4>3. bucketMu'[o][b] = bucketMu[o][b]
        BY <2>3, <2>4, <2>6, <3>3 DEF AddFast, AddSlow
      <4>4. QED
        BY <1>1, <2>3, <4>1, <4>2, <4>3 DEF CountedInv, o, b
    <3>4. QED
      BY <3>2, <3>3
  <2>7. CASE ~(AddFast(r) \/ AddSlow(r))
    <3>1. pc[q] \in {"read"} \cup Reading /\ (bucketMu' = bucketMu \/ LockBucket(r))
      BY <1>1, <1>3, <2>1, <2>7, BucketWrites
    <3>2. bucketMu[o][b] = None
      <4>1. CASE LockBucket(r)
        <5>1. /\ bucketMu[rec[r]][bucketOf(r)] = None
              /\ bucketMu' = [bucketMu EXCEPT ![rec[r]][bucketOf(r)] = r]
          BY <4>1 DEF LockBucket
        <5>2. QED
          BY <2>3, <2>4, <5>1
      <4>2. CASE bucketMu' = bucketMu
        BY <2>3, <4>2
      <4>3. QED
        BY <3>1, <4>1, <4>2
    <3>3. requests[o][b] > 0
      BY <1>1, <3>1, <3>2 DEF CountedInv, o, b
    <3>4. CASE Reset(r)
      <4>1. pc[r] = "reset" /\ requests' = [requests EXCEPT ![rec[r]][bucketOf(r)] = 0]
        BY <3>4 DEF Reset, Goes
      <4>2. bucketMu[rec[r]][bucketOf(r)] = r /\ r # None
        BY <1>1, <4>1, RequestsFinite DEF LockInv
      <4>3. requests'[o][b] = requests[o][b]
        BY <2>3, <2>4, <3>2, <4>1, <4>2
      <4>4. QED
        BY <2>3, <3>3, <4>3
    <3>5. CASE requests' = requests
      BY <2>3, <3>3, <3>5
    <3>6. QED
      BY <1>1, <1>3, <2>7, <3>4, <3>5, BucketWrites
  <2>8. QED
    BY <2>6, <2>7
<1>4. QED
  BY <1>2, <1>3, StepIsOfOne

\* Which steps write which counter.
LEMMA CounterWrites ==
  ASSUME TypeOK, NEW r \in Requests, StepOf(r)
  PROVE  /\ inFlight' = inFlight \/ CountInFlight(r) \/ FinishInFlight(r)
         /\ started' = started \/ CountStarted(r)
         /\ finished' = finished \/ FinishCount(r)
<1> USE DEF counterVars
<1>1. CASE Begin(r) \/ Create(r) \/ CountInFlight(r) \/ CountStarted(r)
  BY <1>1 DEF Begin, Create, CountInFlight, CountStarted
<1>2. CASE Look(r) \/ AddFast(r) \/ LockBucket(r)
  BY <1>2 DEF Look, AddFast, LockBucket
<1>3. CASE Rotate(r)
  BY <1>3 DEF Rotate
<1>4. CASE Reset(r) \/ AddSlow(r) \/ ReadClock(r)
  BY <1>4 DEF Reset, AddSlow, ReadClock
<1>5. CASE Scan(r) \/ Load(r)
  BY <1>5 DEF Scan, Load
<1>6. CASE FinishInFlight(r) \/ FinishCount(r)
  BY <1>6 DEF FinishInFlight, FinishCount
<1>7. QED
  BY <1>1, <1>2, <1>3, <1>4, <1>5, <1>6 DEF StepOf

\* What a step does to where its request stands between the counts.
LEMMA CountMoves ==
  ASSUME TypeOK, NEW r \in Requests, StepOf(r)
  PROVE  /\ (InFlight(r)' <=> InFlight(r)) \/ CountInFlight(r) \/ FinishInFlight(r)
         /\ (pc'[r] \notin {"new", "create", "inFlight", "started"}
               <=> pc[r] \notin {"new", "create", "inFlight", "started"}) \/ CountStarted(r)
         /\ (pc'[r] = "done" <=> pc[r] = "done") \/ FinishCount(r)
         /\ (Counted(r)' <=> Counted(r)) \/ AddFast(r) \/ AddSlow(r)
         /\ (pc'[r] = "reset" <=> pc[r] = "reset") \/ Rotate(r) \/ Reset(r)
<1> USE DEF Goes, TypeOK, Reading, InFlight, Counted
<1>1. CASE Begin(r) \/ Create(r)
  BY <1>1 DEF Begin, Create
<1>2. CASE CountInFlight(r) \/ CountStarted(r)
  BY <1>2 DEF CountInFlight, CountStarted
<1>3. CASE Look(r)
  BY <1>3 DEF Look
<1>4. CASE AddFast(r) \/ LockBucket(r)
  BY <1>4 DEF AddFast, LockBucket
<1>5. CASE Rotate(r)
  BY <1>5 DEF Rotate
<1>6. CASE Reset(r) \/ AddSlow(r) \/ ReadClock(r)
  BY <1>6 DEF Reset, AddSlow, ReadClock
<1>7. CASE Scan(r)
  BY <1>7 DEF Scan
<1>8. CASE Load(r)
  BY <1>8 DEF Load
<1>9. CASE FinishInFlight(r) \/ FinishCount(r)
  BY <1>9 DEF FinishInFlight, FinishCount
<1>10. QED
  BY <1>1, <1>2, <1>3, <1>4, <1>5, <1>6, <1>7, <1>8, <1>9 DEF StepOf

\* Who is counted and is not the one that makes the step stays so, with the same record.
LEMMA OthersCount ==
  ASSUME TypeOK, NEW r \in Requests, StepOf(r), NEW q \in Requests, q # r, NEW o \in Requests
  PROVE  /\ q \in InFlightIn(o)' <=> q \in InFlightIn(o)
         /\ q \in StartedIn(o)' <=> q \in StartedIn(o)
         /\ q \in FinishedIn(o)' <=> q \in FinishedIn(o)
BY OthersStay DEF InFlightIn, StartedIn, FinishedIn, InFlight, Located

\* Every counter of every record counts exactly the requests that have passed it.
LEMMA CounterStep == IInv /\ [Next]_vars => CounterInv'
<1> SUFFICES ASSUME IInv, [Next]_vars, NEW o \in Requests
             PROVE  /\ inFlight'[o] = Cardinality(InFlightIn(o)')
                    /\ started'[o] = Cardinality(StartedIn(o)')
                    /\ finished'[o] = Cardinality(FinishedIn(o)')
  BY DEF CounterInv
<1>1. TypeOK /\ RecordInv /\ CounterInv
  BY DEF IInv
<1>2. /\ inFlight[o] = Cardinality(InFlightIn(o))
      /\ started[o] = Cardinality(StartedIn(o))
      /\ finished[o] = Cardinality(FinishedIn(o))
  BY <1>1 DEF CounterInv
<1>3. /\ InFlightIn(o) \in SUBSET Requests /\ InFlightIn(o)' \in SUBSET Requests
      /\ StartedIn(o) \in SUBSET Requests /\ StartedIn(o)' \in SUBSET Requests
      /\ FinishedIn(o) \in SUBSET Requests /\ FinishedIn(o)' \in SUBSET Requests
  BY DEF InFlightIn, StartedIn, FinishedIn
<1>4. CASE UNCHANGED vars \/ Tick
  BY <1>2, <1>4 DEF vars, Tick, requestVars, counterVars, InFlightIn, StartedIn, FinishedIn, InFlight,
       Located
<1>5. ASSUME NEW r \in Requests, StepOf(r)
      PROVE  /\ inFlight'[o] = Cardinality(InFlightIn(o)')
             /\ started'[o] = Cardinality(StartedIn(o)')
             /\ finished'[o] = Cardinality(FinishedIn(o)')
  <2>1. \A q \in Requests \ {r} : /\ q \in InFlightIn(o)' <=> q \in InFlightIn(o)
                                  /\ q \in StartedIn(o)' <=> q \in StartedIn(o)
                                  /\ q \in FinishedIn(o)' <=> q \in FinishedIn(o)
    BY <1>1, <1>5, OthersCount
  <2>2. Located(r) => rec'[r] = rec[r] /\ rec[r] \in Requests
    BY <1>1, <1>5, RecordStays DEF RecordInv
  <2>3. inFlight'[o] = Cardinality(InFlightIn(o)')
    <3>1. CASE CountInFlight(r)
      <4>1. /\ pc[r] = "inFlight" /\ pc'[r] = "started"
            /\ inFlight' = [inFlight EXCEPT ![rec[r]] = @ + 1]
        BY <1>1, <3>1 DEF CountInFlight, Goes, TypeOK
      <4>2. Located(r) /\ ~InFlight(r) /\ InFlight(r)'
        BY <4>1 DEF Located, InFlight, Reading
      <4>3. CASE o = rec[r]
        <5>1. r \notin InFlightIn(o) /\ r \in InFlightIn(o)'
          BY <2>2, <4>2, <4>3 DEF InFlightIn
        <5>2. Cardinality(InFlightIn(o)') = Cardinality(InFlightIn(o)) + 1
          BY <1>3, <2>1, <5>1, PartGains
        <5>3. QED
          BY <1>1, <1>2, <4>1, <4>3, <5>2 DEF TypeOK
      <4>4. CASE o # rec[r]
        <5>1. InFlightIn(o)' = InFlightIn(o)
          BY <1>3, <2>1, <2>2, <4>2, <4>4 DEF InFlightIn
        <5>2. QED
          BY <1>1, <1>2, <4>1, <4>4, <5>1 DEF TypeOK
      <4>5. QED
        BY <4>3, <4>4
    <3>2. CASE FinishInFlight(r)
      <4>1. /\ pc[r] = "forward" /\ pc'[r] = "finish"
            /\ inFlight' = [inFlight EXCEPT ![rec[r]] = @ - 1]
        BY <1>1, <3>2 DEF FinishInFlight, Goes, TypeOK
      <4>2. Located(r) /\ InFlight(r) /\ ~InFlight(r)'
        BY <4>1 DEF Located, InFlight, Reading
      <4>3. CASE o = rec[r]
        <5>1. r \in InFlightIn(o) /\ r \notin InFlightIn(o)'
          BY <2>2, <4>2, <4>3 DEF InFlightIn
        <5>2. \A q \in Requests : q \in InFlightIn(o) <=> (q \in InFlightIn(o)' \/ q = r)
          BY <2>1, <5>1
        <5>3. Cardinality(InFlightIn(o)) = Cardinality(InFlightIn(o)') + 1
          BY <1>3, <5>1, <5>2, PartGains
        <5>4. Cardinality(InFlightIn(o)') \in Nat
          BY <1>3, PartsAreFinite
        <5>5. QED
          BY <1>1, <1>2, <4>1, <4>3, <5>3, <5>4 DEF TypeOK
      <4>4. CASE o # rec[r]
        <5>1. InFlightIn(o)' = InFlightIn(o)
          BY <1>3, <2>1, <2>2, <4>2, <4>4 DEF InFlightIn
        <5>2. QED
          BY <1>1, <1>2, <4>1, <4>4, <5>1 DEF TypeOK
      <4>5. QED
        BY <4>3, <4>4
    <3>3. CASE ~CountInFlight(r) /\ ~FinishInFlight(r)
      <4>1. inFlight' = inFlight /\ (InFlight(r)' <=> InFlight(r))
        BY <1>1, <1>5, <3>3, CounterWrites, CountMoves
      <4>2. InFlight(r) => Located(r)
        BY DEF InFlight, Located, Reading
      <4>3. r \in InFlightIn(o)' <=> r \in InFlightIn(o)
        BY <2>2, <4>1, <4>2 DEF InFlightIn
      <4>4. InFlightIn(o)' = InFlightIn(o)
        BY <1>3, <2>1, <4>3
      <4>5. QED
        BY <1>2, <4>1, <4>4
    <3>4. QED
      BY <3>1, <3>2, <3>3
  <2>4. started'[o] = Cardinality(StartedIn(o)')
    <3>1. CASE CountStarted(r)
      <4>1. /\ pc[r] = "started" /\ pc'[r] = "look"
            /\ started' = [started EXCEPT ![rec[r]] = @ + 1]
        BY <1>1, <3>1 DEF CountStarted, Goes, TypeOK
      <4>2. Located(r)
        BY <4>1 DEF Located
      <4>3. CASE o = rec[r]
        <5>1. r \notin StartedIn(o) /\ r \in StartedIn(o)'
          BY <2>2, <4>1, <4>2, <4>3 DEF StartedIn, Located
        <5>2. Cardinality(StartedIn(o)') = Cardinality(StartedIn(o)) + 1
          BY <1>3, <2>1, <5>1, PartGains
        <5>3. QED
          BY <1>1, <1>2, <4>1, <4>3, <5>2 DEF TypeOK
      <4>4. CASE o # rec[r]
        <5>1. StartedIn(o)' = StartedIn(o)
          BY <1>3, <2>1, <2>2, <4>2, <4>4 DEF StartedIn
        <5>2. QED
          BY <1>1, <1>2, <4>1, <4>4, <5>1 DEF TypeOK
      <4>5. QED
        BY <4>3, <4>4
    <3>2. CASE ~CountStarted(r)
      <4>1. started' = started
            /\ (pc'[r] \notin {"new", "create", "inFlight", "started"}
                  <=> pc[r] \notin {"new", "create", "inFlight", "started"})
        BY <1>1, <1>5, <3>2, CounterWrites, CountMoves
      <4>2. r \in StartedIn(o)' <=> r \in StartedIn(o)
        BY <2>2, <4>1 DEF StartedIn, Located
      <4>3. StartedIn(o)' = StartedIn(o)
        BY <1>3, <2>1, <4>2
      <4>4. QED
        BY <1>2, <4>1, <4>3
    <3>3. QED
      BY <3>1, <3>2
  <2>5. finished'[o] = Cardinality(FinishedIn(o)')
    <3>1. CASE FinishCount(r)
      <4>1. /\ pc[r] = "finish" /\ pc'[r] = "done"
            /\ finished' = [finished EXCEPT ![rec[r]] = @ + 1]
        BY <1>1, <3>1 DEF FinishCount, Goes, TypeOK
      <4>2. Located(r)
        BY <4>1 DEF Located
      <4>3. CASE o = rec[r]
        <5>1. r \notin FinishedIn(o) /\ r \in FinishedIn(o)'
          BY <2>2, <4>1, <4>2, <4>3 DEF FinishedIn
        <5>2. Cardinality(FinishedIn(o)') = Cardinality(FinishedIn(o)) + 1
          BY <1>3, <2>1, <5>1, PartGains
        <5>3. QED
          BY <1>1, <1>2, <4>1, <4>3, <5>2 DEF TypeOK
      <4>4. CASE o # rec[r]
        <5>1. FinishedIn(o)' = FinishedIn(o)
          BY <1>3, <2>1, <2>2, <4>2, <4>4 DEF FinishedIn
        <5>2. QED
          BY <1>1, <1>2, <4>1, <4>4, <5>1 DEF TypeOK
      <4>5. QED
        BY <4>3, <4>4
    <3>2. CASE ~FinishCount(r)
      <4>1. finished' = finished /\ (pc'[r] = "done" <=> pc[r] = "done")
        BY <1>1, <1>5, <3>2, CounterWrites, CountMoves
      <4>2. r \in FinishedIn(o)' <=> r \in FinishedIn(o)
        BY <2>2, <4>1 DEF FinishedIn, Located
      <4>3. FinishedIn(o)' = FinishedIn(o)
        BY <1>3, <2>1, <4>2
      <4>4. QED
        BY <1>2, <4>1, <4>3
    <3>3. QED
      BY <3>1, <3>2
  <2>6. QED
    BY <2>3, <2>4, <2>5
<1>6. QED
  BY <1>4, <1>5, StepIsOfOne

\* A bucket counts no request twice, and none of another second once it has been reset.
LEMMA BucketStep == IInv /\ [Next]_vars => BucketInv'
<1> SUFFICES ASSUME IInv, [Next]_vars, NEW o \in Requests, NEW b \in Buckets, ~BeingReset(o, b)'
             PROVE  requests'[o][b] <= Cardinality(CountedIn(o, b)')
  BY DEF BucketInv, Buckets
<1>1. TypeOK /\ RecordInv /\ BucketInv /\ SecondInv
  BY DEF IInv
<1>2. /\ CountedIn(o, b) \in SUBSET Requests /\ CountedIn(o, b)' \in SUBSET Requests
      /\ Cardinality(CountedIn(o, b)) \in Nat /\ Cardinality(CountedIn(o, b)') \in Nat
  <2>1. CountedIn(o, b) \in SUBSET Requests /\ CountedIn(o, b)' \in SUBSET Requests
    BY DEF CountedIn
  <2>2. QED
    BY <2>1, PartsAreFinite
<1>3. /\ requests \in [Requests -> [Buckets -> Nat]] /\ requests[o] \in [Buckets -> Nat]
      /\ second \in [Requests -> [Buckets -> Nat]] /\ second[o] \in [Buckets -> Nat]
      /\ requests[o][b] \in Nat
  BY <1>1 DEF TypeOK
<1>4. CASE UNCHANGED vars \/ Tick
  <2>1. CountedIn(o, b)' = CountedIn(o, b) /\ requests' = requests /\ ~BeingReset(o, b)
    BY <1>4 DEF vars, Tick, requestVars, bucketVars, CountedIn, Counted, BeingReset, bucketOf
  <2>2. QED
    BY <1>1, <2>1 DEF BucketInv
<1>5. ASSUME NEW r \in Requests, StepOf(r)
      PROVE  requests'[o][b] <= Cardinality(CountedIn(o, b)')
  <2>1. Located(r) => /\ rec'[r] = rec[r] /\ startedAt'[r] = startedAt[r] /\ bucketOf(r)' = bucketOf(r)
                      /\ rec[r] \in Requests /\ bucketOf(r) \in Buckets
    BY <1>1, <1>5, BucketStays, BucketTypes DEF RecordInv
  <2>2. CASE Reset(r) /\ rec[r] = o /\ bucketOf(r) = b
    <3>1. requests'[o][b] = 0
      BY <1>3, <2>2 DEF Reset
    <3>2. QED
      BY <1>2, <3>1
  <2>3. CASE Rotate(r) /\ rec[r] = o /\ bucketOf(r) = b /\ second[o][b] # startedAt[r]
    <3>1. pc[r] = "rotate" /\ pc'[r] = "reset"
      BY <1>1, <2>3 DEF Rotate, TypeOK
    <3>2. BeingReset(o, b)'
      BY <2>1, <2>3, <3>1 DEF BeingReset, Located
    <3>3. QED
      BY <3>2
  <2>4. CASE /\ ~(Reset(r) /\ rec[r] = o /\ bucketOf(r) = b)
             /\ ~(Rotate(r) /\ rec[r] = o /\ bucketOf(r) = b /\ second[o][b] # startedAt[r])
    <3>1. second'[o][b] = second[o][b]
      <4>1. CASE second' = second
        BY <4>1
      <4>2. CASE Rotate(r) /\ second[rec[r]][bucketOf(r)] # startedAt[r]
        <5>1. second' = [second EXCEPT ![rec[r]][bucketOf(r)] = startedAt[r]]
          BY <4>2 DEF Rotate
        <5>2. ~(rec[r] = o /\ bucketOf(r) = b)
          BY <2>4, <4>2
        <5>3. QED
          BY <1>3, <5>1, <5>2
      <4>3. QED
        BY <1>1, <1>5, <4>1, <4>2, BucketWrites
    <3>2. ~BeingReset(o, b)
      <4>1. SUFFICES ASSUME NEW q \in Requests, pc[q] = "reset", rec[q] = o, bucketOf(q) = b
                     PROVE  FALSE
        BY DEF BeingReset
      <4>2. Located(q)
        BY <4>1 DEF Located
      <4>3. rec'[q] = o /\ bucketOf(q)' = b
        BY <1>1, <1>5, <4>1, <4>2, BucketStays
      <4>4. pc'[q] = "reset"
        <5>1. CASE q # r
          BY <1>1, <1>5, <4>1, <5>1, OthersStay
        <5>2. CASE q = r
          <6>1. ~Rotate(r)
            BY <4>1, <5>2 DEF Rotate
          <6>2. QED
            BY <1>1, <1>5, <2>4, <4>1, <5>2, <6>1, CountMoves
        <5>3. QED
          BY <5>1, <5>2
      <4>5. QED
        BY <4>3, <4>4 DEF BeingReset
    <3>3. requests[o][b] <= Cardinality(CountedIn(o, b))
      BY <1>1, <3>2 DEF BucketInv
    <3>4. \A q \in Requests \ {r} : q \in CountedIn(o, b)' <=> q \in CountedIn(o, b)
      BY <1>1, <1>5, <3>1, OthersStay DEF CountedIn, Counted
    <3>5. CASE AddFast(r) \/ AddSlow(r)
      <4>1. /\ pc[r] \in {"fast", "slow"} /\ pc'[r] = "read"
            /\ requests' = [requests EXCEPT ![rec[r]][bucketOf(r)] = @ + 1]
        BY <1>1, <3>5 DEF AddFast, AddSlow, Goes, TypeOK
      <4>2. Located(r) /\ ~Counted(r) /\ Counted(r)' /\ second[rec[r]][bucketOf(r)] = startedAt[r]
        BY <1>1, <4>1 DEF Located, Counted, SecondInv, Reading
      <4>3. CASE rec[r] = o /\ bucketOf(r) = b
        <5>1. r \notin CountedIn(o, b) /\ r \in CountedIn(o, b)'
          BY <2>1, <3>1, <4>2, <4>3 DEF CountedIn
        <5>2. Cardinality(CountedIn(o, b)') = Cardinality(CountedIn(o, b)) + 1
          BY <1>2, <3>4, <5>1, PartGains
        <5>3. requests'[o][b] = requests[o][b] + 1
          BY <1>3, <4>1, <4>3
        <5>4. QED
          BY <1>2, <1>3, <3>3, <5>2, <5>3
      <4>4. CASE ~(rec[r] = o /\ bucketOf(r) = b)
        <5>1. requests'[o][b] = requests[o][b]
          BY <1>3, <4>1, <4>4
        <5>2. CASE r \in CountedIn(o, b)'
          <6>1. r \notin CountedIn(o, b)
            BY <4>2 DEF CountedIn
          <6>2. Cardinality(CountedIn(o, b)') = Cardinality(CountedIn(o, b)) + 1
            BY <1>2, <3>4, <5>2, <6>1, PartGains
          <6>3. QED
            BY <1>2, <1>3, <3>3, <5>1, <6>2
        <5>3. CASE r \notin CountedIn(o, b)'
          <6>1. r \notin CountedIn(o, b)
            BY <4>2 DEF CountedIn
          <6>2. CountedIn(o, b)' = CountedIn(o, b)
            BY <1>2, <3>4, <5>3, <6>1
          <6>3. QED
            BY <3>3, <5>1, <6>2
        <5>4. QED
          BY <5>2, <5>3
      <4>5. QED
        BY <4>3, <4>4
    <3>6. CASE ~AddFast(r) /\ ~AddSlow(r)
      <4>1. Counted(r)' <=> Counted(r)
        BY <1>1, <1>5, <3>6, CountMoves
      <4>2. Counted(r) => Located(r)
        BY DEF Counted, Located, Reading
      <4>3. r \in CountedIn(o, b)' <=> r \in CountedIn(o, b)
        BY <2>1, <3>1, <4>1, <4>2 DEF CountedIn
      <4>4. CountedIn(o, b)' = CountedIn(o, b)
        BY <1>2, <3>4, <4>3
      <4>5. requests'[o][b] = requests[o][b]
        <5>1. CASE Reset(r)
          <6>1. requests' = [requests EXCEPT ![rec[r]][bucketOf(r)] = 0]
            BY <5>1 DEF Reset
          <6>2. ~(rec[r] = o /\ bucketOf(r) = b)
            BY <2>4, <5>1
          <6>3. QED
            BY <1>3, <6>1, <6>2
        <5>2. QED
          BY <1>1, <1>5, <3>6, <5>1, BucketWrites
      <4>6. QED
        BY <3>3, <4>4, <4>5
    <3>7. QED
      BY <3>5, <3>6
  <2>5. QED
    BY <2>2, <2>3, <2>4
<1>6. QED
  BY <1>4, <1>5, StepIsOfOne

\* Only the two readers of StatusFor write the status and how far it has been read.
LEMMA StatusWrites ==
  ASSUME TypeOK, NEW r \in Requests, StepOf(r)
  PROVE  (scan' = scan /\ status' = status) \/ Scan(r) \/ Load(r)
<1> USE DEF requestVars
<1>1. CASE Begin(r) \/ Create(r) \/ CountInFlight(r) \/ CountStarted(r)
  BY <1>1 DEF Begin, Create, CountInFlight, CountStarted
<1>2. CASE Look(r) \/ AddFast(r) \/ LockBucket(r)
  BY <1>2 DEF Look, AddFast, LockBucket
<1>3. CASE Rotate(r)
  BY <1>3 DEF Rotate
<1>4. CASE Reset(r) \/ AddSlow(r) \/ ReadClock(r)
  BY <1>4 DEF Reset, AddSlow, ReadClock
<1>5. CASE FinishInFlight(r) \/ FinishCount(r)
  BY <1>5 DEF FinishInFlight, FinishCount
<1>6. QED
  BY <1>1, <1>2, <1>3, <1>4, <1>5 DEF StepOf

\* A step that reads nothing of a status happens before all of them or after the last.
LEMMA OutsideReading ==
  ASSUME TypeOK, NEW r \in Requests, StepOf(r), ~ReadClock(r), ~Scan(r), ~Load(r)
  PROVE  /\ pc[r] \notin Reading /\ pc'[r] \notin Reading
         /\ Decided(r)' <=> Decided(r)
<1> USE DEF Goes, TypeOK, Reading, Decided
<1>1. CASE Begin(r) \/ Create(r) \/ CountInFlight(r) \/ CountStarted(r)
  BY <1>1 DEF Begin, Create, CountInFlight, CountStarted
<1>2. CASE Look(r) \/ AddFast(r) \/ LockBucket(r)
  BY <1>2 DEF Look, AddFast, LockBucket
<1>3. CASE Rotate(r)
  BY <1>3 DEF Rotate
<1>4. CASE Reset(r) \/ AddSlow(r)
  BY <1>4 DEF Reset, AddSlow
<1>5. CASE FinishInFlight(r) \/ FinishCount(r)
  BY <1>5 DEF FinishInFlight, FinishCount
<1>6. QED
  BY <1>1, <1>2, <1>3, <1>4, <1>5 DEF StepOf

\* A status is read from the first bucket to the last counter.
LEMMA ScanStep == IInv /\ [Next]_vars => ScanInv'
<1> SUFFICES ASSUME IInv, [Next]_vars, NEW q \in Requests
             PROVE  /\ pc'[q] \notin Reading /\ ~Decided(q)' => scan'[q] = 0
                    /\ pc'[q] = "scan" => scan'[q] \in Buckets
                    /\ pc'[q] = "load" => scan'[q] \in BucketCount..(BucketCount + 2)
                    /\ Decided(q)' => scan'[q] = BucketCount + 3
                    /\ pc'[q] \in Reading => readAt'[q] - startedAt'[q] \in Buckets
  BY DEF ScanInv, Buckets
<1>1. TypeOK /\ ScanInv /\ TimeInv /\ BucketCount \in Nat \ {0}
  BY WindowIsPositive DEF IInv
<1>2. /\ pc[q] \notin Reading /\ ~Decided(q) => scan[q] = 0
      /\ pc[q] = "scan" => scan[q] \in Buckets
      /\ pc[q] = "load" => scan[q] \in BucketCount..(BucketCount + 2)
      /\ Decided(q) => scan[q] = BucketCount + 3
      /\ pc[q] \in Reading => readAt[q] - startedAt[q] \in Buckets
  BY <1>1 DEF ScanInv
<1>3. CASE UNCHANGED vars \/ Tick
  BY <1>2, <1>3 DEF vars, Tick, requestVars, Decided
<1>4. ASSUME NEW r \in Requests, StepOf(r), q # r
      PROVE  /\ pc'[q] = pc[q] /\ (Decided(q)' <=> Decided(q))
             /\ scan'[q] = scan[q] /\ readAt'[q] = readAt[q] /\ startedAt'[q] = startedAt[q]
  BY <1>1, <1>4, OthersStay DEF Decided
<1>5. CASE ReadClock(q)
  <2>1. /\ pc[q] = "read" /\ pc'[q] = "scan" /\ scan'[q] = scan[q]
        /\ readAt'[q] = now /\ startedAt'[q] = startedAt[q]
    BY <1>1, <1>5 DEF ReadClock, Goes, TypeOK
  <2>2. scan[q] = 0 /\ Active(q) /\ ~Decided(q)'
    BY <1>2, <2>1 DEF Reading, Decided, Active
  <2>3. now - startedAt[q] \in Buckets
    <3>1. now \in Nat /\ startedAt[q] \in Nat
      BY <1>1 DEF TypeOK
    <3>2. QED
      BY <1>1, <2>2, <3>1 DEF TimeInv, Buckets
  <2>4. QED
    BY <1>1, <2>1, <2>2, <2>3 DEF Buckets, Reading
<1>6. CASE Scan(q)
  <2>1. /\ pc[q] = "scan" /\ scan'[q] = scan[q] + 1
        /\ pc'[q] = (IF scan[q] + 1 = BucketCount THEN "load" ELSE "scan")
        /\ readAt' = readAt /\ startedAt' = startedAt
    BY <1>1, <1>6 DEF Scan, TypeOK
  <2>2. scan[q] \in 0..(BucketCount - 1) /\ readAt[q] - startedAt[q] \in Buckets
    BY <1>2, <2>1 DEF Reading, Buckets
  <2>3. ~Decided(q)' /\ pc'[q] \in Reading
    BY <2>1 DEF Decided, Reading
  <2>4. scan'[q] = BucketCount \/ scan'[q] \in Buckets
    BY <1>1, <2>1, <2>2 DEF Buckets
  <2>5. CASE scan[q] + 1 = BucketCount
    BY <1>1, <2>1, <2>2, <2>3, <2>5
  <2>6. CASE scan[q] + 1 # BucketCount
    BY <2>1, <2>2, <2>3, <2>4, <2>6
  <2>7. QED
    BY <2>5, <2>6
<1>7. CASE Load(q)
  <2>1. /\ pc[q] = "load" /\ scan[q] \in BucketCount..(BucketCount + 2)
        /\ scan' = [scan EXCEPT ![q] = @ + 1]
        /\ pc' = [pc EXCEPT ![q] = IF scan[q] = BucketCount + 2 THEN "forward" ELSE "load"]
    BY <1>1, <1>7, LoadSteps
  <2>2. /\ scan'[q] = scan[q] + 1
        /\ pc'[q] = (IF scan[q] = BucketCount + 2 THEN "forward" ELSE "load")
        /\ readAt' = readAt /\ startedAt' = startedAt
    BY <1>1, <1>7, <2>1 DEF Load, TypeOK
  <2>3. readAt[q] - startedAt[q] \in Buckets
    BY <1>2, <2>1 DEF Reading
  <2>4. CASE scan[q] = BucketCount + 2
    BY <1>1, <2>2, <2>4 DEF Decided, Reading
  <2>5. CASE scan[q] # BucketCount + 2
    BY <1>1, <2>1, <2>2, <2>3, <2>5 DEF Decided, Reading
  <2>6. QED
    BY <2>4, <2>5
<1>8. CASE StepOf(q) /\ ~ReadClock(q) /\ ~Scan(q) /\ ~Load(q)
  <2>1. /\ pc[q] \notin Reading /\ pc'[q] \notin Reading
        /\ Decided(q)' <=> Decided(q)
        /\ scan' = scan
    BY <1>1, <1>8, OutsideReading, StatusWrites
  <2>2. QED
    BY <1>2, <2>1 DEF Reading
<1>9. QED
  BY <1>2, <1>3, <1>4, <1>5, <1>6, <1>7, <1>8, StepIsOfOne

\* The number of finished requests of a record never falls.
LEMMA FinishedGrows ==
  ASSUME TypeOK, NEW r \in Requests, StepOf(r), NEW o \in Requests
  PROVE  finished'[o] >= finished[o]
<1>1. finished[o] \in Nat
  BY DEF TypeOK
<1>2. CASE FinishCount(r)
  BY <1>1, <1>2 DEF FinishCount, TypeOK
<1>3. CASE finished' = finished
  BY <1>1, <1>3
<1>4. QED
  BY <1>2, <1>3, CounterWrites

\* The bucket of a request counts it when its status gets there.
LEMMA OwnBucketCounts ==
  ASSUME IInv, NEW r \in Requests, Scan(r), scan[r] = bucketOf(r)
  PROVE  countedAt(current, scan[r], readAt[r]) > 0
<1>1. TypeOK /\ RecordInv /\ SecondInv /\ CountedInv /\ ScanInv
  BY DEF IInv
<1>2. pc[r] = "scan" /\ bucketMu[current][scan[r]] = None
  BY DEF Scan
<1>3. rec[r] = current /\ current \in Requests
  BY <1>1, <1>2 DEF RecordInv, Located
<1>4. second[current][scan[r]] = startedAt[r] /\ requests[current][scan[r]] > 0
  BY <1>1, <1>2, <1>3 DEF SecondInv, CountedInv, Reading
<1>5. readAt[r] - startedAt[r] \in Buckets
  BY <1>1, <1>2 DEF ScanInv, Reading
<1>6. QED
  BY <1>4, <1>5 DEF countedAt

\* What the counters of the record say to a request that loads them.
LEMMA LoadedCounters ==
  ASSUME IInv, NEW r \in Requests, Load(r)
  PROVE  /\ current \in Requests
         /\ inFlight[current] > 0
         /\ finished[current] <= started[current]
<1>1. TypeOK /\ RecordInv /\ CounterInv /\ pc[r] = "load"
  BY DEF IInv, Load
<1>2. rec[r] = current /\ current \in Requests
  BY <1>1 DEF RecordInv, Located
<1>3. r \in InFlightIn(current) /\ InFlightIn(current) \in SUBSET Requests
  BY <1>1, <1>2 DEF InFlightIn, InFlight, Reading
<1>4. FinishedIn(current) \subseteq StartedIn(current) /\ StartedIn(current) \in SUBSET Requests
  BY DEF FinishedIn, StartedIn, Located
<1>5. Cardinality(FinishedIn(current)) <= Cardinality(StartedIn(current))
  BY <1>4, PartsAreFinite, FS_Subset
<1>6. Cardinality(InFlightIn(current)) > 0
  BY <1>3, PartCounts
<1>7. QED
  BY <1>1, <1>2, <1>5, <1>6 DEF CounterInv

\* What a request has seen stays true while others start and finish.
LEMMA SeenStep == IInv /\ [Next]_vars => SeenInv'
<1> SUFFICES ASSUME IInv, [Next]_vars, NEW q \in Requests
             PROVE  /\ scan'[q] > bucketOf(q)' => status'[q].inWindow > 0
                    /\ scan'[q] > BucketCount => status'[q].finished <= finished'[current']
                    /\ scan'[q] > BucketCount + 1 => status'[q].inFlight > 0
                    /\ scan'[q] > BucketCount + 2 => status'[q].finished <= status'[q].started
  BY DEF SeenInv
<1>1. TypeOK /\ RecordInv /\ ScanInv /\ SeenInv /\ BucketCount \in Nat \ {0}
  BY WindowIsPositive DEF IInv
<1>2. /\ scan[q] > bucketOf(q) => status[q].inWindow > 0
      /\ scan[q] > BucketCount => status[q].finished <= finished[current]
      /\ scan[q] > BucketCount + 1 => status[q].inFlight > 0
      /\ scan[q] > BucketCount + 2 => status[q].finished <= status[q].started
  BY <1>1 DEF SeenInv
<1>3. /\ status \in [Requests -> [inWindow : Nat, finished : Nat, inFlight : Int, started : Nat]]
      /\ status[q] \in [inWindow : Nat, finished : Nat, inFlight : Int, started : Nat]
      /\ scan[q] \in Nat /\ finished \in [Requests -> Nat]
  BY <1>1 DEF TypeOK
<1>4. CASE UNCHANGED vars \/ Tick
  BY <1>2, <1>4 DEF vars, Tick, requestVars, counterVars, bucketOf
<1>5. ASSUME NEW r \in Requests, StepOf(r)
      PROVE  /\ scan'[q] > bucketOf(q)' => status'[q].inWindow > 0
             /\ scan'[q] > BucketCount => status'[q].finished <= finished'[current']
             /\ scan'[q] > BucketCount + 1 => status'[q].inFlight > 0
             /\ scan'[q] > BucketCount + 2 => status'[q].finished <= status'[q].started
  <2>1. CASE ~Located(q)
    <3>1. scan[q] = 0
      BY <1>1, <2>1 DEF ScanInv, Located, Decided, Reading
    <3>2. scan'[q] = 0
      <4>1. CASE q # r
        BY <1>1, <1>5, <3>1, <4>1, OthersStay
      <4>2. CASE q = r
        BY <1>1, <1>5, <2>1, <3>1, <4>2, BeforeRecord DEF Begin, Create
      <4>3. QED
        BY <4>1, <4>2
    <3>3. bucketOf(q)' \in Nat
      <4>1. startedAt'[q] \in Nat
        BY TypeStep DEF TypeOK
      <4>2. startedAt'[q] % BucketCount \in 0..(BucketCount - 1)
        BY <1>1, <4>1, DivisionWithRemainder
      <4>3. QED
        BY <1>1, <4>2 DEF bucketOf
    <3>4. QED
      BY <1>1, <3>2, <3>3
  <2>2. CASE Located(q) /\ ~(q = r /\ (Scan(r) \/ Load(r)))
    <3>1. scan'[q] = scan[q] /\ status'[q] = status[q] /\ bucketOf(q)' = bucketOf(q)
      BY <1>1, <1>5, <2>2, OthersStay, StatusWrites, BucketStays
    <3>2. current \in Requests /\ current' = current
      <4>1. current \in Requests /\ current # None
        BY <1>1, <2>2, RequestsFinite DEF RecordInv
      <4>2. CASE Located(r)
        BY <1>1, <1>5, <4>1, <4>2, RecordStays
      <4>3. CASE ~Located(r)
        BY <1>1, <1>5, <4>1, <4>3, BeforeRecord DEF Begin, Create
      <4>4. QED
        BY <4>2, <4>3
    <3>3. finished'[current] >= finished[current]
      BY <1>1, <1>5, <3>2, FinishedGrows
    <3>4. finished'[current] \in Nat /\ finished[current] \in Nat
      BY <1>3, <3>2, TypeStep DEF TypeOK
    <3>5. QED
      BY <1>2, <1>3, <3>1, <3>2, <3>3, <3>4
  <2>3. CASE Located(q) /\ q = r /\ Scan(r)
    <3>1. /\ status'[q] = [status[q] EXCEPT !.inWindow = @ + countedAt(current, scan[q], readAt[q])]
          /\ scan'[q] = scan[q] + 1
      BY <1>1, <1>3, <2>3 DEF Scan, TypeOK
    <3>2. scan[q] \in 0..(BucketCount - 1) /\ current \in Requests
      BY <1>1, <2>3 DEF Scan, ScanInv, RecordInv, Buckets
    <3>3. bucketOf(q)' = bucketOf(q) /\ bucketOf(q) \in Nat
      BY <1>1, <1>5, <2>3, BucketStays, BucketTypes DEF Buckets
    <3>4. /\ countedAt(current, scan[q], readAt[q]) \in Nat
          /\ scan[q] = bucketOf(q) => countedAt(current, scan[q], readAt[q]) > 0
      BY <1>1, <2>3, <3>2, CountedAtTypes, OwnBucketCounts DEF Buckets
    <3>5. status'[q].inWindow = status[q].inWindow + countedAt(current, scan[q], readAt[q])
          /\ status[q].inWindow \in Nat
      BY <1>3, <3>1
    <3>6. scan'[q] > bucketOf(q)' => status'[q].inWindow > 0
      <4>1. CASE scan[q] = bucketOf(q)
        BY <3>4, <3>5, <4>1
      <4>2. CASE scan[q] > bucketOf(q)
        BY <1>2, <3>4, <3>5, <4>2
      <4>3. CASE scan[q] < bucketOf(q)
        BY <1>3, <3>1, <3>3, <4>3
      <4>4. QED
        BY <1>3, <3>3, <4>1, <4>2, <4>3
    <3>7. scan'[q] <= BucketCount
      BY <1>1, <3>1, <3>2
    <3>8. QED
      BY <1>1, <1>3, <3>1, <3>6, <3>7
  <2>4. CASE Located(q) /\ q = r /\ Load(r)
    <3>1. scan'[q] = scan[q] + 1 /\ scan[q] \in BucketCount..(BucketCount + 2)
      BY <1>1, <2>4, LoadSteps DEF TypeOK
    <3>2. bucketOf(q)' = bucketOf(q) /\ bucketOf(q) \in 0..(BucketCount - 1)
      BY <1>1, <1>5, <2>4, BucketStays, BucketTypes DEF Buckets
    <3>3. status[q].inWindow > 0
      BY <1>1, <1>2, <3>1, <3>2
    <3>4. finished' = finished /\ current' = current
      BY <2>4 DEF Load, counterVars
    <3>5. current \in Requests /\ inFlight[current] > 0 /\ finished[current] <= started[current]
      BY <2>4, LoadedCounters
    <3>6. /\ finished[current] \in Nat /\ started[current] \in Nat /\ inFlight[current] \in Int
      BY <1>1, <3>5 DEF TypeOK
    <3>7. CASE scan[q] = BucketCount
      <4>1. status'[q] = [status[q] EXCEPT !.finished = finished[current]]
        BY <1>1, <1>3, <2>4, <3>7, LoadedInOrder
      <4>2. status'[q].finished = finished[current] /\ status'[q].inWindow = status[q].inWindow
        BY <1>3, <4>1
      <4>3. QED
        BY <1>1, <3>1, <3>3, <3>4, <3>6, <3>7, <4>2
    <3>8. CASE scan[q] = BucketCount + 1
      <4>1. status'[q] = [status[q] EXCEPT !.inFlight = inFlight[current]]
        BY <1>1, <1>3, <2>4, <3>8, LoadedInOrder
      <4>2. status'[q].inFlight = inFlight[current] /\ status'[q].inWindow = status[q].inWindow
            /\ status'[q].finished = status[q].finished
        BY <1>3, <4>1
      <4>3. QED
        BY <1>1, <1>2, <3>1, <3>3, <3>4, <3>5, <3>6, <3>8, <4>2
    <3>9. CASE scan[q] = BucketCount + 2
      <4>1. status'[q] = [status[q] EXCEPT !.started = started[current]]
        BY <1>1, <1>3, <2>4, <3>9, LoadedInOrder
      <4>2. status'[q].started = started[current] /\ status'[q].inWindow = status[q].inWindow
            /\ status'[q].finished = status[q].finished /\ status'[q].inFlight = status[q].inFlight
        BY <1>3, <4>1
      <4>3. status[q].finished <= finished[current] /\ status[q].inFlight > 0 /\ status[q].finished \in Nat
        BY <1>1, <1>2, <1>3, <3>9
      <4>4. QED
        BY <3>1, <3>3, <3>4, <3>5, <3>6, <4>2, <4>3
    <3>10. QED
      BY <1>1, <3>1, <3>7, <3>8, <3>9
  <2>5. QED
    BY <2>1, <2>2, <2>3, <2>4
<1>6. QED
  BY <1>4, <1>5, StepIsOfOne

-----------------------------------------------------------------------------
(* Every behaviour                                                         *)

\* The invariant holds before the first request.
LEMMA InitIInv == Init => IInv
<1> SUFFICES ASSUME Init PROVE IInv
  OBVIOUS
<1>1. BucketCount \in Nat \ {0}
  BY WindowIsPositive
<1>2. TypeOK
  BY <1>1 DEF Init, TypeOK, Unread, Starting, Reading
<1>3. RecordInv /\ TimeInv /\ LockInv /\ SecondInv /\ CountedInv
  BY DEF Init, RecordInv, TimeInv, LockInv, SecondInv, CountedInv, Located, Active, Starting, Reading
<1>4. CounterInv
  <2>1. \A o \in Requests : InFlightIn(o) = {} /\ StartedIn(o) = {} /\ FinishedIn(o) = {}
    BY DEF Init, InFlightIn, StartedIn, FinishedIn, InFlight, Located, Reading
  <2>2. Cardinality({}) = 0
    BY FS_EmptySet
  <2>3. QED
    BY <2>1, <2>2 DEF Init, CounterInv
<1>5. BucketInv
  <2>1. \A o \in Requests, b \in Buckets : CountedIn(o, b) \in SUBSET Requests /\ requests[o][b] = 0
    BY DEF Init, CountedIn
  <2>2. \A o \in Requests, b \in Buckets : Cardinality(CountedIn(o, b)) \in Nat
    BY <2>1, PartsAreFinite
  <2>3. QED
    BY <2>1, <2>2 DEF BucketInv
<1>6. ScanInv
  BY DEF Init, ScanInv, Decided, Reading
<1>7. SeenInv
  <2> SUFFICES ASSUME NEW r \in Requests
               PROVE  scan[r] = 0 /\ bucketOf(r) \in Nat
    BY <1>1 DEF SeenInv
  <2>1. QED
    BY <1>2, BucketTypes DEF Init, Buckets
<1>8. QED
  BY <1>2, <1>3, <1>4, <1>5, <1>6, <1>7 DEF IInv

\* Every step keeps the invariant, part by part.
LEMMA IInvStep == IInv /\ [Next]_vars => IInv'
BY TypeStep, RecordStep, TimeStep, LockStep, SecondStep, CountedStep, CounterStep, BucketStep,
   ScanStep, SeenStep DEF IInv

\* The parts of IInv, which need each other, hold in every reachable state.
THEOREM Invariance == Spec => []IInv
<1>1. Init => IInv
  BY InitIInv
<1>2. IInv /\ [Next]_vars => IInv'
  BY IInvStep
<1>3. QED
  BY <1>1, <1>2, PTL DEF Spec

\* Every variable keeps its type: no request reads or counts without a record.
THEOREM TypeCorrect == Spec => []TypeOK
<1>1. IInv => TypeOK
  BY DEF IInv
<1>2. QED
  BY <1>1, Invariance, PTL

\* The gauge of a service is the number of its requests under way, for any number of requests
\* that start and finish at once (record.go:164-187).
THEOREM GaugeIsExact == Spec => []InFlightIsExact
<1>1. ASSUME IInv, current # None
      PROVE  inFlight[current] = Cardinality({r \in Requests : InFlight(r)})
  <2>1. current \in Requests /\ RecordInv /\ CounterInv
    BY <1>1 DEF IInv, TypeOK
  <2>2. InFlightIn(current) = {r \in Requests : InFlight(r)}
    BY <2>1 DEF InFlightIn, InFlight, RecordInv, Located, Reading
  <2>3. QED
    BY <2>1, <2>2 DEF CounterInv
<1>2. IInv => InFlightIsExact
  BY <1>1 DEF InFlightIsExact
<1>3. QED
  BY <1>2, Invariance, PTL

\* No status shows more finished than started requests (record.go:114-120).
THEOREM StatusIsInOrder == Spec => []FinishedWereStarted
<1>1. IInv => FinishedWereStarted
  <2> SUFFICES ASSUME IInv, NEW r \in Requests, Decided(r)
               PROVE  status[r].finished <= status[r].started
    BY DEF FinishedWereStarted, Decided
  <2>1. scan[r] = BucketCount + 3 /\ BucketCount \in Nat
    BY WindowIsPositive DEF IInv, ScanInv
  <2>2. QED
    BY <2>1 DEF IInv, SeenInv
<1>2. QED
  BY <1>1, Invariance, PTL

\* A request never decides by a load without itself (record.go:84-120, 202-232).
THEOREM StatusHasItself == Spec => []StatusCountsItself
<1>1. IInv => StatusCountsItself
  <2> SUFFICES ASSUME IInv, NEW r \in Requests, Decided(r)
               PROVE  status[r].inFlight > 0 /\ status[r].inWindow > 0
    BY DEF StatusCountsItself, Decided
  <2>1. scan[r] = BucketCount + 3 /\ BucketCount \in Nat
    BY WindowIsPositive DEF IInv, ScanInv
  <2>2. bucketOf(r) \in 0..(BucketCount - 1)
    BY BucketTypes DEF IInv, Buckets
  <2>3. scan[r] > bucketOf(r) /\ scan[r] > BucketCount + 1
    BY <2>1, <2>2
  <2>4. QED
    BY <2>3 DEF IInv, SeenInv
<1>2. QED
  BY <1>1, Invariance, PTL

\* A bucket counts no request of another second and none twice (record.go:213-224).
THEOREM BucketsDoNotOvercount == Spec => []NeverOvercounts
<1>1. IInv => NeverOvercounts
  <2> SUFFICES ASSUME IInv, current # None, NEW b \in Buckets,
                      ~ \E r \in Requests : pc[r] = "reset" /\ bucketOf(r) = b
               PROVE  requests[current][b] <=
                        Cardinality({r \in Requests : startedAt[r] = second[current][b]})
    BY DEF NeverOvercounts
  <2> DEFINE came == {r \in Requests : startedAt[r] = second[current][b]}
  <2>1. current \in Requests /\ TypeOK /\ BucketInv
    BY DEF IInv, TypeOK
  <2>2. requests[current][b] <= Cardinality(CountedIn(current, b)) /\ requests[current][b] \in Nat
    BY <2>1 DEF BucketInv, BeingReset, TypeOK
  <2>3. CountedIn(current, b) \subseteq came /\ came \in SUBSET Requests
    BY DEF CountedIn
  <2>4. /\ Cardinality(CountedIn(current, b)) <= Cardinality(came)
        /\ Cardinality(CountedIn(current, b)) \in Nat /\ Cardinality(came) \in Nat
    <3> HIDE DEF came
    <3>1. QED
      BY <2>3, PartsAreFinite, FS_Subset
  <2>5. QED
    BY <2>2, <2>4
<1>2. QED
  BY <1>1, Invariance, PTL

=============================================================================

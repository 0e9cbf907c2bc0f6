------------------------- MODULE HealthManagerProofs -------------------------
(***************************************************************************)
(* Proofs about HealthManager, for any finite sets of deliveries and keys, *)
(* any settings and any number of checks.                                  *)
(***************************************************************************)
EXTENDS HealthManager, NaturalsLemmas, SequenceTheorems

-----------------------------------------------------------------------------
(* The inductive invariant, in parts.                                      *)

\* TypeOK without the timers and the history of the checks.
Types ==
    /\ pc \in [Notifiers -> {"idle", "contend", "locked", "cancelling", "done"}]
    /\ desired \in [Notifiers -> [Keys -> HealthSettings \cup {None}]]
    /\ toCancel \in [Notifiers -> SUBSET Generations]
    /\ mu \in Notifiers \cup {None}
    /\ generation \in Generations \cup {0}
    /\ targets \in [Keys -> Generations \cup {0}]
    /\ settings \in [Generations -> HealthSettings \cup {None}]
    /\ keyOf \in [Generations -> Keys \cup {None}]
    /\ maxIdleConns \in Nat
    /\ records \in [Keys -> Record \cup {None}]
    /\ loop \in [Generations -> {"none", "sleeping", "checked", "ended"}]
    /\ counters \in [Generations -> Counters]
    /\ cancelled \in [Generations -> BOOLEAN]

LockInv == \A n \in Notifiers : pc[n] = "locked" <=> mu = n

\* Generations are given out in order, and only those that were given out do anything.
FreshInv ==
    /\ \A g \in Generations : g <= generation <=> loop[g] # "none"
    /\ \A g \in Generations : g > generation =>
        ~cancelled[g] /\ \A n \in Notifiers : g \notin toCancel[n]
    /\ \A k \in Keys : targets[k] <= generation

\* A loop that goes on has its key and settings, and a target has a loop that goes on.
LoopInv ==
    /\ \A g \in Generations : Alive(g) => keyOf[g] \in Keys /\ settings[g] # None
    /\ \A k \in Keys : targets[k] # 0 => Alive(targets[k]) /\ keyOf[targets[k]] = k

\* OneLoopPerTarget without the key: cancelled, or about to be, is what is no target.
CancelInv ==
    \A g \in Generations :
        /\ ToBeCancelled(g) => \A k \in Keys : targets[k] # g
        /\ Alive(g) /\ (\A k \in Keys : targets[k] # g) => ToBeCancelled(g)

\* The keys whose target is the one a delivery wants.
Satisfied(n) == {k \in Keys : targets[k] # 0 /\ settings[targets[k]] = desired[n][k]}
Delivered == {n \in Notifiers : pc[n] \in {"cancelling", "done"}}
Targeted == {k \in Keys : targets[k] # 0}

\* A delivery gives out one generation per key at most, for what it has created it does not
\* find outdated again.
GenerationInv ==
    /\ mu = None => generation <= Cardinality(Delivered) * Cardinality(Keys)
    /\ mu # None => generation <= Cardinality(Delivered) * Cardinality(Keys) + Cardinality(Satisfied(mu))

\* Between two deliveries: the targets of one snapshot, and a client for as many.
SnapshotInv ==
    mu = None =>
        /\ maxIdleConns >= Cardinality(Targeted)
        /\ Delivered # {} => \E n \in Delivered : \A k \in Keys :
            desired[n][k] = IF targets[k] = 0 THEN None ELSE settings[targets[k]]

IInv ==
    /\ Types
    /\ LockInv
    /\ FreshInv
    /\ LoopInv
    /\ CancelInv
    /\ GenerationInv
    /\ SnapshotInv
    /\ RecordsAreOfTargets

-----------------------------------------------------------------------------
(* Generations                                                             *)

\* The sizes of the constants, which are finite.
LEMMA Sizes ==
  /\ Cardinality(Keys) \in Nat /\ Cardinality(Notifiers) \in Nat
  /\ Cardinality(Notifiers) * Cardinality(Keys) \in Nat
  /\ Generations \subseteq Nat \ {0}
<1>1. Cardinality(Keys) \in Nat /\ Cardinality(Notifiers) \in Nat
  BY NotifiersAndKeysFinite, FS_CardinalityType
<1>2. \A a, b \in Nat : a * b \in Nat
  OBVIOUS
<1>3. Cardinality(Notifiers) * Cardinality(Keys) \in Nat
  BY <1>1, <1>2
<1>4. QED
  BY <1>1, <1>3 DEF Generations

\* A fact about products, for a goal whose other parts are not arithmetic.
LEMMA ProductIsNat == \A a, b \in Nat : a * b \in Nat
  OBVIOUS

\* The sets that are counted are finite.
LEMMA CountedAreFinite ==
  /\ IsFiniteSet(Delivered) /\ Cardinality(Delivered) \in Nat
  /\ IsFiniteSet(Targeted) /\ Cardinality(Targeted) \in Nat
  /\ \A n : /\ IsFiniteSet(Satisfied(n)) /\ Cardinality(Satisfied(n)) \in Nat
           /\ Cardinality(Satisfied(n)) <= Cardinality(Keys)
<1>1. /\ Delivered \in SUBSET Notifiers /\ Targeted \in SUBSET Keys
      /\ \A n : Satisfied(n) \in SUBSET Keys
  BY DEF Delivered, Targeted, Satisfied
<1>2. QED
  BY <1>1, NotifiersAndKeysFinite, FS_Subset, FS_CardinalityType

\* There is always a generation left for a target that is missing.
LEMMA GenerationLeft ==
  ASSUME IInv, NEW n \in Notifiers, NEW k \in Keys, Create(n, k)
  PROVE  generation + 1 \in Generations
<1>1. mu = n /\ n # None /\ pc[n] = "locked" /\ k \notin Satisfied(n)
  BY NoneIsNoSetting DEF IInv, LockInv, Create, Missing, Satisfied
<1>2. Cardinality(Satisfied(n)) + 1 <= Cardinality(Keys)
  <2>1. Satisfied(n) \cup {k} \in SUBSET Keys
    BY DEF Satisfied
  <2>2. Cardinality(Satisfied(n) \cup {k}) <= Cardinality(Keys)
    BY <2>1, NotifiersAndKeysFinite, FS_Subset
  <2>3. IsFiniteSet(Satisfied(n)) /\ Cardinality(Satisfied(n)) \in Nat
    BY CountedAreFinite
  <2>4. Cardinality(Satisfied(n) \cup {k}) = Cardinality(Satisfied(n)) + 1
    BY <1>1, <2>3, FS_AddElement
  <2>5. QED
    BY <2>2, <2>3, <2>4
<1>3. Cardinality(Delivered) + 1 <= Cardinality(Notifiers)
  <2>1. n \notin Delivered /\ Delivered \cup {n} \in SUBSET Notifiers
    BY <1>1 DEF Delivered
  <2>2. Cardinality(Delivered \cup {n}) <= Cardinality(Notifiers)
    BY <2>1, NotifiersAndKeysFinite, FS_Subset
  <2>3. IsFiniteSet(Delivered) /\ Cardinality(Delivered) \in Nat
    BY CountedAreFinite
  <2>4. Cardinality(Delivered \cup {n}) = Cardinality(Delivered) + 1
    BY <2>1, <2>3, FS_AddElement
  <2>5. QED
    BY <2>2, <2>3, <2>4
<1>4. ASSUME NEW d \in Nat, NEW s \in Nat, NEW m \in Nat, NEW c \in Nat, d + 1 <= m, s + 1 <= c
      PROVE  d * c + s + 1 <= m * c
  <2>1. (d + 1) * c <= m * c
    BY <1>4
  <2>2. (d + 1) * c = d * c + c
    OBVIOUS
  <2>3. d * c \in Nat /\ m * c \in Nat
    OBVIOUS
  <2>4. QED
    BY <1>4, <2>1, <2>2, <2>3
<1>5. Cardinality(Delivered) * Cardinality(Keys) + Cardinality(Satisfied(n)) + 1
        <= Cardinality(Notifiers) * Cardinality(Keys)
  BY <1>2, <1>3, <1>4, Sizes, CountedAreFinite
<1>6. generation <= Cardinality(Delivered) * Cardinality(Keys) + Cardinality(Satisfied(n))
  BY <1>1 DEF IInv, GenerationInv
<1>7. Cardinality(Delivered) * Cardinality(Keys) \in Nat
  BY <1>4, Sizes, CountedAreFinite
<1>8. QED
  BY <1>5, <1>6, <1>7, Sizes, CountedAreFinite DEF IInv, Types, Generations

-----------------------------------------------------------------------------
(* What a loop has counted                                                 *)

\* Whether `length` outcomes of a kind end at the place i.
Row(outcomes, i, ok, length) ==
    length <= i /\ \A j \in (i - length + 1)..i : outcomes[j] = ok

\* The places at which a threshold was reached.
Decisive(outcomes, i, s) ==
    Row(outcomes, i, TRUE, s.successThreshold) \/ Row(outcomes, i, FALSE, s.failureThreshold)
Ends(outcomes, s) == {i \in 1..Len(outcomes) : Decisive(outcomes, i, s)}

\* The row of outcomes of a kind at the end has exactly this length.
RowAtEnd(outcomes, ok, count) ==
    /\ count \in 0..Len(outcomes)
    /\ \A j \in (Len(outcomes) - count + 1)..Len(outcomes) : outcomes[j] = ok
    /\ count # Len(outcomes) => outcomes[Len(outcomes) - count] # ok

\* The status a series of outcomes means is decided at the last of its ends.
LEMMA StatusIsLastEnd ==
  ASSUME NEW o \in Seq(BOOLEAN), NEW s
  PROVE  /\ Ends(o, s) = {} => StatusAfter(o, s) = "unknown"
         /\ \A e \in Ends(o, s) : (\A i \in Ends(o, s) : i <= e) =>
              StatusAfter(o, s) = IF Row(o, e, TRUE, s.successThreshold) THEN "healthy" ELSE "unhealthy"
<1>1. StatusAfter(o, s) =
        IF Ends(o, s) = {} THEN "unknown"
        ELSE IF Row(o, CHOOSE i \in Ends(o, s) : \A j \in Ends(o, s) : j <= i, TRUE, s.successThreshold)
             THEN "healthy" ELSE "unhealthy"
  BY DEF StatusAfter, Ends, Decisive, Row
<1>2. ASSUME NEW e \in Ends(o, s), \A i \in Ends(o, s) : i <= e
      PROVE  (CHOOSE i \in Ends(o, s) : \A j \in Ends(o, s) : j <= i) = e
  <2>1. Ends(o, s) \subseteq Int
    BY DEF Ends
  <2>2. ASSUME NEW d \in Ends(o, s), \A i \in Ends(o, s) : i <= d
        PROVE  d = e
    BY <1>2, <2>1, <2>2
  <2> DEFINE last == CHOOSE i \in Ends(o, s) : \A j \in Ends(o, s) : j <= i
  <2>3. last \in Ends(o, s) /\ \A j \in Ends(o, s) : j <= last
    BY <1>2
  <2> HIDE DEF last
  <2>4. last = e
    BY <2>2, <2>3
  <2>5. QED
    BY <2>4 DEF last
<1>3. QED
  BY <1>1, <1>2

\* A series that has an end has a last one.
LEMMA LastEnd ==
  ASSUME NEW o \in Seq(BOOLEAN), NEW s, Ends(o, s) # {}
  PROVE  \E e \in Ends(o, s) : \A i \in Ends(o, s) : i <= e
<1> DEFINE E == Ends(o, s)
           R == {Len(o) - i : i \in E}
<1>1. Len(o) \in Nat /\ E \subseteq 1..Len(o)
  BY LenProperties DEF Ends
<1> HIDE DEF E
<1>2. R \in SUBSET Nat /\ R # {}
  BY <1>1 DEF E
<1>3. PICK x \in R : \A y \in R : x <= y
  <2> HIDE DEF R
  <2>1. QED
    BY <1>2, LeastElement
<1>4. PICK e \in E : x = Len(o) - e
  BY <1>3
<1>5. ASSUME NEW i \in E
      PROVE  i <= e
  <2>1. Len(o) - e <= Len(o) - i
    BY <1>3, <1>4
  <2>2. QED
    BY <1>1, <1>4, <2>1
<1>6. QED
  BY <1>4, <1>5 DEF E

\* One more outcome changes nothing about the places before it.
LEMMA EarlierRows ==
  ASSUME NEW o \in Seq(BOOLEAN), NEW ok \in BOOLEAN, NEW i \in 1..Len(o), NEW kind \in BOOLEAN,
         NEW length \in Nat
  PROVE  Row(Append(o, ok), i, kind, length) <=> Row(o, i, kind, length)
<1>1. Len(o) \in Nat /\ \A j \in 1..Len(o) : Append(o, ok)[j] = o[j]
  BY AppendProperties, LenProperties
<1>2. \A j \in (i - length + 1)..i : length <= i => j \in 1..Len(o)
  BY <1>1
<1>3. QED
  BY <1>1, <1>2 DEF Row

\* The row at the end of a series, after one more outcome.
LEMMA RowGrows ==
  ASSUME NEW o \in Seq(BOOLEAN), NEW ok \in BOOLEAN, NEW kind \in BOOLEAN, NEW count,
         RowAtEnd(o, kind, count)
  PROVE  RowAtEnd(Append(o, ok), kind, IF ok = kind THEN count + 1 ELSE 0)
<1> DEFINE p == Append(o, ok)
           n == Len(o)
<1>1. /\ n \in Nat /\ p \in Seq(BOOLEAN) /\ Len(p) = n + 1 /\ p[n + 1] = ok
      /\ \A j \in 1..n : p[j] = o[j]
  BY AppendProperties, LenProperties
<1>2. /\ count \in 0..n /\ \A j \in (n - count + 1)..n : o[j] = kind
      /\ count # n => o[n - count] # kind
  BY DEF RowAtEnd
<1> HIDE DEF p, n
<1>3. CASE ok = kind
  <2>1. count + 1 \in 0..(n + 1) /\ (n + 1) - (count + 1) = n - count
    BY <1>1, <1>2
  <2>2. ASSUME NEW j \in (n - count + 1)..(n + 1)
        PROVE  p[j] = kind
    <3>1. j = n + 1 \/ (j \in 1..n /\ j \in (n - count + 1)..n)
      BY <1>1, <1>2
    <3>2. QED
      BY <1>1, <1>2, <1>3, <3>1
  <2>3. ASSUME count + 1 # n + 1
        PROVE  p[n - count] # kind
    <3>1. n - count \in 1..n /\ count # n
      BY <1>1, <1>2, <2>3
    <3>2. QED
      BY <1>1, <1>2, <3>1
  <2>4. RowAtEnd(p, kind, count + 1)
    BY <1>1, <2>1, <2>2, <2>3 DEF RowAtEnd
  <2>5. QED
    BY <1>3, <2>4 DEF p
<1>4. CASE ok # kind
  <2>1. /\ 0 \in 0..(n + 1) /\ (n + 1) - 0 = n + 1 /\ ((n + 1) - 0) + 1 = n + 2
        /\ (n + 2)..(n + 1) = {}
    BY <1>1
  <2>2. RowAtEnd(p, kind, 0)
    BY <1>1, <1>4, <2>1 DEF RowAtEnd
  <2>3. QED
    BY <1>4, <2>2 DEF p
<1>5. QED
  BY <1>3, <1>4

\* A threshold is reached at the end exactly if the row there is long enough.
LEMMA RowReaches ==
  ASSUME NEW o \in Seq(BOOLEAN), NEW kind \in BOOLEAN, NEW count, RowAtEnd(o, kind, count),
         NEW length \in Nat
  PROVE  Row(o, Len(o), kind, length) <=> length <= count
<1> DEFINE n == Len(o)
<1>1. n \in Nat
  BY LenProperties
<1>2. /\ count \in 0..n /\ \A j \in (n - count + 1)..n : o[j] = kind
      /\ count # n => o[n - count] # kind
  BY DEF RowAtEnd
<1> HIDE DEF n
<1>3. ASSUME length <= count
      PROVE  Row(o, n, kind, length)
  <2>1. length <= n /\ \A j \in (n - length + 1)..n : j \in (n - count + 1)..n
    BY <1>1, <1>2, <1>3
  <2>2. QED
    BY <1>2, <2>1 DEF Row
<1>4. ASSUME Row(o, n, kind, length), ~(length <= count)
      PROVE  FALSE
  <2>1. length <= n
    BY <1>4 DEF Row
  <2>2. count # n /\ n - count \in (n - length + 1)..n
    BY <1>1, <1>2, <1>4, <2>1
  <2>3. QED
    BY <1>2, <1>4, <2>2 DEF Row
<1>5. QED
  BY <1>3, <1>4 DEF n

\* After one more check the counters are again the rows at the end, and the status what they mean.
LEMMA Judged ==
  ASSUME NEW o \in Seq(BOOLEAN), NEW ok \in BOOLEAN, NEW s \in HealthSettings, NEW old \in Counters,
         RowAtEnd(o, TRUE, old.successes), RowAtEnd(o, FALSE, old.failures),
         old.status = StatusAfter(o, s)
  PROVE  /\ RowAtEnd(Append(o, ok), TRUE, afterCheck(s, old, ok).successes)
         /\ RowAtEnd(Append(o, ok), FALSE, afterCheck(s, old, ok).failures)
         /\ afterCheck(s, old, ok).status = StatusAfter(Append(o, ok), s)
<1> DEFINE p == Append(o, ok)
           n == Len(o)
           new == afterCheck(s, old, ok)
<1>1. /\ n \in Nat /\ p \in Seq(BOOLEAN) /\ Len(p) = n + 1
      /\ s.successThreshold \in Nat \ {0} /\ s.failureThreshold \in Nat \ {0}
      /\ old.successes \in Nat /\ old.failures \in Nat
  <2>1. n \in Nat /\ p \in Seq(BOOLEAN) /\ Len(p) = n + 1
    BY AppendProperties, LenProperties
  <2>2. s.successThreshold \in Nat \ {0} /\ s.failureThreshold \in Nat \ {0}
    BY SettingsAreRunnable DEF CompleteSettings, Runnable
  <2>3. QED
    BY <2>1, <2>2 DEF Counters
<1>2. /\ new.successes = IF ok = TRUE THEN old.successes + 1 ELSE 0
      /\ new.failures = IF ok = FALSE THEN old.failures + 1 ELSE 0
      /\ new.status = IF ok THEN IF old.successes + 1 >= s.successThreshold THEN "healthy" ELSE old.status
                      ELSE IF old.failures + 1 >= s.failureThreshold THEN "unhealthy" ELSE old.status
  BY DEF afterCheck
<1> HIDE DEF new
<1>3. RowAtEnd(p, TRUE, new.successes)
  <2>1. RowAtEnd(p, TRUE, IF ok = TRUE THEN old.successes + 1 ELSE 0)
    BY RowGrows
  <2>2. QED
    BY <1>2, <2>1
<1>4. RowAtEnd(p, FALSE, new.failures)
  <2>1. RowAtEnd(p, FALSE, IF ok = FALSE THEN old.failures + 1 ELSE 0)
    BY RowGrows
  <2>2. QED
    BY <1>2, <2>1
<1>5. \A i \in 1..n : /\ Row(p, i, TRUE, s.successThreshold) <=> Row(o, i, TRUE, s.successThreshold)
                      /\ Row(p, i, FALSE, s.failureThreshold) <=> Row(o, i, FALSE, s.failureThreshold)
  BY <1>1, EarlierRows
<1> HIDE DEF p, n
<1>6. /\ Row(p, n + 1, TRUE, s.successThreshold) <=> s.successThreshold <= new.successes
      /\ Row(p, n + 1, FALSE, s.failureThreshold) <=> s.failureThreshold <= new.failures
  BY <1>1, <1>3, <1>4, RowReaches
<1>7. CASE Decisive(p, n + 1, s)
  <2>1. n + 1 \in Ends(p, s) /\ \A i \in Ends(p, s) : i <= n + 1
    BY <1>1, <1>7 DEF Ends
  <2>2. StatusAfter(p, s) = IF Row(p, n + 1, TRUE, s.successThreshold) THEN "healthy" ELSE "unhealthy"
    BY <1>1, <2>1, StatusIsLastEnd
  <2>3. s.successThreshold <= new.successes \/ s.failureThreshold <= new.failures
    BY <1>6, <1>7 DEF Decisive
  <2>4. new.status = StatusAfter(p, s)
    <3>1. CASE ok = TRUE
      <4>1. new.successes = old.successes + 1 /\ new.failures = 0
        BY <1>2, <3>1
      <4>2. s.successThreshold <= old.successes + 1
        BY <1>1, <2>3, <4>1
      <4>3. StatusAfter(p, s) = "healthy"
        BY <1>6, <2>2, <4>1, <4>2
      <4>4. new.status = "healthy"
        BY <1>1, <1>2, <3>1, <4>2
      <4>5. QED
        BY <4>3, <4>4
    <3>2. CASE ok = FALSE
      <4>1. new.successes = 0 /\ new.failures = old.failures + 1
        BY <1>2, <3>2
      <4>2. s.failureThreshold <= old.failures + 1 /\ ~(s.successThreshold <= new.successes)
        BY <1>1, <2>3, <4>1
      <4>3. StatusAfter(p, s) = "unhealthy"
        BY <1>6, <2>2, <4>2
      <4>4. new.status = "unhealthy"
        BY <1>1, <1>2, <3>2, <4>2
      <4>5. QED
        BY <4>3, <4>4
    <3>3. QED
      BY <3>1, <3>2
  <2>5. QED
    BY <1>3, <1>4, <2>4 DEF p, new
<1>8. CASE ~Decisive(p, n + 1, s)
  <2>1. ~(s.successThreshold <= new.successes) /\ ~(s.failureThreshold <= new.failures)
    BY <1>6, <1>8 DEF Decisive
  <2>2. new.status = old.status
    BY <1>1, <1>2, <2>1
  <2>3. Ends(p, s) = Ends(o, s)
    <3>1. \A i \in 1..n : Decisive(p, i, s) <=> Decisive(o, i, s)
      BY <1>5 DEF Decisive
    <3>2. \A i \in 1..(n + 1) : i \in 1..n \/ i = n + 1
      BY <1>1
    <3>3. \A i \in 1..n : i \in 1..(n + 1)
      BY <1>1
    <3>4. Ends(p, s) = {i \in 1..(n + 1) : Decisive(p, i, s)} /\ Ends(o, s) = {i \in 1..n : Decisive(o, i, s)}
      BY <1>1 DEF Ends, n
    <3>5. QED
      BY <1>8, <3>1, <3>2, <3>3, <3>4
  <2>4. StatusAfter(p, s) = StatusAfter(o, s)
    <3>1. CASE Ends(o, s) = {}
      BY <1>1, <2>3, <3>1, StatusIsLastEnd
    <3>2. CASE Ends(o, s) # {}
      <4>1. PICK e \in Ends(o, s) : \A i \in Ends(o, s) : i <= e
        BY <3>2, LastEnd
      <4>2. e \in 1..n
        BY DEF Ends, n
      <4>3. StatusAfter(o, s) = IF Row(o, e, TRUE, s.successThreshold) THEN "healthy" ELSE "unhealthy"
        BY <4>1, StatusIsLastEnd
      <4>4. StatusAfter(p, s) = IF Row(p, e, TRUE, s.successThreshold) THEN "healthy" ELSE "unhealthy"
        BY <1>1, <2>3, <4>1, StatusIsLastEnd
      <4>5. QED
        BY <1>5, <4>2, <4>3, <4>4
    <3>3. QED
      BY <3>1, <3>2
  <2>5. QED
    BY <1>3, <1>4, <2>2, <2>4 DEF p, new
<1>9. QED
  BY <1>7, <1>8

\* Before its first check a loop has counted nothing and knows nothing.
LEMMA Unjudged ==
  ASSUME NEW s
  PROVE  /\ <<>> \in Seq(BOOLEAN)
         /\ RowAtEnd(<<>>, TRUE, 0) /\ RowAtEnd(<<>>, FALSE, 0)
         /\ StatusAfter(<<>>, s) = "unknown"
<1>1. <<>> \in Seq(BOOLEAN) /\ Len(<<>>) = 0
  OBVIOUS
<1>2. Ends(<<>>, s) = {}
  BY <1>1 DEF Ends
<1>3. StatusAfter(<<>>, s) = "unknown"
  BY <1>1, <1>2, StatusIsLastEnd
<1>4. RowAtEnd(<<>>, TRUE, 0) /\ RowAtEnd(<<>>, FALSE, 0)
  BY <1>1 DEF RowAtEnd
<1>5. QED
  BY <1>1, <1>3, <1>4

\* The failures at the end, without counting them one by one.
LEMMA RowIsFailuresInRow ==
  ASSUME NEW o \in Seq(BOOLEAN), NEW count, RowAtEnd(o, FALSE, count)
  PROVE  FailuresInRow(o) = count
<1> DEFINE n == Len(o)
           Before(i) == /\ i = 0 \/ o[i]
                        /\ \A j \in (i + 1)..n : ~o[j]
           start == CHOOSE i \in 0..n : Before(i)
<1>1. n \in Nat /\ \A j \in 1..n : o[j] \in BOOLEAN
  BY LenProperties
<1>2. /\ count \in 0..n /\ \A j \in (n - count + 1)..n : o[j] = FALSE
      /\ count # n => o[n - count] # FALSE
  BY DEF RowAtEnd
<1>3. FailuresInRow(o) = n - start
  BY DEF FailuresInRow
<1> HIDE DEF n
<1>4. n - count \in 0..n /\ Before(n - count)
  <2>1. n - count \in 0..n /\ (n - count = 0 \/ n - count \in 1..n)
    BY <1>1, <1>2
  <2>2. n - count = 0 \/ o[n - count]
    <3>1. CASE n - count \in 1..n
      <4>1. o[n - count] \in BOOLEAN
        BY <1>1, <3>1
      <4>2. count # n
        BY <1>1, <1>2, <3>1
      <4>3. o[n - count] # FALSE
        BY <1>2, <4>2
      <4>4. QED
        BY <4>1, <4>3
    <3>2. QED
      BY <2>1, <3>1
  <2>3. \A j \in ((n - count) + 1)..n : ~o[j]
    BY <1>2
  <2>4. QED
    BY <2>1, <2>2, <2>3
<1>5. ASSUME NEW a \in 0..n, NEW b \in 0..n, Before(a), Before(b), a < b
      PROVE  FALSE
  <2>1. b \in (a + 1)..n /\ b # 0
    BY <1>1, <1>5
  <2>2. QED
    BY <1>5, <2>1
<1>6. start \in 0..n /\ Before(start)
  BY <1>4
<1> HIDE DEF start, Before
<1>7. start = n - count
  BY <1>1, <1>4, <1>5, <1>6
<1>8. QED
  BY <1>1, <1>2, <1>3, <1>7

-----------------------------------------------------------------------------
(* How long a loop waits                                                   *)

\* The doublings after so many failures.
Rounds(s, failures) ==
    IF failures >= s.failureThreshold THEN failures - s.failureThreshold + 1 ELSE 0

\* The equation that defines the growth of nextInterval, and its solution.
Grow(s, rounds, grown) ==
    [n \in 0..rounds |->
        IF n = 0 THEN s.interval
        ELSE IF grown[n - 1] >= s.maxBackoff \div 2 THEN s.maxBackoff ELSE grown[n - 1] * 2]
Waited(s, n) ==
    IF n = 0 THEN s.interval
    ELSE IF s.interval * 2^n < s.maxBackoff - 1 THEN s.interval * 2^n ELSE s.maxBackoff

\* The fields of settings that can be run with.
LEMMA SettingTypes ==
  ASSUME NEW s \in HealthSettings
  PROVE  /\ s.interval \in Nat \ {0} /\ s.maxBackoff \in Nat /\ s.interval <= s.maxBackoff
         /\ s.jitter \in Nat /\ s.failureThreshold \in Nat \ {0}
BY SettingsAreRunnable DEF CompleteSettings, Runnable

\* Half of the maximum, rounded down.
LEMMA Half ==
  ASSUME NEW m \in Nat, NEW a \in Nat
  PROVE  a >= m \div 2 <=> ~(2 * a < m - 1)
<1> DEFINE h == m \div 2
           b == m % 2
<1>1. m = (2 * h) + b /\ b \in 0..1 /\ h \in Nat
  BY DivisionWithRemainder
<1> HIDE DEF h, b
<1>2. a >= h <=> ~(2 * a < m - 1)
  BY <1>1
<1>3. QED
  BY <1>2 DEF h

\* One doubling more.
LEMMA WaitedTwice ==
  ASSUME NEW s \in HealthSettings, NEW n \in Nat
  PROVE  /\ Waited(s, n) \in Nat
         /\ Waited(s, n + 1) = IF Waited(s, n) >= s.maxBackoff \div 2 THEN s.maxBackoff
                               ELSE Waited(s, n) * 2
<1> DEFINE i == s.interval
           m == s.maxBackoff
           power == 2^n
           a == i * power
<1>1. i \in Nat \ {0} /\ m \in Nat /\ i <= m
  BY SettingTypes
<1>2. power \in Nat \ {0} /\ 2^(n + 1) = 2 * power
  BY PowersOfTwo
<1> HIDE DEF i, m, power
<1>3. a \in Nat /\ i * (2 * power) = 2 * a
  BY <1>1, <1>2
<1> HIDE DEF a
<1>4. i * 2^(n + 1) = 2 * a
  BY <1>2, <1>3
<1>5. Waited(s, n + 1) = IF 2 * a < m - 1 THEN 2 * a ELSE m
  BY <1>4 DEF Waited, i, m
<1>6. Waited(s, n) = IF n = 0 THEN i ELSE IF a < m - 1 THEN a ELSE m
  BY DEF Waited, i, m, a, power
<1>7. n = 0 => a = i
  BY <1>1, PowersOfTwo DEF a, power
<1>8. Waited(s, n) \in Nat
  BY <1>1, <1>3, <1>6
<1>9. Waited(s, n) >= m \div 2 <=> ~(2 * Waited(s, n) < m - 1)
  BY <1>1, <1>8, Half
<1>10. CASE Waited(s, n) = a
  BY <1>3, <1>5, <1>8, <1>9, <1>10 DEF m
<1>11. CASE Waited(s, n) # a
  <2>1. Waited(s, n) = m /\ ~(a < m - 1)
    BY <1>6, <1>7, <1>11
  <2>2. ~(2 * a < m - 1) /\ ~(2 * m < m - 1)
    BY <1>1, <1>3, <2>1
  <2>3. QED
    BY <1>5, <1>8, <1>9, <2>1, <2>2 DEF m
<1>12. QED
  BY <1>10, <1>11

\* The recursion has a solution, and only one.
LEMMA GrowthIsWaited ==
  ASSUME NEW s \in HealthSettings, NEW rounds \in Nat
  PROVE  (CHOOSE grown : grown = Grow(s, rounds, grown))[rounds] = Waited(s, rounds)
<1> DEFINE solution == [n \in 0..rounds |-> Waited(s, n)]
           grown == CHOOSE g : g = Grow(s, rounds, g)
<1>1. ASSUME NEW n \in 0..rounds, n # 0
      PROVE  /\ n - 1 \in 0..rounds
             /\ Waited(s, n) = IF Waited(s, n - 1) >= s.maxBackoff \div 2 THEN s.maxBackoff
                               ELSE Waited(s, n - 1) * 2
  <2>1. n - 1 \in Nat /\ n - 1 \in 0..rounds /\ (n - 1) + 1 = n
    BY <1>1
  <2>2. QED
    BY <2>1, WaitedTwice
<1>2. solution = Grow(s, rounds, solution)
  <2>1. ASSUME NEW n \in 0..rounds
        PROVE  solution[n] = Grow(s, rounds, solution)[n]
    <3>1. CASE n = 0
      BY <3>1 DEF Grow, Waited
    <3>2. CASE n # 0
      BY <1>1, <3>2 DEF Grow
    <3>3. QED
      BY <3>1, <3>2
  <2>2. QED
    BY <2>1 DEF Grow
<1> HIDE DEF solution
<1>3. grown = Grow(s, rounds, grown)
  BY <1>2
<1> HIDE DEF grown
<1>4. Nat \subseteq {n \in Nat : n <= rounds => grown[n] = Waited(s, n)}
  <2> DEFINE T == {n \in Nat : n <= rounds => grown[n] = Waited(s, n)}
  <2>1. 0 \in T
    <3>1. grown[0] = s.interval
      BY <1>3 DEF Grow
    <3>2. QED
      BY <3>1 DEF Waited
  <2>2. ASSUME NEW n \in Nat, n \in T
        PROVE  n + 1 \in T
    <3>1. SUFFICES ASSUME n + 1 <= rounds
                   PROVE  grown[n + 1] = Waited(s, n + 1)
      OBVIOUS
    <3>2. grown[n] = Waited(s, n) /\ n + 1 \in 0..rounds /\ n + 1 # 0 /\ (n + 1) - 1 = n
      BY <2>2, <3>1
    <3>3. grown[n + 1] = IF grown[n] >= s.maxBackoff \div 2 THEN s.maxBackoff ELSE grown[n] * 2
      BY <1>3, <3>2 DEF Grow
    <3>4. QED
      BY <3>2, <3>3, WaitedTwice
  <2> HIDE DEF T
  <2>3. QED
    BY <2>1, <2>2, SetInduction DEF T
<1>5. grown[rounds] = Waited(s, rounds)
  BY <1>4
<1>6. QED
  BY <1>5 DEF grown

\* What nextInterval returns, without recursion.
LEMMA NextIntervalIs ==
  ASSUME NEW s \in HealthSettings, NEW failures \in Nat, NEW jitter \in Nat
  PROVE  /\ nextInterval(s, jitter, failures) = Waited(s, Rounds(s, failures)) + jitter
         /\ nextInterval(s, jitter, failures) \in Nat
<1> DEFINE rounds == Rounds(s, failures)
           grown == CHOOSE g : g = Grow(s, rounds, g)
<1>1. nextInterval(s, jitter, failures) =
        (IF grown[rounds] > s.maxBackoff THEN s.maxBackoff ELSE grown[rounds]) + jitter
  BY DEF nextInterval, Grow, Rounds
<1>2. rounds \in Nat
  BY SettingTypes DEF Rounds
<1> HIDE DEF rounds
<1>3. grown[rounds] = Waited(s, rounds)
  BY <1>2, GrowthIsWaited
<1> HIDE DEF grown
<1>4. Waited(s, rounds) \in Nat
  BY <1>2, WaitedTwice
<1>5. ~(Waited(s, rounds) > s.maxBackoff)
  <2>1. s.interval \in Nat /\ s.maxBackoff \in Nat /\ s.interval <= s.maxBackoff
    BY SettingTypes
  <2>2. \/ Waited(s, rounds) = s.interval \/ Waited(s, rounds) = s.maxBackoff
        \/ Waited(s, rounds) < s.maxBackoff - 1
    BY DEF Waited
  <2>3. QED
    BY <1>4, <2>1, <2>2
<1>6. QED
  BY <1>1, <1>3, <1>4, <1>5 DEF rounds

\* A key's offset is below the jitter.
LEMMA JitterTypes ==
  ASSUME NEW k \in Keys, NEW s \in HealthSettings
  PROVE  jitterFor(Hash[k], s.jitter) \in 0..(IF s.jitter = 0 THEN 0 ELSE s.jitter - 1)
<1>1. Hash[k] \in Nat /\ s.jitter \in Nat
  BY HashesAreNat, SettingTypes
<1>2. CASE s.jitter = 0
  BY <1>2 DEF jitterFor
<1>3. CASE s.jitter # 0
  <2>1. Hash[k] % s.jitter \in 0..(s.jitter - 1)
    BY <1>1, <1>3, DivisionWithRemainder
  <2>2. QED
    BY <1>1, <1>3, <2>1 DEF jitterFor
<1>4. QED
  BY <1>2, <1>3

-----------------------------------------------------------------------------
(* One lemma per part, one step per action                                 *)

\* A check leaves counters and a status.
LEMMA CounterTypes ==
  ASSUME NEW s, NEW old \in Counters, NEW ok \in BOOLEAN
  PROVE  afterCheck(s, old, ok) \in Counters
  BY DEF afterCheck, Counters, Statuses

\* A new target has a generation nobody has used.
LEMMA Created ==
  ASSUME IInv, NEW n \in Notifiers, NEW k \in Keys, Create(n, k), NEW g, g = generation + 1
  PROVE  /\ g \in Generations /\ g \in Nat /\ g # 0 /\ generation' = g
         /\ pc[n] = "locked" /\ mu = n /\ k \in Missing(n) /\ targets[k] = 0
         /\ desired[n][k] \in HealthSettings /\ desired[n][k] # None
         /\ targets' = [targets EXCEPT ![k] = g]
         /\ settings' = [settings EXCEPT ![g] = desired[n][k]]
         /\ keyOf' = [keyOf EXCEPT ![g] = k]
         /\ loop' = [loop EXCEPT ![g] = "sleeping"]
         /\ UNCHANGED <<pc, desired, toCancel, mu, maxIdleConns, cancelled>>
         /\ loop[g] = "none" /\ ~ToBeCancelled(g)
         /\ \A q \in Keys : targets[q] # g
<1>1. g \in Generations /\ generation \in Nat
  BY GenerationLeft, Sizes DEF IInv, Types
<1>2. g \in Nat /\ g # 0 /\ g > generation
  BY <1>1, Sizes
<1>3. loop[g] = "none" /\ ~ToBeCancelled(g)
  BY <1>1, <1>2 DEF IInv, Types, FreshInv, ToBeCancelled
<1>4. \A q \in Keys : targets[q] # g
  BY <1>1, <1>2 DEF IInv, FreshInv
<1>5. pc[n] = "locked" /\ mu = n /\ k \in Missing(n) /\ targets[k] = 0 /\ desired[n][k] # None
  BY DEF Create, Missing, IInv, LockInv
<1>6. desired[n][k] \in HealthSettings
  BY <1>5 DEF IInv, Types
<1>7. QED
  BY <1>1, <1>2, <1>3, <1>4, <1>5, <1>6 DEF Create, notifierVars

\* Every step keeps the types.
LEMMA TypeStep == IInv /\ [Next]_vars => Types'
<1> SUFFICES ASSUME IInv, [Next]_vars PROVE Types'
  OBVIOUS
<1> USE DEF IInv, Types, notifierVars, managerVars, loopVars
<1>1. ASSUME NEW n \in Notifiers, NEW wanted \in Wanted, Notify(n, wanted)
      PROVE Types'
  BY <1>1, WantedAreTargets DEF Notify
<1>2. ASSUME NEW n \in Notifiers, Lock(n)
      PROVE Types'
  BY <1>2 DEF Lock
<1>3. ASSUME NEW n \in Notifiers, NEW k \in Keys, Drop(n, k)
      PROVE Types'
  <2>1. toCancel[n] \cup {targets[k]} \in SUBSET Generations
    BY <1>3 DEF Drop, Outdated
  <2>2. toCancel' \in [Notifiers -> SUBSET Generations]
    BY <1>3, <2>1 DEF Drop
  <2>3. QED
    BY <1>3, <2>2 DEF Drop
<1>4. ASSUME NEW n \in Notifiers, NEW k \in Keys, Create(n, k)
      PROVE Types'
  <2>1. generation + 1 \in Generations
    BY <1>4, GenerationLeft
  <2>2. [status |-> "unknown", failures |-> 0, successes |-> 0, generation |-> generation + 1]
            \in Record
    BY <2>1 DEF Record, Statuses
  <2>3. QED
    BY <1>4, <2>1, <2>2 DEF Create, Missing
<1>5. ASSUME NEW n \in Notifiers, Unlock(n)
      PROVE Types'
  <2>1. maxIdleConns' \in Nat
    BY <1>5, CountedAreFinite DEF Unlock, clientFor, Targeted
  <2>2. QED
    BY <1>5, <2>1 DEF Unlock
<1>6. ASSUME NEW n \in Notifiers, NEW g \in toCancel[n], Cancel(n, g)
      PROVE Types'
  BY <1>6 DEF Cancel
<1>7. ASSUME NEW n \in Notifiers, Return(n)
      PROVE Types'
  BY <1>7 DEF Return
<1>8. ASSUME NEW g \in Generations, NEW ok \in BOOLEAN, Check(g, ok)
      PROVE Types'
  BY <1>8, CounterTypes DEF Check
<1>9. ASSUME NEW g \in Generations, SetStatus(g)
      PROVE Types'
  <2>1. [status |-> counters[g].status, failures |-> counters[g].failures,
         successes |-> counters[g].successes, generation |-> g] \in Record
    BY DEF Record, Counters
  <2>2. records' \in [Keys -> Record \cup {None}]
    BY <1>9, <2>1 DEF SetStatus
  <2>3. QED
    BY <1>9, <2>2 DEF SetStatus
<1>10. ASSUME NEW g \in Generations, End(g)
      PROVE Types'
  BY <1>10 DEF End, Fresh, Counters, Statuses
<1>11. CASE UNCHANGED vars
  BY <1>11 DEF vars
<1>12. QED
  BY <1>1, <1>2, <1>3, <1>4, <1>5, <1>6, <1>7, <1>8, <1>9, <1>10, <1>11
  DEF Next, ReconcileStep, LoopStep

\* The lock is held by the delivery between its first step and its unlock.
LEMMA LockStep == IInv /\ [Next]_vars => LockInv'
<1> SUFFICES ASSUME IInv, [Next]_vars PROVE LockInv'
  OBVIOUS
<1> USE NoneIsNoSetting DEF IInv, Types, LockInv, notifierVars, managerVars, loopVars
<1>1. ASSUME NEW n \in Notifiers, NEW wanted \in Wanted, Notify(n, wanted)
      PROVE LockInv'
  BY <1>1 DEF Notify
<1>2. ASSUME NEW n \in Notifiers, Lock(n)
      PROVE LockInv'
  BY <1>2 DEF Lock
<1>3. ASSUME NEW n \in Notifiers, NEW k \in Keys, Drop(n, k)
      PROVE LockInv'
  BY <1>3 DEF Drop
<1>4. ASSUME NEW n \in Notifiers, NEW k \in Keys, Create(n, k)
      PROVE LockInv'
  BY <1>4 DEF Create
<1>5. ASSUME NEW n \in Notifiers, Unlock(n)
      PROVE LockInv'
  BY <1>5 DEF Unlock
<1>6. ASSUME NEW n \in Notifiers, NEW g \in toCancel[n], Cancel(n, g)
      PROVE LockInv'
  BY <1>6 DEF Cancel
<1>7. ASSUME NEW n \in Notifiers, Return(n)
      PROVE LockInv'
  BY <1>7 DEF Return
<1>8. ASSUME NEW g \in Generations, NEW ok \in BOOLEAN, Check(g, ok)
      PROVE LockInv'
  BY <1>8 DEF Check
<1>9. ASSUME NEW g \in Generations, SetStatus(g)
      PROVE LockInv'
  BY <1>9 DEF SetStatus
<1>10. ASSUME NEW g \in Generations, End(g)
      PROVE LockInv'
  BY <1>10 DEF End
<1>11. CASE UNCHANGED vars
  BY <1>11 DEF vars
<1>12. QED
  BY <1>1, <1>2, <1>3, <1>4, <1>5, <1>6, <1>7, <1>8, <1>9, <1>10, <1>11
  DEF Next, ReconcileStep, LoopStep

\* A generation nobody has used yet stays without a past.
LEMMA FreshStep == IInv /\ [Next]_vars => FreshInv'
<1> SUFFICES ASSUME IInv, [Next]_vars PROVE FreshInv'
  OBVIOUS
<1> USE Sizes DEF IInv, Types, FreshInv, notifierVars, managerVars, loopVars
<1>1. ASSUME NEW n \in Notifiers, NEW wanted \in Wanted, Notify(n, wanted)
      PROVE FreshInv'
  BY <1>1 DEF Notify
<1>2. ASSUME NEW n \in Notifiers, Lock(n)
      PROVE FreshInv'
  BY <1>2 DEF Lock
<1>3. ASSUME NEW n \in Notifiers, NEW k \in Keys, Drop(n, k)
      PROVE FreshInv'
  BY <1>3 DEF Drop
<1>4. ASSUME NEW n \in Notifiers, NEW k \in Keys, Create(n, k)
      PROVE FreshInv'
  <2> DEFINE new == generation + 1
  <2>1. /\ new \in Generations /\ generation' = new
        /\ loop' = [loop EXCEPT ![new] = "sleeping"] /\ targets' = [targets EXCEPT ![k] = new]
        /\ UNCHANGED <<cancelled, toCancel>>
    BY <1>4, Created
  <2>2. generation \in Nat /\ \A q \in Keys : targets[q] \in Nat
    <3>1. \A g \in Generations \cup {0} : g \in Nat
      BY Sizes
    <3>2. QED
      BY <3>1
  <2>3. \A q \in Keys : targets'[q] <= generation'
    BY <2>1, <2>2
  <2>4. \A g \in Generations : g <= generation' <=> loop'[g] # "none"
    BY <2>1, <2>2
  <2>5. QED
    BY <2>1, <2>2, <2>3, <2>4
<1>5. ASSUME NEW n \in Notifiers, Unlock(n)
      PROVE FreshInv'
  BY <1>5 DEF Unlock
<1>6. ASSUME NEW n \in Notifiers, NEW g \in toCancel[n], Cancel(n, g)
      PROVE FreshInv'
  BY <1>6 DEF Cancel
<1>7. ASSUME NEW n \in Notifiers, Return(n)
      PROVE FreshInv'
  BY <1>7 DEF Return
<1>8. ASSUME NEW g \in Generations, NEW ok \in BOOLEAN, Check(g, ok)
      PROVE FreshInv'
  BY <1>8 DEF Check
<1>9. ASSUME NEW g \in Generations, SetStatus(g)
      PROVE FreshInv'
  BY <1>9 DEF SetStatus
<1>10. ASSUME NEW g \in Generations, End(g)
      PROVE FreshInv'
  BY <1>10 DEF End
<1>11. CASE UNCHANGED vars
  BY <1>11 DEF vars
<1>12. QED
  BY <1>1, <1>2, <1>3, <1>4, <1>5, <1>6, <1>7, <1>8, <1>9, <1>10, <1>11
  DEF Next, ReconcileStep, LoopStep

\* The loop of a target is alive, under the target's key.
LEMMA LoopStepKeeps == IInv /\ [Next]_vars => LoopInv'
<1> SUFFICES ASSUME IInv, [Next]_vars PROVE LoopInv'
  OBVIOUS
<1> USE Sizes DEF IInv, Types, LoopInv, Alive, notifierVars, managerVars, loopVars
<1>1. ASSUME NEW n \in Notifiers, NEW wanted \in Wanted, Notify(n, wanted)
      PROVE LoopInv'
  BY <1>1 DEF Notify
<1>2. ASSUME NEW n \in Notifiers, Lock(n)
      PROVE LoopInv'
  BY <1>2 DEF Lock
<1>3. ASSUME NEW n \in Notifiers, NEW k \in Keys, Drop(n, k)
      PROVE LoopInv'
  BY <1>3 DEF Drop
<1>4. ASSUME NEW n \in Notifiers, NEW k \in Keys, Create(n, k)
      PROVE LoopInv'
  <2> DEFINE new == generation + 1
  <2>1. /\ new \in Generations /\ loop' = [loop EXCEPT ![new] = "sleeping"]
        /\ targets' = [targets EXCEPT ![k] = new] /\ new # 0
        /\ settings' = [settings EXCEPT ![new] = desired[n][k]]
        /\ keyOf' = [keyOf EXCEPT ![new] = k] /\ desired[n][k] # None
        /\ \A q \in Keys : targets[q] # new
    BY <1>4, Created
  <2>2. \A g \in Generations : Alive(g)' => keyOf'[g] \in Keys /\ settings'[g] # None
    BY <2>1
  <2>3. \A q \in Keys : targets'[q] # 0 =>
            loop'[targets'[q]] \in {"sleeping", "checked"} /\ keyOf'[targets'[q]] = q
    BY <2>1
  <2>4. QED
    BY <2>2, <2>3
<1>5. ASSUME NEW n \in Notifiers, Unlock(n)
      PROVE LoopInv'
  BY <1>5 DEF Unlock
<1>6. ASSUME NEW n \in Notifiers, NEW g \in toCancel[n], Cancel(n, g)
      PROVE LoopInv'
  BY <1>6 DEF Cancel
<1>7. ASSUME NEW n \in Notifiers, Return(n)
      PROVE LoopInv'
  BY <1>7 DEF Return
<1>8. ASSUME NEW g \in Generations, NEW ok \in BOOLEAN, Check(g, ok)
      PROVE LoopInv'
  BY <1>8 DEF Check
<1>9. ASSUME NEW g \in Generations, SetStatus(g)
      PROVE LoopInv'
  BY <1>9 DEF SetStatus
<1>10. ASSUME NEW g \in Generations, End(g)
      PROVE LoopInv'
  BY <1>10 DEF End, CancelInv, ToBeCancelled
<1>11. CASE UNCHANGED vars
  BY <1>11 DEF vars
<1>12. QED
  BY <1>1, <1>2, <1>3, <1>4, <1>5, <1>6, <1>7, <1>8, <1>9, <1>10, <1>11
  DEF Next, ReconcileStep, LoopStep

\* What is cancelled, or about to be, is no target.
LEMMA CancelStep == IInv /\ [Next]_vars => CancelInv'
<1> SUFFICES ASSUME IInv, [Next]_vars PROVE CancelInv'
  OBVIOUS
<1> USE Sizes DEF IInv, Types, CancelInv, Alive, ToBeCancelled, notifierVars, managerVars, loopVars
<1>1. ASSUME NEW n \in Notifiers, NEW wanted \in Wanted, Notify(n, wanted)
      PROVE CancelInv'
  BY <1>1 DEF Notify
<1>2. ASSUME NEW n \in Notifiers, Lock(n)
      PROVE CancelInv'
  BY <1>2 DEF Lock
<1>3. ASSUME NEW n \in Notifiers, NEW k \in Keys, Drop(n, k)
      PROVE CancelInv'
  BY <1>3 DEF Drop, Outdated, LoopInv
<1>4. ASSUME NEW n \in Notifiers, NEW k \in Keys, Create(n, k)
      PROVE CancelInv'
  BY <1>4, Created
<1>5. ASSUME NEW n \in Notifiers, Unlock(n)
      PROVE CancelInv'
  BY <1>5 DEF Unlock
<1>6. ASSUME NEW n \in Notifiers, NEW g \in toCancel[n], Cancel(n, g)
      PROVE CancelInv'
  BY <1>6 DEF Cancel
<1>7. ASSUME NEW n \in Notifiers, Return(n)
      PROVE CancelInv'
  BY <1>7 DEF Return
<1>8. ASSUME NEW g \in Generations, NEW ok \in BOOLEAN, Check(g, ok)
      PROVE CancelInv'
  BY <1>8 DEF Check
<1>9. ASSUME NEW g \in Generations, SetStatus(g)
      PROVE CancelInv'
  BY <1>9 DEF SetStatus
<1>10. ASSUME NEW g \in Generations, End(g)
      PROVE CancelInv'
  BY <1>10 DEF End
<1>11. CASE UNCHANGED vars
  BY <1>11 DEF vars
<1> HIDE DEF IInv, Types, CancelInv, ToBeCancelled
<1>12. QED
  BY <1>1, <1>2, <1>3, <1>4, <1>5, <1>6, <1>7, <1>8, <1>9, <1>10, <1>11
  DEF Next, ReconcileStep, LoopStep

\* Records come and go with the targets.
LEMMA RecordsStep == IInv /\ [Next]_vars => RecordsAreOfTargets'
<1> SUFFICES ASSUME IInv, [Next]_vars PROVE RecordsAreOfTargets'
  OBVIOUS
<1> USE Sizes, NoneIsNoRecord DEF IInv, Types, RecordsAreOfTargets, notifierVars, managerVars, loopVars
<1>1. ASSUME NEW n \in Notifiers, NEW wanted \in Wanted, Notify(n, wanted)
      PROVE RecordsAreOfTargets'
  BY <1>1 DEF Notify
<1>2. ASSUME NEW n \in Notifiers, Lock(n)
      PROVE RecordsAreOfTargets'
  BY <1>2 DEF Lock
<1>3. ASSUME NEW n \in Notifiers, NEW k \in Keys, Drop(n, k)
      PROVE RecordsAreOfTargets'
  BY <1>3 DEF Drop
<1>4. ASSUME NEW n \in Notifiers, NEW k \in Keys, Create(n, k)
      PROVE RecordsAreOfTargets'
  <2> DEFINE new == generation + 1
  <2>1. new \in Nat /\ targets' = [targets EXCEPT ![k] = new] /\ new # 0
    BY <1>4, Created
  <2>2. PICK record \in Record : record.generation = new /\ records' = [records EXCEPT ![k] = record]
    <3>1. [status |-> "unknown", failures |-> 0, successes |-> 0, generation |-> new] \in Record
      BY <1>4, Created DEF Record, Statuses
    <3>2. QED
      BY <1>4, <3>1 DEF Create
  <2>3. QED
    BY <2>1, <2>2
<1>5. ASSUME NEW n \in Notifiers, Unlock(n)
      PROVE RecordsAreOfTargets'
  BY <1>5 DEF Unlock
<1>6. ASSUME NEW n \in Notifiers, NEW g \in toCancel[n], Cancel(n, g)
      PROVE RecordsAreOfTargets'
  BY <1>6 DEF Cancel
<1>7. ASSUME NEW n \in Notifiers, Return(n)
      PROVE RecordsAreOfTargets'
  BY <1>7 DEF Return
<1>8. ASSUME NEW g \in Generations, NEW ok \in BOOLEAN, Check(g, ok)
      PROVE RecordsAreOfTargets'
  BY <1>8 DEF Check
<1>9. ASSUME NEW g \in Generations, SetStatus(g)
      PROVE RecordsAreOfTargets'
  <2>1. CASE UNCHANGED records
    BY <1>9, <2>1 DEF SetStatus
  <2>2. CASE ~UNCHANGED records
    <3>1. PICK record \in Record : /\ record.generation = g
                                  /\ records' = [records EXCEPT ![keyOf[g]] = record]
      <4>1. [status |-> counters[g].status, failures |-> counters[g].failures,
             successes |-> counters[g].successes, generation |-> g] \in Record
        BY DEF Record, Counters
      <4>2. QED
        BY <1>9, <2>2, <4>1 DEF SetStatus
    <3>2. /\ keyOf[g] \in Keys /\ records[keyOf[g]] # None
          /\ records[keyOf[g]].generation = g
      BY <1>9, <2>2 DEF SetStatus, accepts, LoopInv, Alive
    <3>3. targets' = targets
      BY <1>9 DEF SetStatus
    <3>4. QED
      BY <3>1, <3>2, <3>3
  <2>3. QED
    BY <2>1, <2>2
<1>10. ASSUME NEW g \in Generations, End(g)
      PROVE RecordsAreOfTargets'
  BY <1>10 DEF End
<1>11. CASE UNCHANGED vars
  BY <1>11 DEF vars
<1>12. QED
  BY <1>1, <1>2, <1>3, <1>4, <1>5, <1>6, <1>7, <1>8, <1>9, <1>10, <1>11
  DEF Next, ReconcileStep, LoopStep

\* Steps that create nothing leave the count of generations alone.
LEMMA GenerationFrame ==
  ASSUME IInv, generation' = generation, mu' = mu, Delivered' = Delivered,
         mu # None => Satisfied(mu)' = Satisfied(mu)
  PROVE  GenerationInv'
  BY DEF IInv, GenerationInv

\* A delivery creates one generation per key at most.
LEMMA GenerationStep == IInv /\ [Next]_vars => GenerationInv'
<1> SUFFICES ASSUME IInv, [Next]_vars PROVE GenerationInv'
  OBVIOUS
<1> USE NoneIsNoSetting DEF IInv, Types, LockInv, notifierVars, managerVars, loopVars
<1>1. ASSUME NEW n \in Notifiers, NEW wanted \in Wanted, Notify(n, wanted)
      PROVE GenerationInv'
  BY <1>1, GenerationFrame DEF Notify, Delivered, Satisfied
<1>2. ASSUME NEW n \in Notifiers, Lock(n)
      PROVE GenerationInv'
  <2>1. mu = None /\ mu' # None /\ generation' = generation /\ Delivered' = Delivered
    BY <1>2 DEF Lock, Delivered
  <2>2. Cardinality(Satisfied(mu)') \in Nat
    <3>1. Satisfied(mu)' \in SUBSET Keys
      BY DEF Satisfied
    <3>2. QED
      BY <3>1, NotifiersAndKeysFinite, FS_Subset, FS_CardinalityType
  <2>3. Cardinality(Delivered) * Cardinality(Keys) \in Nat /\ generation \in Nat
    BY Sizes, CountedAreFinite, ProductIsNat
  <2>4. generation <= Cardinality(Delivered) * Cardinality(Keys)
    BY <2>1 DEF GenerationInv
  <2>5. generation' <= Cardinality(Delivered)' * Cardinality(Keys) + Cardinality(Satisfied(mu)')
    BY <2>1, <2>2, <2>3, <2>4
  <2>6. QED
    BY <2>1, <2>5 DEF GenerationInv
<1>3. ASSUME NEW n \in Notifiers, NEW k \in Keys, Drop(n, k)
      PROVE GenerationInv'
  <2>1. mu = n /\ mu' = mu /\ generation' = generation /\ Delivered' = Delivered
    BY <1>3 DEF Drop, Delivered
  <2>2. Satisfied(n)' = Satisfied(n)
    BY <1>3 DEF Drop, Outdated, Satisfied
  <2>3. QED
    BY <2>1, <2>2, GenerationFrame
<1>4. ASSUME NEW n \in Notifiers, NEW k \in Keys, Create(n, k)
      PROVE GenerationInv'
  <2>1. /\ mu = n /\ mu' = mu /\ n # None /\ generation' = generation + 1 /\ Delivered' = Delivered
        /\ k \notin Satisfied(n)
    BY <1>4, Created DEF Delivered, Satisfied
  <2>2. Satisfied(n)' = Satisfied(n) \cup {k}
    <3>1. ASSUME NEW q \in Keys, q # k, targets[q] # 0
          PROVE  targets'[q] = targets[q] /\ settings'[targets[q]] = settings[targets[q]]
      BY <1>4, <3>1, Created
    <3>2. \A q \in Keys : q # k => targets'[q] = targets[q]
      BY <1>4, Created
    <3>3. targets'[k] # 0 /\ settings'[targets'[k]] = desired'[n][k] /\ desired' = desired
      BY <1>4, Created
    <3>4. QED
      BY <3>1, <3>2, <3>3 DEF Satisfied
  <2>3. IsFiniteSet(Satisfied(n)) /\ Cardinality(Satisfied(n)) \in Nat
    BY CountedAreFinite
  <2>4. Cardinality(Satisfied(n)') = Cardinality(Satisfied(n)) + 1
    BY <2>1, <2>2, <2>3, FS_AddElement
  <2>5. Cardinality(Delivered) * Cardinality(Keys) \in Nat /\ generation \in Nat
    BY Sizes, CountedAreFinite, ProductIsNat
  <2>6. generation <= Cardinality(Delivered) * Cardinality(Keys) + Cardinality(Satisfied(n))
    BY <2>1 DEF GenerationInv
  <2>7. generation' <= Cardinality(Delivered)' * Cardinality(Keys) + Cardinality(Satisfied(mu)')
    BY <2>1, <2>3, <2>4, <2>5, <2>6
  <2>8. QED
    BY <2>1, <2>7 DEF GenerationInv
<1>5. ASSUME NEW n \in Notifiers, Unlock(n)
      PROVE GenerationInv'
  <2>1. /\ mu = n /\ mu' = None /\ generation' = generation /\ n \notin Delivered
        /\ Delivered' = Delivered \cup {n}
    BY <1>5 DEF Unlock, Delivered
  <2>2. IsFiniteSet(Delivered) /\ Cardinality(Delivered) \in Nat
    BY CountedAreFinite
  <2>3. Cardinality(Delivered') = Cardinality(Delivered) + 1
    BY <2>1, <2>2, FS_AddElement
  <2>4. \A d, c \in Nat : (d + 1) * c = d * c + c /\ d * c \in Nat
    OBVIOUS
  <2>5. generation <= Cardinality(Delivered) * Cardinality(Keys) + Cardinality(Satisfied(n))
    BY <2>1 DEF GenerationInv
  <2>6. generation \in Nat /\ Cardinality(Satisfied(n)) \in Nat /\ Cardinality(Keys) \in Nat
        /\ Cardinality(Satisfied(n)) <= Cardinality(Keys)
    BY Sizes, CountedAreFinite
  <2>7. generation <= (Cardinality(Delivered) + 1) * Cardinality(Keys)
    BY <2>2, <2>4, <2>5, <2>6
  <2>8. QED
    BY <2>1, <2>3, <2>7 DEF GenerationInv
<1>6. ASSUME NEW n \in Notifiers, NEW g \in toCancel[n], Cancel(n, g)
      PROVE GenerationInv'
  BY <1>6, GenerationFrame DEF Cancel, Delivered, Satisfied
<1>7. ASSUME NEW n \in Notifiers, Return(n)
      PROVE GenerationInv'
  BY <1>7, GenerationFrame DEF Return, Delivered, Satisfied
<1>8. ASSUME NEW g \in Generations, NEW ok \in BOOLEAN, Check(g, ok)
      PROVE GenerationInv'
  BY <1>8, GenerationFrame DEF Check, Delivered, Satisfied
<1>9. ASSUME NEW g \in Generations, SetStatus(g)
      PROVE GenerationInv'
  BY <1>9, GenerationFrame DEF SetStatus, Delivered, Satisfied
<1>10. ASSUME NEW g \in Generations, End(g)
      PROVE GenerationInv'
  <2>1. \A q \in Keys : targets[q] # g
    BY <1>10 DEF End, CancelInv, ToBeCancelled
  <2>2. \A m \in Notifiers : Satisfied(m)' = Satisfied(m)
    BY <1>10, <2>1 DEF End, Satisfied
  <2>3. QED
    BY <1>10, <2>2, GenerationFrame DEF End, Delivered
<1>11. CASE UNCHANGED vars
  BY <1>11, GenerationFrame DEF vars, Delivered, Satisfied
<1>12. QED
  BY <1>1, <1>2, <1>3, <1>4, <1>5, <1>6, <1>7, <1>8, <1>9, <1>10, <1>11
  DEF Next, ReconcileStep, LoopStep

\* A delivery that holds the lock leaves the targets of its snapshot behind.
LEMMA SnapshotStep == IInv /\ [Next]_vars => SnapshotInv'
<1> SUFFICES ASSUME IInv, [Next]_vars PROVE SnapshotInv'
  OBVIOUS
<1> USE NoneIsNoSetting DEF IInv, Types, LockInv, SnapshotInv, notifierVars, managerVars, loopVars
<1>1. ASSUME NEW n \in Notifiers, NEW wanted \in Wanted, Notify(n, wanted)
      PROVE SnapshotInv'
  BY <1>1 DEF Notify, Delivered, Targeted
<1>2. ASSUME NEW n \in Notifiers, Lock(n)
      PROVE SnapshotInv'
  BY <1>2 DEF Lock
<1>3. ASSUME NEW n \in Notifiers, NEW k \in Keys, Drop(n, k)
      PROVE SnapshotInv'
  BY <1>3 DEF Drop
<1>4. ASSUME NEW n \in Notifiers, NEW k \in Keys, Create(n, k)
      PROVE SnapshotInv'
  BY <1>4, Created
<1>5. ASSUME NEW n \in Notifiers, Unlock(n)
      PROVE SnapshotInv'
  <2>1. mu' = None /\ n \in Delivered' /\ UNCHANGED <<desired, targets, settings>>
    BY <1>5 DEF Unlock, Delivered
  <2>2. maxIdleConns' >= Cardinality(Targeted')
    <3>1. maxIdleConns' = clientFor(Cardinality(Targeted)) /\ Targeted' = Targeted
      BY <1>5 DEF Unlock, Targeted
    <3>2. QED
      BY <3>1, CountedAreFinite DEF clientFor
  <2>3. \A k \in Keys : desired[n][k] = IF targets[k] = 0 THEN None ELSE settings[targets[k]]
    BY <1>5 DEF Unlock, Outdated, Missing
  <2>4. QED
    BY <2>1, <2>2, <2>3
<1>6. ASSUME NEW n \in Notifiers, NEW g \in toCancel[n], Cancel(n, g)
      PROVE SnapshotInv'
  BY <1>6 DEF Cancel, Delivered, Targeted
<1>7. ASSUME NEW n \in Notifiers, Return(n)
      PROVE SnapshotInv'
  BY <1>7 DEF Return, Delivered, Targeted
<1>8. ASSUME NEW g \in Generations, NEW ok \in BOOLEAN, Check(g, ok)
      PROVE SnapshotInv'
  BY <1>8 DEF Check, Delivered, Targeted
<1>9. ASSUME NEW g \in Generations, SetStatus(g)
      PROVE SnapshotInv'
  BY <1>9 DEF SetStatus, Delivered, Targeted
<1>10. ASSUME NEW g \in Generations, End(g)
      PROVE SnapshotInv'
  <2>1. \A q \in Keys : targets[q] # g
    BY <1>10 DEF End, CancelInv, ToBeCancelled
  <2>2. UNCHANGED <<mu, maxIdleConns, desired, targets, Delivered, Targeted>>
    BY <1>10 DEF End, Delivered, Targeted
  <2>3. \A q \in Keys : targets[q] # 0 => settings'[targets[q]] = settings[targets[q]]
    BY <1>10, <2>1 DEF End
  <2>4. QED
    BY <2>2, <2>3
<1>11. CASE UNCHANGED vars
  BY <1>11 DEF vars, Delivered, Targeted
<1>12. QED
  BY <1>1, <1>2, <1>3, <1>4, <1>5, <1>6, <1>7, <1>8, <1>9, <1>10, <1>11
  DEF Next, ReconcileStep, LoopStep

-----------------------------------------------------------------------------
(* What the loops have measured: a second invariant, on top of IInv        *)

RunTypes ==
    /\ timer \in [Generations -> Nat]
    /\ results \in [Generations -> Seq(BOOLEAN)]

\* The local variables of a loop are what its checks amount to.
ResultInv ==
    \A g \in Generations :
        /\ loop[g] = "none" => counters[g] = Fresh /\ results[g] = <<>>
        /\ Alive(g) =>
            /\ RowAtEnd(results[g], TRUE, counters[g].successes)
            /\ RowAtEnd(results[g], FALSE, counters[g].failures)
            /\ counters[g].status = StatusAfter(results[g], settings[g])

\* The outcomes stored by a loop that stands somewhere.
StoredAt(place, outcomes) ==
    IF place = "checked" THEN SubSeq(outcomes, 1, Len(outcomes) - 1) ELSE outcomes

\* A timer is set to what the failures so far ask for.
TimerInv ==
    \A g \in Generations :
        loop[g] = "sleeping" => timer[g] = waitOf(keyOf[g], settings[g], counters[g].failures)

RunInv == RunTypes /\ ResultInv /\ TimerInv /\ StatusIsEarned

\* The wait of a loop is a number.
LEMMA WaitTypes ==
  ASSUME NEW k \in Keys, NEW s \in HealthSettings, NEW failures \in Nat
  PROVE  waitOf(k, s, failures) \in Nat
<1>1. jitterFor(Hash[k], s.jitter) \in Nat
  BY JitterTypes, SettingTypes
<1>2. QED
  BY <1>1, NextIntervalIs DEF waitOf

\* A loop that goes on has a key and settings to wait and judge by.
LEMMA AliveTypes ==
  ASSUME IInv, NEW g \in Generations, Alive(g)
  PROVE  /\ keyOf[g] \in Keys /\ settings[g] \in HealthSettings
         /\ counters[g] \in Counters /\ counters[g].failures \in Nat
<1>1. keyOf[g] \in Keys /\ settings[g] \in HealthSettings /\ counters[g] \in Counters
  BY DEF IInv, LoopInv, Types
<1>2. QED
  BY <1>1 DEF Counters

\* A delivery that creates nothing leaves every loop that is a target alone.
LEMMA TargetsKeepLoops ==
  ASSUME IInv, RunInv, loop' = loop, results' = results, settings' = settings,
         \A k \in Keys : targets'[k] = 0 \/ (targets'[k] = targets[k] /\ records'[k] = records[k])
  PROVE  StatusIsEarned'
BY DEF RunInv, StatusIsEarned, Stored

\* Neither what is delivered nor what is dropped or cancelled touches the loops.
LEMMA LoopsUntouched ==
  ASSUME IInv, RunInv, loop' = loop, results' = results, settings' = settings,
         counters' = counters, timer' = timer, keyOf' = keyOf
  PROVE  RunTypes' /\ ResultInv' /\ TimerInv'
BY DEF RunInv, RunTypes, ResultInv, TimerInv, Alive, waitOf

\* A new loop has counted nothing, waits as after a success, and its instance is unknown.
LEMMA CreateKeepsRuns ==
  ASSUME IInv, RunInv, NEW n \in Notifiers, NEW k \in Keys, Create(n, k)
  PROVE  RunInv'
<1> DEFINE new == generation + 1
<1>1. /\ new \in Generations /\ new # 0 /\ loop' = [loop EXCEPT ![new] = "sleeping"]
      /\ targets' = [targets EXCEPT ![k] = new]
      /\ settings' = [settings EXCEPT ![new] = desired[n][k]]
      /\ keyOf' = [keyOf EXCEPT ![new] = k]
      /\ desired[n][k] \in HealthSettings /\ loop[new] = "none"
      /\ \A q \in Keys : targets[q] # new
  BY Created
<1>2. /\ timer' = [timer EXCEPT ![new] = waitOf(k, desired[n][k], 0)]
      /\ records' = [records EXCEPT ![k] =
           [status |-> "unknown", failures |-> 0, successes |-> 0, generation |-> new]]
      /\ counters' = counters /\ results' = results
  BY DEF Create
<1> HIDE DEF new
<1>3. /\ loop \in [Generations -> {"none", "sleeping", "checked", "ended"}]
      /\ settings \in [Generations -> HealthSettings \cup {None}]
      /\ keyOf \in [Generations -> Keys \cup {None}]
      /\ targets \in [Keys -> Generations \cup {0}]
      /\ records \in [Keys -> Record \cup {None}]
      /\ timer \in [Generations -> Nat]
  BY DEF IInv, Types, RunInv, RunTypes
<1>4. counters[new] = Fresh /\ results[new] = <<>>
  BY <1>1 DEF RunInv, ResultInv
<1>5. \A g \in Generations : g # new =>
        loop'[g] = loop[g] /\ settings'[g] = settings[g] /\ keyOf'[g] = keyOf[g] /\ timer'[g] = timer[g]
  BY <1>1, <1>2, <1>3
<1>6. /\ loop'[new] = "sleeping" /\ settings'[new] = desired[n][k] /\ keyOf'[new] = k
      /\ timer'[new] = waitOf(k, desired[n][k], 0)
  BY <1>1, <1>2, <1>3
<1>7. RunTypes'
  <2>1. waitOf(k, desired[n][k], 0) \in Nat
    BY <1>1, WaitTypes
  <2>2. QED
    BY <1>2, <1>3, <2>1 DEF RunInv, RunTypes
<1>8. ResultInv'
  <2> SUFFICES ASSUME NEW g \in Generations
               PROVE  /\ loop'[g] = "none" => counters'[g] = Fresh /\ results'[g] = <<>>
                      /\ Alive(g)' =>
                          /\ RowAtEnd(results'[g], TRUE, counters'[g].successes)
                          /\ RowAtEnd(results'[g], FALSE, counters'[g].failures)
                          /\ counters'[g].status = StatusAfter(results'[g], settings'[g])
    BY DEF ResultInv
  <2>1. CASE g = new
    <3>1. Fresh.status = "unknown" /\ Fresh.successes = 0 /\ Fresh.failures = 0
      BY DEF Fresh
    <3>2. QED
      BY <1>2, <1>4, <1>6, <2>1, <3>1, Unjudged
  <2>2. CASE g # new
    BY <1>2, <1>5, <2>2 DEF RunInv, ResultInv, Alive
  <2>3. QED
    BY <2>1, <2>2
<1>9. TimerInv'
  <2> SUFFICES ASSUME NEW g \in Generations, loop'[g] = "sleeping"
               PROVE  timer'[g] = waitOf(keyOf'[g], settings'[g], counters'[g].failures)
    BY DEF TimerInv, waitOf
  <2>1. CASE g = new
    <3>1. counters'[new].failures = 0
      BY <1>2, <1>4 DEF Fresh
    <3>2. QED
      BY <1>6, <2>1, <3>1
  <2>2. CASE g # new
    BY <1>2, <1>5, <2>2 DEF RunInv, TimerInv
  <2>3. QED
    BY <2>1, <2>2
<1>10. StatusIsEarned'
  <2> SUFFICES ASSUME NEW q \in Keys, targets'[q] # 0
               PROVE  records'[q].status =
                        StatusAfter(StoredAt(loop'[targets'[q]], results'[targets'[q]]), settings'[targets'[q]])
    BY DEF StatusIsEarned, Stored, StoredAt
  <2>1. CASE q = k
    <3>1. targets'[q] = new /\ records'[q].status = "unknown"
      BY <1>1, <1>2, <1>3, <2>1
    <3>2. StoredAt(loop'[new], results'[new]) = <<>>
      BY <1>2, <1>4, <1>6 DEF StoredAt
    <3>3. QED
      BY <3>1, <3>2, Unjudged
  <2>2. CASE q # k
    <3>1. targets'[q] = targets[q] /\ records'[q] = records[q] /\ targets[q] # new
          /\ targets[q] \in Generations
      BY <1>1, <1>2, <1>3, <2>2
    <3>2. loop'[targets[q]] = loop[targets[q]] /\ settings'[targets[q]] = settings[targets[q]]
      BY <1>5, <3>1
    <3>3. records[q].status =
            StatusAfter(StoredAt(loop[targets[q]], results[targets[q]]), settings[targets[q]])
      BY <2>2, <3>1 DEF RunInv, StatusIsEarned, Stored, StoredAt
    <3>4. QED
      BY <1>2, <3>1, <3>2, <3>3
  <2>3. QED
    BY <2>1, <2>2
<1>11. QED
  BY <1>7, <1>8, <1>9, <1>10 DEF RunInv

\* A check counts its outcome; what is stored stays what it was until it is stored again.
LEMMA CheckKeepsRuns ==
  ASSUME IInv, RunInv, NEW g \in Generations, NEW ok \in BOOLEAN, Check(g, ok)
  PROVE  RunInv'
<1>1. /\ loop[g] = "sleeping" /\ loop' = [loop EXCEPT ![g] = "checked"]
      /\ counters' = [counters EXCEPT ![g] = afterCheck(settings[g], counters[g], ok)]
      /\ results' = [results EXCEPT ![g] = Append(results[g], ok)]
      /\ UNCHANGED <<targets, settings, keyOf, records, timer>>
  BY DEF Check, managerVars
<1>2. /\ loop \in [Generations -> {"none", "sleeping", "checked", "ended"}]
      /\ counters \in [Generations -> Counters] /\ results \in [Generations -> Seq(BOOLEAN)]
      /\ targets \in [Keys -> Generations \cup {0}] /\ timer \in [Generations -> Nat]
  BY DEF IInv, Types, RunInv, RunTypes
<1>3. Alive(g) /\ settings[g] \in HealthSettings /\ counters[g] \in Counters /\ results[g] \in Seq(BOOLEAN)
  BY <1>1, <1>2, AliveTypes DEF Alive
<1>4. /\ RowAtEnd(results[g], TRUE, counters[g].successes)
      /\ RowAtEnd(results[g], FALSE, counters[g].failures)
      /\ counters[g].status = StatusAfter(results[g], settings[g])
  BY <1>3 DEF RunInv, ResultInv
<1>5. Append(results[g], ok) \in Seq(BOOLEAN)
  BY <1>3, AppendProperties
<1>6. /\ loop'[g] = "checked" /\ results'[g] = Append(results[g], ok)
      /\ counters'[g] = afterCheck(settings[g], counters[g], ok)
      /\ \A h \in Generations : h # g =>
           loop'[h] = loop[h] /\ results'[h] = results[h] /\ counters'[h] = counters[h]
  BY <1>1, <1>2
<1>7. RunTypes'
  BY <1>1, <1>2, <1>5 DEF RunTypes
<1>8. ResultInv'
  <2> SUFFICES ASSUME NEW h \in Generations
               PROVE  /\ loop'[h] = "none" => counters'[h] = Fresh /\ results'[h] = <<>>
                      /\ Alive(h)' =>
                          /\ RowAtEnd(results'[h], TRUE, counters'[h].successes)
                          /\ RowAtEnd(results'[h], FALSE, counters'[h].failures)
                          /\ counters'[h].status = StatusAfter(results'[h], settings'[h])
    BY DEF ResultInv
  <2>1. CASE h = g
    <3>1. /\ RowAtEnd(Append(results[g], ok), TRUE, afterCheck(settings[g], counters[g], ok).successes)
          /\ RowAtEnd(Append(results[g], ok), FALSE, afterCheck(settings[g], counters[g], ok).failures)
          /\ afterCheck(settings[g], counters[g], ok).status =
               StatusAfter(Append(results[g], ok), settings[g])
      BY <1>3, <1>4, Judged
    <3>2. settings'[g] = settings[g] /\ loop'[g] # "none"
      BY <1>1, <1>6
    <3>3. QED
      BY <1>6, <2>1, <3>1, <3>2
  <2>2. CASE h # g
    BY <1>1, <1>6, <2>2 DEF RunInv, ResultInv, Alive
  <2>3. QED
    BY <2>1, <2>2
<1>9. TimerInv'
  <2> SUFFICES ASSUME NEW h \in Generations, loop'[h] = "sleeping"
               PROVE  timer'[h] = waitOf(keyOf'[h], settings'[h], counters'[h].failures)
    BY DEF TimerInv, waitOf
  <2>1. QED
    BY <1>1, <1>6 DEF RunInv, TimerInv
<1>10. StatusIsEarned'
  <2> SUFFICES ASSUME NEW q \in Keys, targets'[q] # 0
               PROVE  records'[q].status =
                        StatusAfter(StoredAt(loop'[targets'[q]], results'[targets'[q]]), settings'[targets'[q]])
    BY DEF StatusIsEarned, Stored, StoredAt
  <2>1. targets'[q] = targets[q] /\ targets[q] \in Generations /\ records' = records /\ settings' = settings
    BY <1>1, <1>2
  <2>2. records[q].status =
          StatusAfter(StoredAt(loop[targets[q]], results[targets[q]]), settings[targets[q]])
    BY <2>1 DEF RunInv, StatusIsEarned, Stored, StoredAt
  <2>3. StoredAt(loop'[targets[q]], results'[targets[q]]) = StoredAt(loop[targets[q]], results[targets[q]])
    <3>1. CASE targets[q] = g
      <4>1. SubSeq(Append(results[g], ok), 1, Len(Append(results[g], ok)) - 1) = results[g]
        BY <1>3
      <4>2. QED
        BY <1>1, <1>6, <3>1, <4>1 DEF StoredAt
    <3>2. CASE targets[q] # g
      BY <1>6, <2>1, <3>2
    <3>3. QED
      BY <3>1, <3>2
  <2>4. QED
    BY <2>1, <2>2, <2>3
<1>11. QED
  BY <1>7, <1>8, <1>9, <1>10 DEF RunInv

\* What is stored for a key is what its target has measured, for no other loop is accepted.
LEMMA SetStatusKeepsRuns ==
  ASSUME IInv, RunInv, NEW g \in Generations, SetStatus(g)
  PROVE  RunInv'
<1> DEFINE k == keyOf[g]
<1>1. /\ loop[g] = "checked" /\ loop' = [loop EXCEPT ![g] = "sleeping"]
      /\ timer' = [timer EXCEPT ![g] = waitOf(k, settings[g], counters[g].failures)]
      /\ UNCHANGED <<targets, settings, keyOf, counters, results>>
  BY DEF SetStatus, managerVars
<1>2. \/ /\ accepts(records[k], g)
         /\ records' = [records EXCEPT ![k] =
              [status |-> counters[g].status, failures |-> counters[g].failures,
               successes |-> counters[g].successes, generation |-> g]]
      \/ ~accepts(records[k], g) /\ records' = records
  BY DEF SetStatus
<1>3. /\ loop \in [Generations -> {"none", "sleeping", "checked", "ended"}]
      /\ results \in [Generations -> Seq(BOOLEAN)] /\ records \in [Keys -> Record \cup {None}]
      /\ targets \in [Keys -> Generations \cup {0}] /\ timer \in [Generations -> Nat]
  BY DEF IInv, Types, RunInv, RunTypes
<1>4. Alive(g) /\ k \in Keys /\ settings[g] \in HealthSettings /\ counters[g].failures \in Nat
  BY <1>1, AliveTypes DEF Alive
<1>5. /\ counters[g].status = StatusAfter(results[g], settings[g])
  BY <1>4 DEF RunInv, ResultInv
<1>6. \A q \in Keys : targets[q] # 0 =>
        keyOf[targets[q]] = q /\ records[q] # None /\ records[q].generation = targets[q]
  BY DEF IInv, LoopInv, RecordsAreOfTargets
<1> HIDE DEF k
<1>7. /\ loop'[g] = "sleeping" /\ timer'[g] = waitOf(k, settings[g], counters[g].failures)
      /\ \A h \in Generations : h # g => loop'[h] = loop[h] /\ timer'[h] = timer[h]
  BY <1>1, <1>3
<1>8. RunTypes'
  <2>1. waitOf(k, settings[g], counters[g].failures) \in Nat
    BY <1>4, WaitTypes
  <2>2. QED
    BY <1>1, <1>3, <2>1 DEF RunTypes
<1>9. ResultInv'
  <2> SUFFICES ASSUME NEW h \in Generations
               PROVE  /\ loop'[h] = "none" => loop[h] = "none"
                      /\ Alive(h)' => Alive(h)
    BY <1>1 DEF RunInv, ResultInv
  <2>1. QED
    BY <1>4, <1>7 DEF Alive
<1>10. TimerInv'
  <2> SUFFICES ASSUME NEW h \in Generations, loop'[h] = "sleeping"
               PROVE  timer'[h] = waitOf(keyOf'[h], settings'[h], counters'[h].failures)
    BY DEF TimerInv, waitOf
  <2>1. CASE h = g
    BY <1>1, <1>7, <2>1 DEF k
  <2>2. CASE h # g
    BY <1>1, <1>7, <2>2 DEF RunInv, TimerInv
  <2>3. QED
    BY <2>1, <2>2
<1>11. StatusIsEarned'
  <2> SUFFICES ASSUME NEW q \in Keys, targets'[q] # 0
               PROVE  records'[q].status =
                        StatusAfter(StoredAt(loop'[targets'[q]], results'[targets'[q]]), settings'[targets'[q]])
    BY DEF StatusIsEarned, Stored, StoredAt
  <2>1. targets'[q] = targets[q] /\ targets[q] \in Generations /\ targets[q] # 0
        /\ results' = results /\ settings' = settings
    BY <1>1, <1>3
  <2>2. CASE targets[q] = g
    <3>1. q = k /\ accepts(records[k], g)
      BY <1>6, <2>1, <2>2 DEF accepts, k
    <3>2. records'[q].status = counters[g].status
      BY <1>2, <1>3, <1>4, <3>1
    <3>3. StoredAt(loop'[g], results'[g]) = results[g]
      BY <1>7, <2>1 DEF StoredAt
    <3>4. QED
      BY <1>5, <2>1, <2>2, <3>2, <3>3
  <2>3. CASE targets[q] # g
    <3>1. records'[q] = records[q]
      <4>1. q = k => ~accepts(records[k], g)
        BY <1>6, <2>1, <2>3 DEF accepts
      <4>2. QED
        BY <1>2, <1>3, <1>4, <4>1
    <3>2. records[q].status =
            StatusAfter(StoredAt(loop[targets[q]], results[targets[q]]), settings[targets[q]])
      BY <2>1 DEF RunInv, StatusIsEarned, Stored, StoredAt
    <3>3. QED
      BY <1>7, <2>1, <2>3, <3>1, <3>2
  <2>4. QED
    BY <2>2, <2>3
<1>12. QED
  BY <1>8, <1>9, <1>10, <1>11 DEF RunInv

\* A loop that ends was no target.
LEMMA EndKeepsRuns ==
  ASSUME IInv, RunInv, NEW g \in Generations, End(g)
  PROVE  RunInv'
<1>1. /\ loop' = [loop EXCEPT ![g] = "ended"] /\ counters' = [counters EXCEPT ![g] = Fresh]
      /\ results' = [results EXCEPT ![g] = <<>>] /\ timer' = [timer EXCEPT ![g] = 0]
      /\ settings' = [settings EXCEPT ![g] = None] /\ keyOf' = [keyOf EXCEPT ![g] = None]
      /\ UNCHANGED <<targets, records>> /\ cancelled[g]
  BY DEF End
<1>2. /\ loop \in [Generations -> {"none", "sleeping", "checked", "ended"}]
      /\ counters \in [Generations -> Counters] /\ results \in [Generations -> Seq(BOOLEAN)]
      /\ settings \in [Generations -> HealthSettings \cup {None}]
      /\ keyOf \in [Generations -> Keys \cup {None}]
      /\ targets \in [Keys -> Generations \cup {0}] /\ timer \in [Generations -> Nat]
  BY DEF IInv, Types, RunInv, RunTypes
<1>3. \A q \in Keys : targets[q] # g
  BY <1>1 DEF IInv, CancelInv, ToBeCancelled
<1>4. /\ loop'[g] = "ended"
      /\ \A h \in Generations : h # g =>
           /\ loop'[h] = loop[h] /\ results'[h] = results[h] /\ counters'[h] = counters[h]
           /\ settings'[h] = settings[h] /\ keyOf'[h] = keyOf[h] /\ timer'[h] = timer[h]
  BY <1>1, <1>2
<1>5. RunTypes'
  <2>1. <<>> \in Seq(BOOLEAN)
    OBVIOUS
  <2>2. QED
    BY <1>1, <1>2, <2>1 DEF RunTypes
<1>6. ResultInv'
  BY <1>4 DEF RunInv, ResultInv, Alive
<1>7. TimerInv'
  <2> SUFFICES ASSUME NEW h \in Generations, loop'[h] = "sleeping"
               PROVE  timer'[h] = waitOf(keyOf'[h], settings'[h], counters'[h].failures)
    BY DEF TimerInv, waitOf
  <2>1. QED
    BY <1>4 DEF RunInv, TimerInv
<1>8. StatusIsEarned'
  <2> SUFFICES ASSUME NEW q \in Keys, targets'[q] # 0
               PROVE  records'[q].status =
                        StatusAfter(StoredAt(loop'[targets'[q]], results'[targets'[q]]), settings'[targets'[q]])
    BY DEF StatusIsEarned, Stored, StoredAt
  <2>1. targets'[q] = targets[q] /\ targets[q] \in Generations /\ targets[q] # g /\ records' = records
    BY <1>1, <1>2, <1>3
  <2>2. records[q].status =
          StatusAfter(StoredAt(loop[targets[q]], results[targets[q]]), settings[targets[q]])
    BY <2>1 DEF RunInv, StatusIsEarned, Stored, StoredAt
  <2>3. QED
    BY <1>4, <2>1, <2>2
<1>9. QED
  BY <1>5, <1>6, <1>7, <1>8 DEF RunInv

\* The second invariant, action by action.
LEMMA RunStep == IInv /\ RunInv /\ [Next]_vars => RunInv'
<1> SUFFICES ASSUME IInv, RunInv, [Next]_vars PROVE RunInv'
  OBVIOUS
<1> USE DEF notifierVars, managerVars, loopVars
<1>1. ASSUME NEW n \in Notifiers, NEW wanted \in Wanted, Notify(n, wanted)
      PROVE RunInv'
  BY <1>1, LoopsUntouched, TargetsKeepLoops DEF Notify, RunInv
<1>2. ASSUME NEW n \in Notifiers, Lock(n)
      PROVE RunInv'
  BY <1>2, LoopsUntouched, TargetsKeepLoops DEF Lock, RunInv
<1>3. ASSUME NEW n \in Notifiers, NEW k \in Keys, Drop(n, k)
      PROVE RunInv'
  <2>1. \A q \in Keys : targets'[q] = 0 \/ (targets'[q] = targets[q] /\ records'[q] = records[q])
    BY <1>3 DEF Drop, IInv, Types
  <2>2. QED
    BY <1>3, <2>1, LoopsUntouched, TargetsKeepLoops DEF Drop, RunInv
<1>4. ASSUME NEW n \in Notifiers, NEW k \in Keys, Create(n, k)
      PROVE RunInv'
  BY <1>4, CreateKeepsRuns
<1>5. ASSUME NEW n \in Notifiers, Unlock(n)
      PROVE RunInv'
  BY <1>5, LoopsUntouched, TargetsKeepLoops DEF Unlock, RunInv
<1>6. ASSUME NEW n \in Notifiers, NEW g \in toCancel[n], Cancel(n, g)
      PROVE RunInv'
  BY <1>6, LoopsUntouched, TargetsKeepLoops DEF Cancel, RunInv
<1>7. ASSUME NEW n \in Notifiers, Return(n)
      PROVE RunInv'
  BY <1>7, LoopsUntouched, TargetsKeepLoops DEF Return, RunInv
<1>8. ASSUME NEW g \in Generations, NEW ok \in BOOLEAN, Check(g, ok)
      PROVE RunInv'
  BY <1>8, CheckKeepsRuns
<1>9. ASSUME NEW g \in Generations, SetStatus(g)
      PROVE RunInv'
  BY <1>9, SetStatusKeepsRuns
<1>10. ASSUME NEW g \in Generations, End(g)
      PROVE RunInv'
  BY <1>10, EndKeepsRuns
<1>11. CASE UNCHANGED vars
  BY <1>11, LoopsUntouched, TargetsKeepLoops DEF vars, RunInv
<1>12. QED
  BY <1>1, <1>2, <1>3, <1>4, <1>5, <1>6, <1>7, <1>8, <1>9, <1>10, <1>11
  DEF Next, ReconcileStep, LoopStep

\* The first invariant holds before the first delivery.
LEMMA InitIInv == Init => IInv
<1> SUFFICES ASSUME Init PROVE IInv
  OBVIOUS
<1>1. Delivered = {} /\ Targeted = {} /\ mu = None
  BY DEF Init, Delivered, Targeted
<1>2. Types
  BY DEF Init, Types, Fresh, Counters, Statuses
<1>3. GenerationInv
  <2>1. Cardinality({}) = 0 /\ 0 * Cardinality(Keys) = 0
    BY FS_EmptySet, Sizes
  <2>2. QED
    BY <1>1, <2>1 DEF Init, GenerationInv
<1>4. SnapshotInv
  BY <1>1, FS_EmptySet DEF Init, SnapshotInv
<1>5. LockInv /\ LoopInv /\ CancelInv /\ RecordsAreOfTargets
  BY NoneIsNoSetting, Sizes
  DEF Init, LockInv, LoopInv, CancelInv, RecordsAreOfTargets, Alive, ToBeCancelled
<1>6. FreshInv
  BY Sizes DEF Init, FreshInv
<1>7. QED
  BY <1>2, <1>3, <1>4, <1>5, <1>6 DEF IInv

-----------------------------------------------------------------------------
(* Theorems                                                                *)

\* The invariant of HealthManager.
THEOREM Invariance == Spec => []IInv
<1>1. IInv /\ [Next]_vars => IInv'
  BY TypeStep, LockStep, FreshStep, LoopStepKeeps, CancelStep, GenerationStep, SnapshotStep,
     RecordsStep DEF IInv
<1>2. QED
  BY InitIInv, <1>1, PTL DEF Spec

\* No loop is lost and none goes on for what is no target, however deliveries, cancellations and
\* checks interleave (manager.go:76-109).
THEOREM EveryTargetHasItsLoop == Spec => []OneLoopPerTarget
<1>1. IInv => OneLoopPerTarget
  <2> SUFFICES ASSUME IInv, NEW g \in Generations, Alive(g)
               PROVE  ToBeCancelled(g) <=> targets[keyOf[g]] # g
    BY DEF OneLoopPerTarget
  <2>1. keyOf[g] \in Keys
    BY DEF IInv, LoopInv
  <2>2. ToBeCancelled(g) => targets[keyOf[g]] # g
    BY <2>1 DEF IInv, CancelInv
  <2>3. ASSUME targets[keyOf[g]] # g PROVE ToBeCancelled(g)
    <3>1. \A k \in Keys : targets[k] # g
      BY <2>3, Sizes DEF IInv, LoopInv
    <3>2. QED
      BY <3>1 DEF IInv, CancelInv
  <2>4. QED
    BY <2>2, <2>3
<1>2. QED
  BY Invariance, <1>1, PTL

\* Between two deliveries the targets are those one snapshot wants, and the client has room for
\* a connection to each (manager.go:71-113).
THEOREM TargetsAreWhole == Spec => []TargetsAreOfOneSnapshot
<1>1. IInv => TargetsAreOfOneSnapshot
  <2> SUFFICES ASSUME IInv, mu = None, Delivered # {}
               PROVE  /\ \E n \in Delivered :
                            [k \in Keys |-> IF targets[k] = 0 THEN None ELSE settings[targets[k]]]
                                = desired[n]
                      /\ maxIdleConns >= Cardinality(Targeted)
    BY DEF TargetsAreOfOneSnapshot, Delivered, Targeted
  <2>1. maxIdleConns >= Cardinality(Targeted)
    BY DEF IInv, SnapshotInv
  <2>2. PICK n \in Delivered : \A k \in Keys :
            desired[n][k] = IF targets[k] = 0 THEN None ELSE settings[targets[k]]
    BY DEF IInv, SnapshotInv
  <2>3. desired[n] \in [Keys -> HealthSettings \cup {None}]
    BY DEF IInv, Types, Delivered
  <2>4. QED
    BY <2>1, <2>2, <2>3
<1>2. QED
  BY Invariance, <1>1, PTL

\* Routing finds a record for exactly the targets, made by the target's own loop (store.go:78-82).
THEOREM RecordsFit == Spec => []RecordsAreOfTargets
<1>1. IInv => RecordsAreOfTargets
  BY DEF IInv
<1>2. QED
  BY Invariance, <1>1, PTL

\* Whatever is registered, what is accepted of it runs, and is accepted again unchanged
\* (normalize.go:80-139, health/config.go:58-110).
THEOREM AcceptedSettings == Spec => []AcceptedSettingsRun
<1>1. ASSUME NEW p \in Payloads, accepted(p)
      PROVE  LET stored == normalizeHealthSettings(p) IN
             /\ ~skipped(stored) /\ Runnable(runtimeSettingsFrom(stored))
             /\ accepted(stored) /\ normalizeHealthSettings(stored) = stored
  <2> DEFINE stored == normalizeHealthSettings(p)
  <2>1. stored \in CompleteSettings /\ Runnable(stored)
    <3>1. CASE p = None
      BY <3>1, DefaultsAreRunnable DEF normalizeHealthSettings
    <3>2. CASE p # None
      <4>1. p \in HealthSettingsForms
        BY <3>2, PayloadsAreForms
      <4>2. /\ orDefault(p.interval, "interval") \in Int /\ orDefault(p.interval, "interval") > 0
            /\ orDefault(p.timeout, "timeout") \in Int /\ orDefault(p.timeout, "timeout") > 0
            /\ orDefault(p.jitter, "jitter") \in Int /\ orDefault(p.jitter, "jitter") >= 0
            /\ orDefault(p.maxBackoff, "maxBackoff") \in Int
        BY <1>1, <3>2, <4>1, DefaultsAreRunnable
        DEF accepted, positive, nonNegative, orDefault, HealthSettingsForms, CompleteSettings, Runnable
      <4>3. orDefault(p.enabled, "enabled") \in BOOLEAN
        BY <4>1, DefaultsAreRunnable DEF orDefault, HealthSettingsForms, CompleteSettings
      <4>4. /\ orDefault(p.maxBackoff, "maxBackoff") >= orDefault(p.interval, "interval")
            /\ p.failureThreshold \in Nat /\ p.successThreshold \in Nat
        BY <1>1, <3>2, <4>1 DEF accepted, HealthSettingsForms
      <4>5. /\ Defaults.failureThreshold \in Int /\ Defaults.failureThreshold > 0
            /\ Defaults.successThreshold \in Int /\ Defaults.successThreshold > 0
        BY DefaultsAreRunnable DEF CompleteSettings, Runnable
      <4>6. QED
        BY <3>2, <4>2, <4>3, <4>4, <4>5 DEF normalizeHealthSettings, CompleteSettings, Runnable
    <3>3. QED
      BY <3>1, <3>2
  <2>2. stored # None
    BY <2>1, NoneIsNoPayload
  <2>3. ~skipped(stored)
    BY <2>1, UnparsableIsNoDuration DEF skipped, Durations, CompleteSettings
  <2>4. runtimeSettingsFrom(stored) = stored
    BY <2>1, <2>2, UnsetIsNoValue DEF runtimeSettingsFrom, orDefault, CompleteSettings, Runnable
  <2>5. accepted(stored)
    BY <2>1, UnsetIsNoValue, UnparsableIsNoDuration
    DEF accepted, positive, nonNegative, orDefault, CompleteSettings, Runnable
  <2>6. normalizeHealthSettings(stored) = stored
    BY <2>1, <2>2, UnsetIsNoValue DEF normalizeHealthSettings, orDefault, CompleteSettings, Runnable
  <2>7. QED
    BY <2>1, <2>3, <2>4, <2>5, <2>6
<1>2. AcceptedSettingsRun
  BY <1>1 DEF AcceptedSettingsRun
<1>3. QED
  BY <1>2, PTL

\* The second invariant, in every state in which the first one holds.
THEOREM RunInvariance == Spec => []RunInv
<1>1. Init => RunInv
  <2> SUFFICES ASSUME Init PROVE RunInv
    OBVIOUS
  <2>1. RunTypes
    <3>1. <<>> \in Seq(BOOLEAN)
      OBVIOUS
    <3>2. QED
      BY <3>1 DEF Init, RunTypes
  <2>2. ResultInv /\ TimerInv /\ StatusIsEarned
    BY DEF Init, ResultInv, TimerInv, StatusIsEarned, Alive
  <2>3. QED
    BY <2>1, <2>2 DEF RunInv
<1>2. IInv /\ RunInv /\ [Next]_vars => RunInv'
  BY RunStep
<1>3. QED
  BY Invariance, <1>1, <1>2, PTL DEF Spec

\* Every variable keeps its type, the timers and what the checks have counted included.
THEOREM TypeCorrect == Spec => []TypeOK
<1>1. IInv /\ RunInv => TypeOK
  BY DEF IInv, Types, RunInv, RunTypes, TypeOK
<1>2. QED
  BY Invariance, RunInvariance, <1>1, PTL

\* An instance is kept out of routing exactly if the checks under its present settings say so,
\* for any thresholds and however deliveries and loops interleave (checker.go:32-49).
THEOREM StatusesAreEarned == Spec => []StatusIsEarned
<1>1. RunInv => StatusIsEarned
  BY DEF RunInv
<1>2. QED
  BY RunInvariance, <1>1, PTL

\* A loop waits as long as its failures in a row ask for, for any interval, maximum, threshold
\* and jitter and any number of failures (nextInterval, health/config.go:127-146).
THEOREM WaitsFollowFailures == Spec => []WaitsAsLongAsFailing
<1>1. IInv /\ RunInv => WaitsAsLongAsFailing
  <2> SUFFICES ASSUME IInv, RunInv, NEW g \in Generations, loop[g] = "sleeping"
               PROVE  LET s == settings[g]
                          failures == FailuresInRow(results[g])
                          doubled == s.interval * 2^(failures - s.failureThreshold + 1)
                          base == IF failures < s.failureThreshold THEN s.interval
                                  ELSE IF doubled < s.maxBackoff - 1 THEN doubled ELSE s.maxBackoff
                      IN timer[g] \in base..(base + IF s.jitter = 0 THEN 0 ELSE s.jitter - 1)
    BY DEF WaitsAsLongAsFailing
  <2> DEFINE s == settings[g]
             failures == counters[g].failures
             jitter == jitterFor(Hash[keyOf[g]], s.jitter)
             base == Waited(s, Rounds(s, failures))
  <2>1. Alive(g) /\ results[g] \in Seq(BOOLEAN)
    BY DEF Alive, RunInv, RunTypes
  <2>2. keyOf[g] \in Keys /\ s \in HealthSettings /\ failures \in Nat
    BY <2>1, AliveTypes
  <2>3. FailuresInRow(results[g]) = failures
    BY <2>1, RowIsFailuresInRow DEF RunInv, ResultInv
  <2>4. timer[g] = nextInterval(s, jitter, failures)
    BY DEF RunInv, TimerInv, waitOf
  <2>5. jitter \in 0..(IF s.jitter = 0 THEN 0 ELSE s.jitter - 1) /\ s.jitter \in Nat
    BY <2>2, JitterTypes, SettingTypes
  <2> HIDE DEF s, failures, jitter
  <2>6. s.failureThreshold \in Nat \ {0}
    BY <2>2, SettingTypes
  <2>7. Rounds(s, failures) \in Nat
    BY <2>2, <2>6 DEF Rounds
  <2>8. base \in Nat
    BY <2>2, <2>7, WaitedTwice
  <2>9. timer[g] = base + jitter
    BY <2>2, <2>4, <2>5, NextIntervalIs
  <2>10. base = IF failures < s.failureThreshold THEN s.interval
                ELSE IF s.interval * 2^(failures - s.failureThreshold + 1) < s.maxBackoff - 1
                     THEN s.interval * 2^(failures - s.failureThreshold + 1) ELSE s.maxBackoff
    <3>1. CASE failures < s.failureThreshold
      <4>1. Rounds(s, failures) = 0
        BY <2>2, <2>6, <3>1 DEF Rounds
      <4>2. QED
        BY <3>1, <4>1 DEF Waited
    <3>2. CASE ~(failures < s.failureThreshold)
      <4>1. /\ Rounds(s, failures) = failures - s.failureThreshold + 1
            /\ failures - s.failureThreshold + 1 # 0
        BY <2>2, <2>6, <3>2 DEF Rounds
      <4>2. QED
        BY <3>2, <4>1 DEF Waited
    <3>3. QED
      BY <3>1, <3>2
  <2> HIDE DEF base
  <2>11. timer[g] \in base..(base + IF s.jitter = 0 THEN 0 ELSE s.jitter - 1)
    BY <2>5, <2>8, <2>9
  <2>12. QED
    BY <2>3, <2>10, <2>11 DEF s
<1>2. QED
  BY Invariance, RunInvariance, <1>1, PTL

=============================================================================

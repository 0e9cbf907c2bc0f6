-------------------------- MODULE PolicyStoreProofs --------------------------
(***************************************************************************)
(* Proofs about PolicyStore, for any number of requests, services and      *)
(* revisions and any thresholds, loads and delay.                          *)
(***************************************************************************)
EXTENDS PolicyStore, SequenceTheorems, TLAPS

\* A request that was routed captured a snapshot that was published.
CaptureInv ==
    \A r \in Requests :
        pc[r] # "idle" => service[r] \in Services /\ captured[r] \in 1..Len(published)

\* The timer runs only while a dedicated tier is held, and started after that tier was last
\* asked for.
TimerInv ==
    \A s \in Services :
        /\ above[s] <= now
        /\ (states[s] # None /\ states[s].belowSince # None)
              => /\ states[s].tier # "shared"
                 /\ above[s] <= states[s].belowSince
                 /\ states[s].belowSince <= now

\* A dedicated tier is held under a policy that provides it.
HeldTierInv ==
    \A s \in Services :
        (states[s] # None /\ states[s].tier # "shared")
            => /\ states[s].policy # None
               /\ states[s].policy[states[s].tier] # [rps |-> 0, inFlight |-> 0]

IInv ==
    /\ TypeOK
    /\ CaptureInv
    /\ TimerInv
    /\ HeldTierInv
    /\ StatePolicyIsOfItsRevision
    /\ AnswerIsOfOwnPolicy

-----------------------------------------------------------------------------
(* Lemmas about the operators                                              *)

\* A decided dedicated tier has a threshold that is not switched off.
LEMMA DecidedTier ==
  ASSUME NEW policy \in Policies \cup {None}, NEW status \in Statuses
  PROVE  LET tier == decideTier(status, policy) IN
         /\ tier \in Tiers
         /\ tier # "shared" => /\ policy # None
                               /\ policy[tier] # [rps |-> 0, inFlight |-> 0]
<1>1. ASSUME NEW threshold \in Threshold, thresholdReached(status, threshold)
      PROVE threshold # [rps |-> 0, inFlight |-> 0]
  BY <1>1 DEF thresholdReached, Threshold
<1>2. ASSUME policy # None, NEW t \in DedicatedTiers
      PROVE policy[t] \in Threshold
  BY <1>2, PoliciesAreThresholds DEF DedicatedTiers
<1>3. decideTier(status, policy) \in Tiers
  BY DEF decideTier, Tiers, DedicatedTiers
<1>4. decideTier(status, policy) # "shared" =>
        /\ policy # None
        /\ thresholdReached(status, policy[decideTier(status, policy)])
  BY DEF decideTier
<1>5. QED
  BY <1>1, <1>2, <1>3, <1>4 DEF Tiers

\* Reassessment keeps the type, takes the given policy and holds only tiers it provides.
LEMMA Reassessed ==
  ASSUME NEW old \in AssignmentState \cup {None}, NEW policy \in Policies \cup {None},
         NEW tier \in Tiers, now \in Nat,
         old # None /\ old.tier # "shared" =>
            old.policy # None /\ old.policy[old.tier] # [rps |-> 0, inFlight |-> 0],
         tier # "shared" => policy # None /\ policy[tier] # [rps |-> 0, inFlight |-> 0]
  PROVE  LET new == Reassess(old, policy, tier) IN
         /\ new \in AssignmentState
         /\ new.policy = policy
         /\ new.tier # "shared" => /\ policy # None
                                   /\ policy[new.tier] # [rps |-> 0, inFlight |-> 0]
<1> DEFINE new == Reassess(old, policy, tier)
<1>1. CASE old = None \/ old.policy # policy
  BY <1>1 DEF Reassess, AssignmentState, Tiers
<1>2. CASE old # None /\ old.policy = policy /\ tier # "shared"
  <2>1. new = [old EXCEPT !.tier = tier, !.belowSince = None]
    BY <1>2 DEF Reassess, Promote
  <2>2. QED
    BY <1>2, <2>1 DEF AssignmentState
<1>3. CASE old # None /\ old.policy = policy /\ tier = "shared"
  <2>1. new = old \/ new = ReturnWhenDue(old)
    BY <1>3 DEF Reassess
  <2>2. CASE new = old
    BY <1>3, <2>2
  <2>3. CASE new = ReturnWhenDue(old)
    BY <1>3, <2>3 DEF ReturnWhenDue, AssignmentState, Tiers
  <2>4. QED
    BY <2>1, <2>2, <2>3
<1>4. QED
  BY <1>1, <1>2, <1>3

\* Reassessment sets the timer soundly, and goes back only when it has run its time.
LEMMA ReassessedTimer ==
  ASSUME NEW old \in AssignmentState \cup {None}, NEW policy \in Policies \cup {None},
         NEW tier \in Tiers, now \in Nat, NEW last \in Nat, last <= now,
         old # None /\ old.belowSince # None =>
            old.tier # "shared" /\ last <= old.belowSince /\ old.belowSince <= now
  PROVE  LET new == Reassess(old, policy, tier) IN
         /\ new.belowSince # None => /\ new.tier # "shared"
                                     /\ tier = "shared"
                                     /\ last <= new.belowSince
                                     /\ new.belowSince <= now
         /\ (/\ old # None /\ old.policy = policy
             /\ old.tier # "shared" /\ new.tier = "shared")
                => now - last >= ReturnDelay
<1> DEFINE new == Reassess(old, policy, tier)
<1>1. CASE old = None \/ old.policy # policy
  BY <1>1 DEF Reassess
<1>2. CASE old # None /\ old.policy = policy /\ tier # "shared"
  <2>1. new = [old EXCEPT !.tier = tier, !.belowSince = None]
    BY <1>2 DEF Reassess, Promote
  <2>2. QED
    BY <1>2, <2>1 DEF AssignmentState
<1>3. CASE old # None /\ old.policy = policy /\ tier = "shared" /\ old.tier = "shared"
  BY <1>3 DEF Reassess
<1>4. CASE old # None /\ old.policy = policy /\ tier = "shared" /\ old.tier # "shared"
  <2> DEFINE since == IF old.belowSince = None THEN now ELSE old.belowSince
  <2>1. since \in Nat /\ last <= since /\ since <= now
    BY <1>4 DEF AssignmentState
  <2>2. new = IF now - since >= ReturnDelay
              THEN [old EXCEPT !.tier = "shared", !.belowSince = None]
              ELSE [old EXCEPT !.belowSince = since]
    BY <1>4 DEF Reassess, ReturnWhenDue
  <2>3. CASE now - since >= ReturnDelay
    <3>1. new.tier = "shared" /\ new.belowSince = None
      BY <1>4, <2>2, <2>3 DEF AssignmentState
    <3>2. now - last >= ReturnDelay
      BY <2>1, <2>3, DelayIsNat
    <3>3. QED
      BY <3>1, <3>2
  <2>4. CASE ~(now - since >= ReturnDelay)
    <3>1. new.tier = old.tier /\ new.belowSince = since
      BY <1>4, <2>2, <2>4 DEF AssignmentState
    <3>2. QED
      BY <1>4, <2>1, <3>1
  <2>5. QED
    BY <2>3, <2>4
<1>5. QED
  BY <1>1, <1>2, <1>3, <1>4

-----------------------------------------------------------------------------
(* The invariant                                                           *)

\* The invariant holds for a store without a state.
LEMMA InitIInv == Init => IInv
<1> SUFFICES ASSUME Init PROVE IInv
  OBVIOUS
<1>1. PICK p \in [Services -> Policies \cup {None}] : published = <<p>>
  BY DEF Init
<1>2. published \in Seq([Services -> Policies \cup {None}]) /\ Len(published) = 1
  BY <1>1
<1>3. TypeOK
  BY <1>2 DEF Init, TypeOK, Tiers
<1>4. QED
  BY <1>3, NoneIsNoPolicy
  DEF Init, IInv, CaptureInv, TimerInv, HeldTierInv, StatePolicyIsOfItsRevision, AnswerIsOfOwnPolicy

\* A captured request reads a policy of its own snapshot.
LEMMA CapturedPolicy ==
  ASSUME IInv, NEW r \in Requests, pc[r] # "idle"
  PROVE  /\ service[r] \in Services /\ captured[r] \in 1..Len(published)
         /\ PolicyOf(r) \in Policies \cup {None}
  BY DEF IInv, CaptureInv, TypeOK, PolicyOf

\* Publishing adds a snapshot and leaves those that were captured alone.
LEMMA PublishStep ==
  ASSUME IInv, NEW s \in Services, NEW p \in Policies \cup {None}, Publish(s, p)
  PROVE  IInv'
<1> DEFINE snapshot == [published[Len(published)] EXCEPT ![s] = p]
<1>1. snapshot \in [Services -> Policies \cup {None}] /\ Len(published) \in Nat
  BY DEF IInv, TypeOK
<1>2. /\ published' \in Seq([Services -> Policies \cup {None}])
      /\ Len(published') = Len(published) + 1
      /\ \A v \in 1..Len(published) : published'[v] = published[v]
  BY <1>1 DEF Publish, IInv, TypeOK
<1>3. UNCHANGED <<now, pc, service, captured, answer, states, above>>
  BY DEF Publish, requestVars
<1>4. TypeOK'
  BY <1>1, <1>2, <1>3 DEF IInv, TypeOK, AssignmentState
<1>5. CaptureInv'
  BY <1>1, <1>2, <1>3 DEF IInv, CaptureInv
<1>6. TimerInv' /\ HeldTierInv'
  BY <1>3 DEF IInv, TimerInv, HeldTierInv
<1>7. StatePolicyIsOfItsRevision'
  BY <1>1, <1>2, <1>3 DEF IInv, TypeOK, StatePolicyIsOfItsRevision, AssignmentState
<1>8. AnswerIsOfOwnPolicy'
  BY <1>2, <1>3, CapturedPolicy DEF IInv, AnswerIsOfOwnPolicy, PolicyOf
<1>9. QED
  BY <1>4, <1>5, <1>6, <1>7, <1>8 DEF IInv

\* Time passes.
LEMMA TickStep ==
  ASSUME IInv, Tick
  PROVE  IInv'
<1>1. now' = now + 1 /\ UNCHANGED <<published, pc, service, captured, answer, states, above>>
  BY DEF Tick, requestVars
<1>2. TypeOK' /\ CaptureInv' /\ HeldTierInv' /\ StatePolicyIsOfItsRevision'
  BY <1>1 DEF IInv, TypeOK, CaptureInv, HeldTierInv, StatePolicyIsOfItsRevision, AssignmentState
<1>3. AnswerIsOfOwnPolicy'
  BY <1>1 DEF IInv, AnswerIsOfOwnPolicy, PolicyOf
<1>4. TimerInv'
  BY <1>1 DEF IInv, TypeOK, TimerInv, AssignmentState
<1>5. QED
  BY <1>2, <1>3, <1>4 DEF IInv

\* A request captures a snapshot that has been published.
LEMMA CaptureStep ==
  ASSUME IInv, NEW r \in Requests, NEW s \in Services, Capture(r, s)
  PROVE  IInv'
<1>1. /\ pc' = [pc EXCEPT ![r] = "captured"]
      /\ service' = [service EXCEPT ![r] = s]
      /\ captured' = [captured EXCEPT ![r] = Len(published)]
      /\ UNCHANGED <<published, now, answer, states, above>>
  BY DEF Capture, envVars
<1>2. Len(published) \in Nat /\ Len(published) > 0
  BY DEF IInv, TypeOK
<1>3. TypeOK'
  BY <1>1, <1>2 DEF IInv, TypeOK, AssignmentState
<1>4. CaptureInv'
  BY <1>1, <1>2 DEF IInv, TypeOK, CaptureInv
<1>5. TimerInv' /\ HeldTierInv' /\ StatePolicyIsOfItsRevision'
  BY <1>1 DEF IInv, TimerInv, HeldTierInv, StatePolicyIsOfItsRevision
<1>6. AnswerIsOfOwnPolicy'
  BY <1>1 DEF IInv, TypeOK, AnswerIsOfOwnPolicy, PolicyOf
<1>7. QED
  BY <1>3, <1>4, <1>5, <1>6 DEF IInv

\* A stale answer is the request's own decision, or a tier held under the same policy.
LEMMA AssignStaleStep ==
  ASSUME IInv, NEW r \in Requests, NEW status \in Statuses, AssignStale(r, status)
  PROVE  IInv'
<1> DEFINE old == states[service[r]]
           policy == PolicyOf(r)
           tier == decideTier(status, policy)
<1>1. /\ pc' = [pc EXCEPT ![r] = "decided"]
      /\ answer' = [answer EXCEPT ![r] = StaleTier(old, policy, tier)]
      /\ UNCHANGED <<published, now, service, captured, states, above>>
  BY DEF AssignStale, envVars
<1>2. pc[r] = "captured" /\ old # None
  BY DEF AssignStale, Stale
<1>3. service[r] \in Services /\ captured[r] \in 1..Len(published) /\ policy \in Policies \cup {None}
  BY <1>2, CapturedPolicy
<1>4. old \in AssignmentState
  BY <1>2, <1>3 DEF IInv, TypeOK
<1>5. /\ tier \in Tiers
      /\ tier # "shared" => policy # None /\ policy[tier] # [rps |-> 0, inFlight |-> 0]
  BY <1>3, DecidedTier
<1>6. /\ StaleTier(old, policy, tier) \in Tiers
      /\ StaleTier(old, policy, tier) # "shared" =>
            /\ policy # None
            /\ policy[StaleTier(old, policy, tier)] # [rps |-> 0, inFlight |-> 0]
  BY <1>2, <1>3, <1>4, <1>5 DEF StaleTier, IInv, HeldTierInv, AssignmentState
<1>7. TypeOK' /\ CaptureInv' /\ TimerInv' /\ HeldTierInv' /\ StatePolicyIsOfItsRevision'
  BY <1>1, <1>2, <1>6
  DEF IInv, TypeOK, CaptureInv, TimerInv, HeldTierInv, StatePolicyIsOfItsRevision, AssignmentState
<1>8. AnswerIsOfOwnPolicy'
  BY <1>1, <1>6 DEF IInv, TypeOK, AnswerIsOfOwnPolicy, PolicyOf
<1>9. QED
  BY <1>7, <1>8 DEF IInv

\* What Assign stores.
LEMMA AssignEffect ==
  ASSUME IInv, NEW r \in Requests, NEW status \in Statuses, Assign(r, status)
  PROVE  \E s \in Services, new \in AssignmentState, tier \in Tiers :
            /\ s = service[r] /\ pc[r] = "captured"
            /\ states[s] # None => new.revision >= states[s].revision
            /\ new.revision = captured[r] /\ new.revision \in 1..Len(published)
            /\ new.policy = PolicyOf(r)
            /\ new.tier # "shared" => /\ PolicyOf(r) # None
                                      /\ PolicyOf(r)[new.tier] # [rps |-> 0, inFlight |-> 0]
            /\ new.belowSince # None => /\ new.tier # "shared" /\ tier = "shared"
                                        /\ above[s] <= new.belowSince
                                        /\ new.belowSince <= now
            /\ (/\ states[s] # None /\ states[s].policy = new.policy
                /\ states[s].tier # "shared" /\ new.tier = "shared")
                   => now - above[s] >= ReturnDelay
            /\ states' = [states EXCEPT ![s] = new]
            /\ answer' = [answer EXCEPT ![r] = new.tier]
            /\ above' = IF tier = "shared" THEN above ELSE [above EXCEPT ![s] = now]
            /\ pc' = [pc EXCEPT ![r] = "decided"]
            /\ UNCHANGED <<published, now, service, captured>>
<1> DEFINE s == service[r]
           policy == PolicyOf(r)
           tier == decideTier(status, policy)
           base == Reassess(states[s], policy, tier)
           new == [base EXCEPT !.revision = captured[r]]
<1>1. /\ pc[r] = "captured"
      /\ ~Stale(states[s], captured[r])
      /\ states' = [states EXCEPT ![s] = new]
      /\ answer' = [answer EXCEPT ![r] = new.tier]
      /\ above' = IF tier = "shared" THEN above ELSE [above EXCEPT ![s] = now]
      /\ pc' = [pc EXCEPT ![r] = "decided"]
      /\ UNCHANGED <<published, now, service, captured>>
  BY DEF Assign, envVars
<1>2. s \in Services /\ captured[r] \in 1..Len(published) /\ policy \in Policies \cup {None}
  BY <1>1, CapturedPolicy
<1>3. /\ tier \in Tiers
      /\ tier # "shared" => policy # None /\ policy[tier] # [rps |-> 0, inFlight |-> 0]
  BY <1>2, DecidedTier
<1>4. /\ states[s] \in AssignmentState \cup {None} /\ now \in Nat
      /\ above[s] \in Nat /\ above[s] <= now /\ Len(published) \in Nat
  BY <1>2 DEF IInv, TypeOK, TimerInv
<1>5. states[s] # None /\ states[s].tier # "shared" =>
        states[s].policy # None /\ states[s].policy[states[s].tier] # [rps |-> 0, inFlight |-> 0]
  BY <1>2 DEF IInv, HeldTierInv
<1>6. states[s] # None /\ states[s].belowSince # None =>
        /\ states[s].tier # "shared"
        /\ above[s] <= states[s].belowSince /\ states[s].belowSince <= now
  BY <1>2 DEF IInv, TimerInv
<1>7. /\ base \in AssignmentState
      /\ base.policy = policy
      /\ base.tier # "shared" => policy # None /\ policy[base.tier] # [rps |-> 0, inFlight |-> 0]
  BY <1>2, <1>3, <1>4, <1>5, Reassessed
<1>8. /\ base.belowSince # None => /\ base.tier # "shared" /\ tier = "shared"
                                   /\ above[s] <= base.belowSince /\ base.belowSince <= now
      /\ (/\ states[s] # None /\ states[s].policy = policy
          /\ states[s].tier # "shared" /\ base.tier = "shared")
             => now - above[s] >= ReturnDelay
  BY <1>2, <1>3, <1>4, <1>6, ReassessedTimer
<1>9. captured[r] \in Nat \ {0}
  BY <1>2, <1>4
<1>10. /\ new \in AssignmentState
       /\ new.revision = captured[r] /\ new.policy = base.policy
       /\ new.tier = base.tier /\ new.belowSince = base.belowSince
  BY <1>7, <1>9 DEF AssignmentState
<1>11. states[s] # None => new.revision >= states[s].revision
  BY <1>1, <1>4, <1>9, <1>10 DEF Stale, AssignmentState
<1>12. QED
  BY <1>1, <1>2, <1>3, <1>7, <1>8, <1>10, <1>11

\* AssignmentFor with a snapshot as new as the state, or newer.
LEMMA AssignStep ==
  ASSUME IInv, NEW r \in Requests, NEW status \in Statuses, Assign(r, status)
  PROVE  IInv'
<1>1. PICK s \in Services, new \in AssignmentState, tier \in Tiers :
            /\ s = service[r] /\ pc[r] = "captured"
            /\ new.revision = captured[r] /\ new.revision \in 1..Len(published)
            /\ new.policy = PolicyOf(r)
            /\ new.tier # "shared" => /\ PolicyOf(r) # None
                                      /\ PolicyOf(r)[new.tier] # [rps |-> 0, inFlight |-> 0]
            /\ new.belowSince # None => /\ new.tier # "shared" /\ tier = "shared"
                                        /\ above[s] <= new.belowSince
                                        /\ new.belowSince <= now
            /\ states' = [states EXCEPT ![s] = new]
            /\ answer' = [answer EXCEPT ![r] = new.tier]
            /\ above' = IF tier = "shared" THEN above ELSE [above EXCEPT ![s] = now]
            /\ pc' = [pc EXCEPT ![r] = "decided"]
            /\ UNCHANGED <<published, now, service, captured>>
  BY AssignEffect
<1>2. new # None /\ new.tier \in Tiers
  BY NoneIsNoPolicy DEF AssignmentState, Tiers, DedicatedTiers
<1>3. TypeOK'
  <2>1. states' \in [Services -> AssignmentState \cup {None}] /\ above' \in [Services -> Nat]
    BY <1>1 DEF IInv, TypeOK
  <2>2. answer' \in [Requests -> Tiers] /\ pc' \in [Requests -> {"idle", "captured", "decided"}]
    BY <1>1, <1>2 DEF IInv, TypeOK
  <2>3. QED
    BY <1>1, <2>1, <2>2 DEF IInv, TypeOK
<1>4. CaptureInv'
  BY <1>1 DEF IInv, TypeOK, CaptureInv
<1>5. TimerInv'
  <2>1. now \in Nat
    BY DEF IInv, TypeOK
  <2>2. \A t \in Services : /\ t = s => states'[t] = new
                            /\ t # s => states'[t] = states[t] /\ above'[t] = above[t]
    BY <1>1 DEF IInv, TypeOK
  <2>3. above'[s] = IF tier = "shared" THEN above[s] ELSE now
    BY <1>1 DEF IInv, TypeOK
  <2>4. QED
    BY <1>1, <2>1, <2>2, <2>3 DEF IInv, TimerInv
<1>6. HeldTierInv'
  BY <1>1 DEF IInv, TypeOK, HeldTierInv
<1>7. StatePolicyIsOfItsRevision'
  <2>1. Len(published) \in Nat /\ new.revision <= Len(published)
    BY <1>1 DEF IInv, TypeOK
  <2>2. new.policy = published[new.revision][s]
    BY <1>1 DEF PolicyOf
  <2>3. QED
    BY <1>1, <2>1, <2>2 DEF IInv, TypeOK, StatePolicyIsOfItsRevision
<1>8. AnswerIsOfOwnPolicy'
  BY <1>1 DEF IInv, TypeOK, AnswerIsOfOwnPolicy, PolicyOf
<1>9. QED
  BY <1>3, <1>4, <1>5, <1>6, <1>7, <1>8 DEF IInv

-----------------------------------------------------------------------------
(* The theorems                                                            *)

\* The invariant holds in every reachable state, for any policies and any delay.
THEOREM Invariance == Spec => []IInv
<1>1. ASSUME IInv, [Next]_vars
      PROVE IInv'
  <2>1. CASE UNCHANGED vars
    BY <1>1, <2>1
    DEF vars, IInv, TypeOK, CaptureInv, TimerInv, HeldTierInv, StatePolicyIsOfItsRevision,
        AnswerIsOfOwnPolicy, PolicyOf, AssignmentState
  <2>2. QED
    BY <1>1, <2>1, PublishStep, TickStep, CaptureStep, AssignStaleStep, AssignStep DEF Next
<1>2. QED
  BY InitIInv, <1>1, PTL DEF Spec

\* Every state and answer is well formed.
THEOREM TypeCorrect == Spec => []TypeOK
<1>1. IInv => TypeOK
  BY DEF IInv
<1>2. QED
  BY Invariance, <1>1, PTL

\* Requests with older snapshots do not mix their policy into a newer state.
THEOREM StateIsOfOnePolicy == Spec => []StatePolicyIsOfItsRevision
<1>1. IInv => StatePolicyIsOfItsRevision
  BY DEF IInv
<1>2. QED
  BY Invariance, <1>1, PTL

\* A dedicated pool is only used under a policy that provides its tier.
THEOREM AnswerIsProvided == Spec => []AnswerIsOfOwnPolicy
<1>1. IInv => AnswerIsOfOwnPolicy
  BY DEF IInv
<1>2. QED
  BY Invariance, <1>1, PTL

\* The return to the shared pool waits ReturnDelay after the last demand by an evaluation that
\* is not stale, whatever the interleaving of evaluations and configuration changes.
THEOREM ReturnWaits == Spec => ReturnsAfterDelay
<1> DEFINE Waits == \A s \in Services :
              (/\ states[s] # None /\ states'[s].policy = states[s].policy
               /\ states[s].tier # "shared" /\ states'[s].tier = "shared")
                  => now - above[s] >= ReturnDelay
<1>1. ASSUME IInv, [Next]_vars
      PROVE Waits
  <2>1. CASE states' = states
    BY <2>1
  <2>2. CASE \E r \in Requests, status \in Statuses : Assign(r, status)
    <3>1. PICK s \in Services, new \in AssignmentState :
              /\ states' = [states EXCEPT ![s] = new]
              /\ (/\ states[s] # None /\ states[s].policy = new.policy
                  /\ states[s].tier # "shared" /\ new.tier = "shared")
                     => now - above[s] >= ReturnDelay
      BY <1>1, <2>2, AssignEffect
    <3>2. QED
      BY <1>1, <3>1 DEF IInv, TypeOK
  <2>3. QED
    BY <1>1, <2>1, <2>2 DEF Next, vars, Publish, Tick, Capture, AssignStale
<1>2. IInv /\ [Next]_vars => [Waits]_vars
  BY <1>1
<1>3. QED
  BY Invariance, <1>2, PTL DEF Spec, ReturnsAfterDelay

\* The revision of a state only grows.
THEOREM RevisionGrows == Spec => RevisionNeverGoesBack
<1> DEFINE Grows == \A s \in Services :
              states[s] # None => states'[s].revision >= states[s].revision
<1>1. ASSUME IInv, [Next]_vars
      PROVE Grows
  <2>1. CASE states' = states
    <3>1. \A s \in Services : states[s] # None => states[s].revision \in Nat
      BY <1>1 DEF IInv, TypeOK, AssignmentState
    <3>2. QED
      BY <2>1, <3>1
  <2>2. CASE \E r \in Requests, status \in Statuses : Assign(r, status)
    <3>1. PICK s \in Services, new \in AssignmentState :
              /\ states' = [states EXCEPT ![s] = new]
              /\ states[s] # None => new.revision >= states[s].revision
      BY <1>1, <2>2, AssignEffect
    <3>2. \A t \in Services : states[t] # None => states[t].revision \in Nat
      BY <1>1 DEF IInv, TypeOK, AssignmentState
    <3>3. QED
      BY <1>1, <3>1, <3>2 DEF IInv, TypeOK
  <2>3. QED
    BY <1>1, <2>1, <2>2 DEF Next, vars, Publish, Tick, Capture, AssignStale
<1>2. IInv /\ [Next]_vars => [Grows]_vars
  BY <1>1
<1>3. QED
  BY Invariance, <1>2, PTL DEF Spec, RevisionNeverGoesBack
=============================================================================

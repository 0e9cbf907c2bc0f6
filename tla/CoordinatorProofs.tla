-------------------------- MODULE CoordinatorProofs --------------------------
(***************************************************************************)
(* Proofs about Coordinator, for any finite set of requests and any sets   *)
(* of services and tiers.                                                  *)
(***************************************************************************)
EXTENDS Coordinator, FiniteSetTheorems, TLAPS

-----------------------------------------------------------------------------
(* The inductive invariant, in parts.                                      *)

\* The two writers' places are inside the write lock.
LockInv ==
    /\ \A r \in Requests : pc[r] \in {"replace", "admit"} <=> lock = r
    /\ \A r \in Requests : pc[r] # "new" => want[r] \in Assignments
    /\ \A r \in Requests : pc[r] \in Leased <=> held[r] # None

\* What a writer saw under the lock stays so while it has the lock.
WriterInv ==
    /\ \A r \in Requests : pc[r] = "replace" => Cached(r) = None
    /\ \A r \in Requests : pc[r] = "admit" => Cached(r) # None

\* A client has a tier once it was created, by the request it is named after.
CreatedInv ==
    /\ tier[SharedClient] = SharedTier
    /\ \A r \in Requests :
        tier[r] # None => /\ pc[r] \in {"admit", "done"} \cup Leased
                          /\ tier[r] \in DedicatedTiers
    /\ \A c \in Clients : tier[c] = None => waiter[c] = "none"

\* The dedicated map holds created clients, each once.
MapInv ==
    /\ \A s \in Services : dedicated[s] # None => /\ dedicated[s] \in Requests
                                                  /\ tier[dedicated[s]] # None
    /\ \A s, t \in Services : (dedicated[s] # None /\ dedicated[s] = dedicated[t]) => s = t

\* DrainedIsUnused, and why no connection comes back later: the transport closes it.
DrainInv ==
    \A c \in Clients :
        /\ waiter[c] \in {"woken", "drained"} => Holders(c) = {}
        /\ waiter[c] = "drained" => ~idle[c] /\ closing[c]

IInv ==
    /\ TypeOK
    /\ LockInv
    /\ WriterInv
    /\ CreatedInv
    /\ MapInv
    /\ PublishedXorRetired
    /\ LeaseHasAssignedTier
    /\ WgCountsLeases
    /\ DrainInv

-----------------------------------------------------------------------------
(* Types                                                                   *)

\* The client a lookup finds exists, is in the maps and has the tier that is asked for.
LEMMA CachedFits ==
  ASSUME IInv, NEW r \in Requests, pc[r] # "new"
  PROVE  /\ want[r].service \in Services
         /\ want[r].tier \in Tiers
         /\ Cached(r) # None => /\ Cached(r) \in Clients
                               /\ Published(Cached(r))
                               /\ tier[Cached(r)] = want[r].tier
<1>1. want[r] \in Assignments
  BY DEF IInv, LockInv
<1>2. want[r].service \in Services /\ want[r].tier \in Tiers
  BY <1>1 DEF Assignments
<1>3. CASE want[r].tier = SharedTier
  BY <1>2, <1>3 DEF IInv, CreatedInv, Cached, Clients, Published
<1>4. CASE want[r].tier # SharedTier
  BY <1>2, <1>4 DEF IInv, TypeOK, Cached, Published
<1>5. QED
  BY <1>2, <1>3, <1>4

\* Every variable keeps its type; the only decrement, Finish, is of a counter that
\* counts the request's own lease.
LEMMA TypeStep == IInv /\ [Next]_vars => TypeOK'
<1> SUFFICES ASSUME IInv, [Next]_vars PROVE TypeOK'
  OBVIOUS
<1> USE RequestsFinite, SharedClientIsNoRequest, NoneIsNothing
    DEF IInv, TypeOK, requestVars, clientVars, connVars, Clients, Tiers, Assignments, Leased
<1>1. ASSUME NEW r \in Requests, NEW a \in Assignments, Start(r, a)
      PROVE TypeOK'
  BY <1>1 DEF Start
<1>2. ASSUME NEW r \in Requests, AcquireFast(r)
      PROVE TypeOK'
  <2>1. Cached(r) \in Clients
    BY <1>2, CachedFits DEF AcquireFast
  <2>2. QED
    BY <1>2, <2>1 DEF AcquireFast, Acquire
<1>3. ASSUME NEW r \in Requests, MissFast(r)
      PROVE TypeOK'
  BY <1>3 DEF MissFast
<1>4. ASSUME NEW r \in Requests, TakeLock(r)
      PROVE TypeOK'
  BY <1>4 DEF TakeLock
<1>5. ASSUME NEW r \in Requests, Replace(r)
      PROVE TypeOK'
  <2>1. want[r].service \in Services /\ want[r].tier \in Tiers
    BY <1>5, CachedFits DEF Replace
  <2>2. UNCHANGED <<want, held, lock, wg, lateDial>>
        /\ pc' = [pc EXCEPT ![r] = "admit"]
    BY <1>5 DEF Replace
  <2>3. /\ waiter' \in [Clients -> {"none", "waiting", "woken", "drained"}]
        /\ idle' \in [Clients -> BOOLEAN]
        /\ closing' \in [Clients -> BOOLEAN]
    <3>1. CASE retire(dedicated[want[r].service])
      <4>1. dedicated[want[r].service] \in Clients
        BY <2>1, <3>1 DEF retire
      <4>2. QED
        BY <3>1, <4>1 DEF retire
    <3>2. CASE UNCHANGED <<waiter, idle, closing>>
      BY <3>2
    <3>3. QED
      BY <1>5, <3>1, <3>2 DEF Replace
  <2>4. dedicated' \in [Services -> Clients \cup {None}] /\ tier' \in [Clients -> Tiers \cup {None}]
    BY <1>5, <2>1 DEF Replace
  <2>5. QED
    BY <2>2, <2>3, <2>4
<1>6. ASSUME NEW r \in Requests, Admit(r)
      PROVE TypeOK'
  <2>1. /\ Cached(r) \in Clients
        /\ Cached(r) = IF want[r].tier = SharedTier
                       THEN SharedClient ELSE dedicated[want[r].service]
    BY <1>6, CachedFits DEF Admit, WriterInv, Cached
  <2>2. QED
    BY <1>6, <2>1 DEF Admit, Acquire
<1>7. ASSUME NEW r \in Requests, GiveUp(r) \/ DialDone(r) \/ DialAbandoned(r)
      PROVE TypeOK'
  BY <1>7 DEF GiveUp, DialDone, DialAbandoned
<1>8. ASSUME NEW r \in Requests, GetConn(r)
      PROVE TypeOK'
  <2>1. held[r] \in Clients
    BY <1>8 DEF GetConn, LockInv
  <2>2. closing' \in [Clients -> BOOLEAN] /\ UNCHANGED <<want, held, clientVars, lateDial>>
    BY <1>8, <2>1 DEF GetConn
  <2>3. pc' \in [Requests -> {"new", "lookup", "contend", "replace", "admit", "done"} \cup Leased]
    BY <1>8 DEF GetConn
  <2>4. idle' \in [Clients -> BOOLEAN]
    BY <1>8, <2>1 DEF GetConn
  <2>5. QED
    BY <2>2, <2>3, <2>4
<1>9. ASSUME NEW r \in Requests, Answer(r) \/ Redirect(r)
      PROVE TypeOK'
  BY <1>9 DEF Answer, Redirect, PutIdle
<1>10. ASSUME NEW r \in Requests, Finish(r)
       PROVE TypeOK'
  <2>1. held[r] \in Clients /\ r \in Holders(held[r])
    BY <1>10 DEF Finish, LockInv, Holders
  <2>2. Holders(held[r]) # {} /\ IsFiniteSet(Holders(held[r]))
    BY <2>1, FS_Subset DEF Holders
  <2>3. wg[held[r]] \in Nat /\ wg[held[r]] # 0
    BY <2>1, <2>2, FS_EmptySet DEF WgCountsLeases
  <2>4. wg[held[r]] - 1 \in Nat
    BY <2>3
  <2>5. QED
    BY <1>10, <2>1, <2>4 DEF Finish
<1>11. ASSUME NEW c \in Clients, LateDialDone(c)
       PROVE TypeOK'
  BY <1>11 DEF LateDialDone, PutIdle
<1>12. ASSUME NEW c \in Clients, WaitReturns(c) \/ FinalClose(c)
       PROVE TypeOK'
  BY <1>12 DEF WaitReturns, FinalClose
<1>13. CASE UNCHANGED vars
  BY <1>13 DEF vars
<1>14. QED
  BY <1>1, <1>2, <1>3, <1>4, <1>5, <1>6, <1>7, <1>8, <1>9, <1>10, <1>11, <1>12, <1>13
  DEF Next, RequestStep

-----------------------------------------------------------------------------
(* The lock, the maps and the clients in them                              *)

\* A request takes the places of a writer only with the write lock.
LEMMA LockStep == IInv /\ [Next]_vars => LockInv'
<1> SUFFICES ASSUME IInv, [Next]_vars PROVE LockInv'
  OBVIOUS
<1> USE NoneIsNothing
    DEF IInv, TypeOK, LockInv, requestVars, clientVars, connVars, Leased, Clients
<1>1. ASSUME NEW r \in Requests, NEW a \in Assignments, Start(r, a)
      PROVE LockInv'
  BY <1>1 DEF Start
<1>2. ASSUME NEW r \in Requests, AcquireFast(r) \/ Admit(r)
      PROVE LockInv'
  <2>1. /\ pc[r] \in {"lookup", "admit"}
        /\ pc' = [pc EXCEPT ![r] = "leased"]
        /\ \E c \in Clients : held' = [held EXCEPT ![r] = c]
        /\ want' = want
    BY <1>2, CachedFits DEF AcquireFast, Admit, Acquire, WriterInv, Cached
  <2>2. (lock = None /\ UNCHANGED lock) \/ (lock = r /\ lock' = None)
    BY <1>2 DEF AcquireFast, Admit
  <2>3. QED
    BY <2>1, <2>2
<1>3. ASSUME NEW r \in Requests, MissFast(r) \/ TakeLock(r) \/ Replace(r)
      PROVE LockInv'
  BY <1>3 DEF MissFast, TakeLock, Replace
<1>4. ASSUME NEW r \in Requests,
             GiveUp(r) \/ GetConn(r) \/ DialDone(r) \/ DialAbandoned(r) \/ Answer(r)
             \/ Redirect(r)
      PROVE LockInv'
  BY <1>4 DEF GiveUp, GetConn, DialDone, DialAbandoned, Answer, Redirect
<1>5. ASSUME NEW r \in Requests, Finish(r)
      PROVE LockInv'
  BY <1>5 DEF Finish
<1>6. ASSUME NEW c \in Clients, LateDialDone(c) \/ WaitReturns(c) \/ FinalClose(c)
      PROVE LockInv'
  BY <1>6 DEF LateDialDone, WaitReturns, FinalClose
<1>7. CASE UNCHANGED vars
  BY <1>7 DEF vars
<1>8. QED
  BY <1>1, <1>2, <1>3, <1>4, <1>5, <1>6, <1>7 DEF Next, RequestStep

\* Only Replace changes the maps, and only the holder of the lock replaces.
LEMMA MapsFrame ==
  ASSUME [Next]_vars, \A r \in Requests : ~Replace(r)
  PROVE  UNCHANGED <<dedicated, tier>>
<1> USE DEF clientVars
<1>1. ASSUME NEW r \in Requests, RequestStep(r)
      PROVE UNCHANGED <<dedicated, tier>>
  BY <1>1 DEF RequestStep, Start, AcquireFast, MissFast, TakeLock, Admit, GiveUp, GetConn,
              DialDone, DialAbandoned, Answer, Redirect, Finish
<1>2. ASSUME NEW c \in Clients, LateDialDone(c) \/ WaitReturns(c) \/ FinalClose(c)
      PROVE UNCHANGED <<dedicated, tier>>
  BY <1>2 DEF LateDialDone, WaitReturns, FinalClose
<1>3. QED
  BY <1>1, <1>2 DEF Next, vars

\* What Replace does, in the terms the invariant needs: r had created no client, and the
\* service had one if r only wants it gone.
LEMMA ReplaceEffect ==
  ASSUME IInv, NEW r \in Requests, Replace(r)
  PROVE  LET s == want[r].service IN
         /\ s \in Services /\ lock = r /\ tier[r] = None /\ waiter[r] = "none"
         /\ \A t \in Services : dedicated[t] # r
         /\ dedicated[s] = None => waiter' = waiter
         /\ dedicated[s] # None => waiter' = [waiter EXCEPT ![dedicated[s]] = "waiting"]
         /\ \/ /\ want[r].tier = SharedTier
               /\ dedicated[s] # None
               /\ dedicated' = [dedicated EXCEPT ![s] = None]
               /\ tier' = tier
            \/ /\ want[r].tier \in DedicatedTiers
               /\ want[r].tier # SharedTier
               /\ dedicated[s] # None => tier[dedicated[s]] # want[r].tier
               /\ dedicated' = [dedicated EXCEPT ![s] = r]
               /\ tier' = [tier EXCEPT ![r] = want[r].tier]
<1> DEFINE s == want[r].service
<1>1. s \in Services /\ want[r].tier \in Tiers
  BY CachedFits DEF Replace
<1>2. lock = r /\ Cached(r) = None
  BY DEF Replace, IInv, LockInv, WriterInv
<1>3. tier[r] = None /\ waiter[r] = "none"
  BY DEF Replace, IInv, CreatedInv, Clients, Leased
<1>4. \A t \in Services : dedicated[t] # r
  BY <1>3, NoneIsNothing DEF IInv, MapInv
<1>5. /\ dedicated[s] = None => waiter' = waiter
      /\ dedicated[s] # None => waiter' = [waiter EXCEPT ![dedicated[s]] = "waiting"]
  BY DEF Replace, retire
<1>6. want[r].tier = SharedTier =>
        dedicated[s] # None /\ dedicated' = [dedicated EXCEPT ![s] = None] /\ tier' = tier
  BY <1>2, NoneIsNothing DEF Replace, Cached
<1>7. want[r].tier # SharedTier =>
        /\ dedicated[s] # None => tier[dedicated[s]] # want[r].tier
        /\ dedicated' = [dedicated EXCEPT ![s] = r]
        /\ tier' = [tier EXCEPT ![r] = want[r].tier]
  BY <1>2 DEF Replace, Cached
<1>8. QED
  BY <1>1, <1>2, <1>3, <1>4, <1>5, <1>6, <1>7 DEF Tiers

\* What a writer read under the lock cannot change before it unlocks.
LEMMA WriterStep == IInv /\ [Next]_vars => WriterInv'
<1> SUFFICES ASSUME IInv, [Next]_vars PROVE WriterInv'
  OBVIOUS
<1>1. CASE \E r \in Requests : Replace(r)
  <2>1. PICK r \in Requests : Replace(r)
    BY <1>1
  <2>2. \A q \in Requests \ {r} : pc[q] \notin {"replace", "admit"}
    BY <2>1, ReplaceEffect DEF IInv, LockInv
  <2>3. pc' = [pc EXCEPT ![r] = "admit"] /\ want' = want
    BY <2>1 DEF Replace
  <2>4. \A q \in Requests \ {r} : pc'[q] = pc[q]
    BY <2>3 DEF IInv, TypeOK
  <2>5. pc'[r] = "admit"
    BY <2>3 DEF IInv, TypeOK
  <2>6. Cached(r)' # None
    BY <2>1, <2>3, ReplaceEffect, NoneIsNothing DEF Cached, IInv, TypeOK, Clients
  <2>7. QED
    BY <2>2, <2>4, <2>5, <2>6 DEF WriterInv
<1>2. CASE \A r \in Requests : ~Replace(r)
  <2>1. UNCHANGED <<dedicated, tier>>
    BY <1>2, MapsFrame
  <2>2. ASSUME NEW r \in Requests, pc'[r] \in {"replace", "admit"}
        PROVE \/ pc'[r] = "replace" /\ Cached(r) = None
              \/ pc'[r] = "admit" /\ Cached(r) # None
    <3>1. ASSUME NEW q \in Requests, RequestStep(q)
          PROVE pc'[r] = pc[r] \/ TakeLock(r)
      BY <1>2, <2>2, <3>1
      DEF IInv, TypeOK, RequestStep, Start, AcquireFast, Acquire, MissFast, TakeLock, Admit,
          GiveUp, GetConn, DialDone, DialAbandoned, Answer, Redirect, Finish
    <3>2. ASSUME NEW c \in Clients, LateDialDone(c) \/ WaitReturns(c) \/ FinalClose(c)
          PROVE pc'[r] = pc[r]
      BY <3>2 DEF LateDialDone, WaitReturns, FinalClose, requestVars
    <3>3. pc'[r] = pc[r] \/ TakeLock(r)
      BY <3>1, <3>2 DEF Next, vars
    <3>4. CASE pc'[r] = pc[r]
      BY <2>2, <3>4 DEF IInv, WriterInv
    <3>5. CASE TakeLock(r)
      BY <3>5 DEF TakeLock, IInv, TypeOK
    <3>6. QED
      BY <3>3, <3>4, <3>5
  <2>3. ASSUME NEW r \in Requests, pc'[r] \in {"replace", "admit"}
        PROVE want'[r] = want[r]
    <3>1. ASSUME NEW q \in Requests, RequestStep(q)
          PROVE want'[r] = want[r]
      BY <2>3, <3>1
      DEF IInv, TypeOK, RequestStep, Start, AcquireFast, MissFast, TakeLock, Replace, Admit,
          GiveUp, GetConn, DialDone, DialAbandoned, Answer, Redirect, Finish
    <3>2. QED
      BY <3>1 DEF Next, vars, LateDialDone, WaitReturns, FinalClose, requestVars
  <2>4. \A r \in Requests : pc'[r] \in {"replace", "admit"} => Cached(r)' = Cached(r)
    BY <2>1, <2>3 DEF Cached
  <2>5. QED
    BY <2>2, <2>4 DEF WriterInv
<1>3. QED
  BY <1>1, <1>2

\* A client keeps its tier, and the goroutine of retire runs for created clients only.
LEMMA CreatedStep == IInv /\ [Next]_vars => CreatedInv'
<1> SUFFICES ASSUME IInv, [Next]_vars PROVE CreatedInv'
  OBVIOUS
<1> USE SharedClientIsNoRequest DEF IInv, TypeOK, CreatedInv, Clients
<1>1. ASSUME NEW r \in Requests, Replace(r)
      PROVE CreatedInv'
  <2>1. pc' = [pc EXCEPT ![r] = "admit"]
    BY <1>1 DEF Replace
  <2>2. \A s \in Services : dedicated[s] # None => dedicated[s] # r /\ tier[dedicated[s]] # None
    BY <1>1, ReplaceEffect DEF MapInv
  <2>3. QED
    BY <1>1, <2>1, <2>2, ReplaceEffect
<1>2. CASE \A r \in Requests : ~Replace(r)
  <2>1. tier' = tier
    BY <1>2, MapsFrame
  <2>2. ASSUME NEW r \in Requests, RequestStep(r)
        PROVE CreatedInv'
    <3>1. waiter' = waiter
      BY <1>2, <2>2
      DEF RequestStep, Start, AcquireFast, MissFast, TakeLock, Admit, GiveUp, GetConn,
          DialDone, DialAbandoned, Answer, Redirect, Finish, clientVars
    <3>2. \A q \in Requests : pc[q] \in {"admit", "done"} \cup Leased =>
                              pc'[q] \in {"admit", "done"} \cup Leased
      BY <1>2, <2>2
      DEF RequestStep, Start, AcquireFast, Acquire, MissFast, TakeLock, Admit, GiveUp, GetConn,
          DialDone, DialAbandoned, Answer, Redirect, Finish, Leased
    <3>3. QED
      BY <2>1, <3>1, <3>2
  <2>3. ASSUME NEW c \in Clients, LateDialDone(c) \/ WaitReturns(c) \/ FinalClose(c)
        PROVE CreatedInv'
    BY <2>1, <2>3 DEF LateDialDone, WaitReturns, FinalClose, requestVars, clientVars
  <2>4. QED
    BY <2>1, <2>2, <2>3 DEF Next, vars
<1>3. QED
  BY <1>1, <1>2

\* The maps hold created clients, each under one service.
LEMMA MapStep == IInv /\ [Next]_vars => MapInv'
<1> SUFFICES ASSUME IInv, [Next]_vars PROVE MapInv'
  OBVIOUS
<1>1. ASSUME NEW r \in Requests, Replace(r)
      PROVE MapInv'
  BY <1>1, ReplaceEffect, NoneIsNothing DEF IInv, TypeOK, MapInv, Clients
<1>2. CASE \A r \in Requests : ~Replace(r)
  BY <1>2, MapsFrame DEF IInv, MapInv
<1>3. QED
  BY <1>1, <1>2

\* Outside Replace nobody starts the goroutine of retire, and it never starts over.
LEMMA WaiterFrame ==
  ASSUME IInv, [Next]_vars, \A r \in Requests : ~Replace(r), NEW c \in Clients
  PROVE  Retired(c)' <=> Retired(c)
<1>1. ASSUME NEW r \in Requests, RequestStep(r)
      PROVE waiter' = waiter
  BY <1>1
  DEF RequestStep, Start, AcquireFast, MissFast, TakeLock, Admit, GiveUp, GetConn, DialDone,
      DialAbandoned, Answer, Redirect, Finish, clientVars
<1>2. ASSUME NEW d \in Clients, LateDialDone(d) \/ WaitReturns(d) \/ FinalClose(d)
      PROVE Retired(c)' <=> Retired(c)
  BY <1>2 DEF LateDialDone, WaitReturns, FinalClose, clientVars, Retired, IInv, TypeOK
<1>3. QED
  BY <1>1, <1>2 DEF Next, vars, Retired

\* Replace moves a client from the maps to its retirement in one step.
LEMMA PublishedStep == IInv /\ [Next]_vars => PublishedXorRetired'
<1> SUFFICES ASSUME IInv, [Next]_vars PROVE PublishedXorRetired'
  OBVIOUS
<1>1. ASSUME NEW r \in Requests, Replace(r)
      PROVE PublishedXorRetired'
  <2> DEFINE s == want[r].service
             old == dedicated[s]
  <2> SUFFICES ASSUME NEW c \in Clients, tier'[c] # None
               PROVE Published(c)' <=> ~Retired(c)'
    BY DEF PublishedXorRetired
  <2>1. s \in Services /\ tier[r] = None
    BY <1>1, ReplaceEffect
  <2>2. CASE c = r
    <3>1. dedicated'[s] = r /\ waiter'[r] = "none"
      BY <1>1, <2>2, ReplaceEffect, NoneIsNothing DEF IInv, TypeOK
    <3>2. QED
      BY <2>1, <2>2, <3>1 DEF Published, Retired
  <2>3. CASE c # r /\ c = old
    <3>1. \A t \in Services : dedicated'[t] # c
      BY <1>1, <2>1, <2>3, ReplaceEffect, NoneIsNothing DEF IInv, TypeOK, MapInv, Clients
    <3>2. c # SharedClient /\ waiter'[c] = "waiting"
      BY <1>1, <2>1, <2>3, ReplaceEffect, NoneIsNothing, SharedClientIsNoRequest
      DEF IInv, TypeOK, MapInv, Clients
    <3>3. QED
      BY <3>1, <3>2 DEF Published, Retired
  <2>4. CASE c # r /\ c # old
    <3>1. tier[c] # None /\ waiter'[c] = waiter[c]
      BY <1>1, <2>4, ReplaceEffect DEF IInv, TypeOK
    <3>2. \A t \in Services : dedicated'[t] = c <=> dedicated[t] = c
      BY <1>1, <2>1, <2>4, ReplaceEffect, NoneIsNothing DEF IInv, TypeOK, Clients
    <3>3. QED
      BY <3>1, <3>2 DEF Published, Retired, PublishedXorRetired, IInv
  <2>5. QED
    BY <2>2, <2>3, <2>4
<1>2. CASE \A r \in Requests : ~Replace(r)
  <2>1. UNCHANGED <<dedicated, tier>>
    BY <1>2, MapsFrame
  <2>2. \A c \in Clients : Retired(c)' <=> Retired(c)
    BY <1>2, WaiterFrame
  <2>3. QED
    BY <2>1, <2>2 DEF PublishedXorRetired, Published, IInv
<1>3. QED
  BY <1>1, <1>2

-----------------------------------------------------------------------------
(* Leases                                                                  *)

\* Taking a lease: AcquireFast and Admit hand out the same thing, a client that is in the
\* maps, has the wanted tier and is not retired.
LEMMA LeaseTaken ==
  ASSUME IInv, NEW r \in Requests, AcquireFast(r) \/ Admit(r)
  PROVE  \E c \in Clients :
            /\ Published(c) /\ tier[c] = want[r].tier /\ tier[c] # None /\ waiter[c] = "none"
            /\ pc[r] \notin Leased /\ held[r] = None
            /\ Acquire(r, c)
            /\ UNCHANGED <<want, dedicated, tier, waiter, connVars>>
<1>1. Cached(r) # None /\ pc[r] \in {"lookup", "admit"}
  BY DEF AcquireFast, Admit, IInv, WriterInv
<1>2. Acquire(r, Cached(r)) /\ UNCHANGED <<want, dedicated, tier, waiter, connVars>>
  BY <1>1 DEF AcquireFast, Admit, Cached
<1>3. Cached(r) \in Clients /\ Published(Cached(r)) /\ tier[Cached(r)] = want[r].tier
  BY <1>1, CachedFits
<1>4. want[r].tier \in Tiers
  BY <1>1, CachedFits
<1>5. tier[Cached(r)] # None
  BY <1>3, <1>4, NoneIsNothing DEF Tiers
<1>6. waiter[Cached(r)] = "none"
  BY <1>3, <1>5 DEF IInv, PublishedXorRetired, Retired
<1>7. pc[r] \notin Leased /\ held[r] = None
  BY <1>1 DEF Leased, IInv, LockInv
<1>8. QED
  BY <1>2, <1>3, <1>5, <1>6, <1>7

\* Taking a lease adds the request to the holders of that client alone.
LEMMA HoldersTaken ==
  ASSUME TypeOK, NEW r \in Requests, NEW c \in Clients, Acquire(r, c), pc[r] \notin Leased
  PROVE  /\ r \notin Holders(c)
         /\ Holders(c)' = Holders(c) \cup {r}
         /\ \A d \in Clients \ {c} : Holders(d)' = Holders(d)
  BY DEF TypeOK, Acquire, Holders, Leased

\* Finish gives back the request's own lease.
LEMMA HoldersReturned ==
  ASSUME IInv, NEW r \in Requests, Finish(r)
  PROVE  \E c \in Clients :
            /\ c = held[r]
            /\ r \in Holders(c)
            /\ Holders(c)' = Holders(c) \ {r}
            /\ \A d \in Clients \ {c} : Holders(d)' = Holders(d)
<1> DEFINE c == held[r]
<1>1. c \in Clients
  BY DEF IInv, TypeOK, LockInv, Finish, Leased
<1>2. r \in Holders(c)
  BY DEF Finish, Holders, Leased
<1>3. \A q \in Requests : /\ pc'[q] = IF q = r THEN "done" ELSE pc[q]
                          /\ held'[q] = IF q = r THEN None ELSE held[q]
  BY DEF IInv, TypeOK, Finish
<1>4. PICK d \in Clients : d = c
  BY <1>1
<1>5. Holders(d)' = Holders(d) \ {r}
  BY <1>3, NoneIsNothing DEF Holders, Leased, Clients
<1>6. \A e \in Clients \ {d} : Holders(e)' = Holders(e)
  BY <1>3, <1>4, NoneIsNothing DEF Holders, Leased, Clients
<1>7. QED
  BY <1>2, <1>4, <1>5, <1>6

\* No other step changes who holds what, or any counter.
LEMMA HoldersFrame ==
  ASSUME IInv, [Next]_vars, \A r \in Requests : ~AcquireFast(r) /\ ~Admit(r) /\ ~Finish(r)
  PROVE  wg' = wg /\ held' = held /\ \A c \in Clients : Holders(c)' = Holders(c)
<1>1. ASSUME NEW r \in Requests, RequestStep(r)
      PROVE /\ wg' = wg /\ held' = held
            /\ \A q \in Requests : pc'[q] \in Leased <=> pc[q] \in Leased
  BY <1>1
  DEF IInv, TypeOK, RequestStep, Start, MissFast, TakeLock, Replace, GiveUp, GetConn, DialDone,
      DialAbandoned, Answer, Redirect, Leased, clientVars
<1>2. ASSUME NEW c \in Clients, LateDialDone(c) \/ WaitReturns(c) \/ FinalClose(c)
      PROVE wg' = wg /\ held' = held /\ pc' = pc
  BY <1>2 DEF LateDialDone, WaitReturns, FinalClose, requestVars, clientVars
<1>3. wg' = wg /\ held' = held /\ \A q \in Requests : pc'[q] \in Leased <=> pc[q] \in Leased
  BY <1>1, <1>2 DEF Next, vars
<1>4. QED
  BY <1>3 DEF Holders

\* The tier of a leased client is the wanted one and stays it.
LEMMA LeaseStep == IInv /\ [Next]_vars => LeaseHasAssignedTier'
<1> SUFFICES ASSUME IInv, [Next]_vars, NEW q \in Requests, pc'[q] \in Leased
             PROVE tier'[held'[q]] = want'[q].tier
  BY DEF LeaseHasAssignedTier
<1>1. CASE \E r \in Requests : AcquireFast(r) \/ Admit(r)
  <2>1. PICK r \in Requests : AcquireFast(r) \/ Admit(r)
    BY <1>1
  <2>2. PICK c \in Clients : /\ tier[c] = want[r].tier
                            /\ Acquire(r, c)
                            /\ UNCHANGED <<want, tier>>
    BY <2>1, LeaseTaken
  <2>3. CASE q = r
    BY <2>2, <2>3 DEF Acquire, IInv, TypeOK
  <2>4. CASE q # r
    BY <2>2, <2>4 DEF Acquire, IInv, TypeOK, LeaseHasAssignedTier
  <2>5. QED
    BY <2>3, <2>4
<1>2. CASE \E r \in Requests : Finish(r)
  BY <1>2 DEF Finish, IInv, TypeOK, LeaseHasAssignedTier, Leased
<1>3. CASE \A r \in Requests : ~AcquireFast(r) /\ ~Admit(r) /\ ~Finish(r)
  <2>1. held' = held /\ \A c \in Clients : Holders(c)' = Holders(c)
    BY <1>3, HoldersFrame
  <2>2. held'[q] # None
    BY LockStep DEF LockInv
  <2>3. pc[q] \in Leased /\ held[q] \in Clients
    BY <2>1, <2>2 DEF IInv, LockInv, TypeOK
  <2>4. tier[held[q]] = want[q].tier /\ want[q].tier # None
    <3>1. want[q].tier \in Tiers
      BY <2>3, CachedFits DEF Leased
    <3>2. QED
      BY <2>3, <3>1, NoneIsNothing DEF IInv, LeaseHasAssignedTier, Tiers
  <2>5. want'[q] = want[q]
    <3>1. ASSUME NEW r \in Requests, RequestStep(r)
          PROVE want'[q] = want[q]
      BY <2>3, <3>1
      DEF IInv, TypeOK, RequestStep, Start, AcquireFast, MissFast, TakeLock, Replace, Admit,
          GiveUp, GetConn, DialDone, DialAbandoned, Answer, Redirect, Finish, Leased
    <3>2. QED
      BY <3>1 DEF Next, vars, LateDialDone, WaitReturns, FinalClose, requestVars
  <2>6. tier'[held[q]] = tier[held[q]]
    <3>1. ASSUME NEW r \in Requests, Replace(r)
          PROVE tier'[held[q]] = tier[held[q]]
      BY <2>3, <2>4, <3>1, ReplaceEffect DEF IInv, TypeOK
    <3>2. CASE \A r \in Requests : ~Replace(r)
      BY <3>2, MapsFrame
    <3>3. QED
      BY <3>1, <3>2
  <2>7. QED
    BY <2>1, <2>4, <2>5, <2>6
<1>4. QED
  BY <1>1, <1>2, <1>3

\* The counters follow the holders through every step.
LEMMA WgStep == IInv /\ [Next]_vars => WgCountsLeases'
<1> SUFFICES ASSUME IInv, [Next]_vars PROVE WgCountsLeases'
  OBVIOUS
<1>1. \A c \in Clients : IsFiniteSet(Holders(c))
  BY RequestsFinite, FS_Subset DEF Holders
<1>2. CASE \E r \in Requests : AcquireFast(r) \/ Admit(r)
  <2>1. PICK r \in Requests, c \in Clients : pc[r] \notin Leased /\ Acquire(r, c)
    BY <1>2, LeaseTaken
  <2>2. /\ r \notin Holders(c)
        /\ Holders(c)' = Holders(c) \cup {r}
        /\ \A d \in Clients \ {c} : Holders(d)' = Holders(d)
    BY <2>1, HoldersTaken DEF IInv
  <2>3. Cardinality(Holders(c)') = Cardinality(Holders(c)) + 1
    BY <1>1, <2>2, FS_AddElement
  <2>4. wg' = [wg EXCEPT ![c] = @ + 1]
    BY <2>1 DEF Acquire
  <2>5. QED
    BY <2>2, <2>3, <2>4 DEF WgCountsLeases, IInv, TypeOK
<1>3. CASE \E r \in Requests : Finish(r)
  <2>1. PICK r \in Requests : Finish(r)
    BY <1>3
  <2>2. PICK c \in Clients : /\ c = held[r]
                            /\ r \in Holders(c)
                            /\ Holders(c)' = Holders(c) \ {r}
                            /\ \A d \in Clients \ {c} : Holders(d)' = Holders(d)
    BY <2>1, HoldersReturned
  <2>3. Cardinality(Holders(c)') = Cardinality(Holders(c)) - 1
    BY <1>1, <2>2, FS_RemoveElement
  <2>4. wg' = [wg EXCEPT ![c] = @ - 1]
    BY <2>1, <2>2 DEF Finish
  <2>5. QED
    BY <2>2, <2>3, <2>4 DEF WgCountsLeases, IInv, TypeOK
<1>4. CASE \A r \in Requests : ~AcquireFast(r) /\ ~Admit(r) /\ ~Finish(r)
  BY <1>4, HoldersFrame DEF WgCountsLeases, IInv
<1>5. QED
  BY <1>2, <1>3, <1>4

-----------------------------------------------------------------------------
(* Retirement                                                              *)

\* A client whose goroutine is past Wait is out of reach: no request holds it, so none can
\* give it a connection, and a dial nobody waits for finds the transport closing.
LEMMA DrainStep == IInv /\ [Next]_vars => DrainInv'
<1> SUFFICES ASSUME IInv, [Next]_vars, NEW c \in Clients
             PROVE /\ waiter'[c] \in {"woken", "drained"} => Holders(c)' = {}
                   /\ waiter'[c] = "drained" => ~idle'[c] /\ closing'[c]
  BY DEF DrainInv
<1> DEFINE Goal == /\ waiter'[c] \in {"woken", "drained"} => Holders(c)' = {}
                   /\ waiter'[c] = "drained" => ~idle'[c] /\ closing'[c]
<1>1. /\ waiter[c] \in {"woken", "drained"} => Holders(c) = {}
      /\ waiter[c] = "drained" => ~idle[c] /\ closing[c]
  BY DEF IInv, DrainInv
<1>2. ASSUME NEW r \in Requests, AcquireFast(r) \/ Admit(r)
      PROVE Goal
  <2>1. PICK d \in Clients : /\ waiter[d] = "none"
                            /\ pc[r] \notin Leased /\ Acquire(r, d)
                            /\ UNCHANGED <<waiter, connVars>>
    BY <1>2, LeaseTaken
  <2>2. CASE c = d
    BY <2>1, <2>2
  <2>3. CASE c # d
    <3>1. Holders(c)' = Holders(c)
      BY <2>1, <2>3, HoldersTaken DEF IInv
    <3>2. QED
      BY <1>1, <2>1, <3>1 DEF connVars
  <2>4. QED
    BY <2>2, <2>3
<1>3. ASSUME NEW r \in Requests, Finish(r)
      PROVE Goal
  <2>1. Holders(c)' \subseteq Holders(c)
    BY <1>3, HoldersReturned
  <2>2. UNCHANGED <<waiter, connVars>>
    BY <1>3 DEF Finish
  <2>3. QED
    BY <1>1, <2>1, <2>2 DEF connVars
<1>4. CASE \A r \in Requests : ~AcquireFast(r) /\ ~Admit(r) /\ ~Finish(r)
  <2>1. Holders(c)' = Holders(c)
    BY <1>4, HoldersFrame
  <2>2. ASSUME NEW r \in Requests, MissFast(r) \/ TakeLock(r) \/ GiveUp(r) \/ DialDone(r)
                                    \/ DialAbandoned(r)
        PROVE Goal
    BY <1>1, <2>1, <2>2
    DEF MissFast, TakeLock, GiveUp, DialDone, DialAbandoned, clientVars, connVars
  <2>3. ASSUME NEW r \in Requests, Replace(r)
        PROVE Goal
    <3>1. CASE waiter' = waiter /\ idle' = idle /\ closing' = closing
      BY <1>1, <2>1, <3>1
    <3>2. CASE retire(dedicated[want[r].service])
      BY <1>1, <2>1, <3>2 DEF retire, IInv, TypeOK
    <3>3. QED
      BY <2>3, <3>1, <3>2 DEF Replace
  <2>4. ASSUME NEW r \in Requests, GetConn(r) \/ Answer(r) \/ Redirect(r)
        PROVE Goal
    <3>1. r \in Holders(held[r])
      BY <2>4 DEF GetConn, Answer, Redirect, Holders, Leased
    <3>2. waiter' = waiter
      BY <2>4 DEF GetConn, Answer, Redirect, clientVars
    <3>3. CASE c = held[r]
      BY <1>1, <3>1, <3>2, <3>3 DEF IInv, TypeOK
    <3>4. CASE c # held[r]
      BY <1>1, <2>1, <2>4, <3>2, <3>4 DEF GetConn, Answer, Redirect, PutIdle, IInv, TypeOK
    <3>5. QED
      BY <3>3, <3>4
  <2>5. ASSUME NEW d \in Clients, LateDialDone(d)
        PROVE Goal
    BY <1>1, <2>1, <2>5 DEF LateDialDone, PutIdle, clientVars, IInv, TypeOK
  <2>6. ASSUME NEW d \in Clients, WaitReturns(d)
        PROVE Goal
    <3>1. CASE c = d
      <4>1. IsFiniteSet(Holders(c)) /\ Cardinality(Holders(c)) = 0
        BY <2>6, <3>1, RequestsFinite, FS_Subset DEF WaitReturns, IInv, WgCountsLeases, Holders
      <4>2. Holders(c) = {}
        BY <4>1, FS_EmptySet
      <4>3. QED
        BY <2>1, <2>6, <3>1, <4>2 DEF WaitReturns, IInv, TypeOK
    <3>2. CASE c # d
      BY <1>1, <2>1, <2>6, <3>2 DEF WaitReturns, connVars, IInv, TypeOK
    <3>3. QED
      BY <3>1, <3>2
  <2>7. ASSUME NEW d \in Clients, FinalClose(d)
        PROVE Goal
    BY <1>1, <2>1, <2>7 DEF FinalClose, IInv, TypeOK
  <2>8. CASE UNCHANGED vars
    BY <1>1, <2>1, <2>8 DEF vars
  <2>9. ASSUME NEW r \in Requests, NEW a \in Assignments, Start(r, a)
        PROVE Goal
    BY <1>1, <2>1, <2>9 DEF Start, clientVars, connVars
  <2>10. QED
    BY <1>4, <2>2, <2>3, <2>4, <2>5, <2>6, <2>7, <2>8, <2>9 DEF Next, RequestStep
<1>5. QED
  BY <1>2, <1>3, <1>4

-----------------------------------------------------------------------------
(* The theorems                                                            *)

\* The invariant holds before the first request.
LEMMA InitIInv == Init => IInv
<1> SUFFICES ASSUME Init PROVE IInv
  OBVIOUS
<1> USE NoneIsNothing, SharedClientIsNoRequest DEF Init, Clients
<1>1. TypeOK
  BY DEF TypeOK, Tiers
<1>2. LockInv /\ WriterInv
  BY DEF LockInv, WriterInv, Leased
<1>3. CreatedInv /\ MapInv
  BY DEF CreatedInv, MapInv, Tiers
<1>4. PublishedXorRetired
  BY DEF PublishedXorRetired, Published, Retired
<1>5. \A c \in Clients : Holders(c) = {}
  BY DEF Holders, Leased
<1>6. LeaseHasAssignedTier /\ WgCountsLeases
  BY <1>5, FS_EmptySet DEF LeaseHasAssignedTier, WgCountsLeases, Leased
<1>7. DrainInv
  BY <1>5 DEF DrainInv
<1>8. QED
  BY <1>1, <1>2, <1>3, <1>4, <1>6, <1>7 DEF IInv

\* The invariant is inductive: every step of Acquire, of Handle and of the goroutine of
\* retire keeps it.
THEOREM Invariance == Spec => []IInv
<1>1. IInv /\ [Next]_vars => IInv'
  BY TypeStep, LockStep, WriterStep, CreatedStep, MapStep, PublishedStep, LeaseStep, WgStep,
     DrainStep DEF IInv
<1>2. QED
  BY InitIInv, <1>1, PTL DEF Spec

\* Types, and with them: no wg.Done ever takes a counter below zero (client.go:88-90).
THEOREM TypeCorrect == Spec => []TypeOK
<1>1. IInv => TypeOK
  BY DEF IInv
<1>2. QED
  BY Invariance, <1>1, PTL

\* The WaitGroup of every client counts the leases that are out.
THEOREM LeasesAreCounted == Spec => []WgCountsLeases
<1>1. IInv => WgCountsLeases
  BY DEF IInv
<1>2. QED
  BY Invariance, <1>1, PTL

\* A created client is in the coordinator's maps or retired, and not both.
THEOREM NoClientIsLost == Spec => []PublishedXorRetired
<1>1. IInv => PublishedXorRetired
  BY DEF IInv
<1>2. QED
  BY Invariance, <1>1, PTL

\* A request holds a client of the tier that the policy assigned it.
THEOREM LeaseFits == Spec => []LeaseHasAssignedTier
<1>1. IInv => LeaseHasAssignedTier
  BY DEF IInv
<1>2. QED
  BY Invariance, <1>1, PTL

\* The last closeIdleConnections of a retired client is the last word: no request holds
\* the client and no connection is left in its transport.
THEOREM DrainIsSafe == Spec => []DrainedIsUnused
<1>1. IInv => DrainedIsUnused
  BY DEF IInv, DrainInv, DrainedIsUnused
<1>2. QED
  BY Invariance, <1>1, PTL

\* wg.Add never comes after retire, the condition under which its Wait is sound.
THEOREM RetiredIsNotLent == Spec => NoLeaseAfterRetire
<1>1. ASSUME IInv, [Next]_vars, NEW c \in Clients, Retired(c)
      PROVE wg'[c] <= wg[c]
  <2>1. \A d \in Clients : wg[d] \in Nat
    BY <1>1 DEF IInv, TypeOK
  <2>2. CASE \E r \in Requests : AcquireFast(r) \/ Admit(r)
    <3>1. PICK r \in Requests, d \in Clients : waiter[d] = "none" /\ Acquire(r, d)
      BY <1>1, <2>2, LeaseTaken
    <3>2. c # d
      BY <1>1, <3>1 DEF Retired
    <3>3. QED
      BY <1>1, <2>1, <3>1, <3>2 DEF Acquire, IInv, TypeOK
  <2>3. CASE \E r \in Requests : Finish(r)
    BY <1>1, <2>1, <2>3 DEF Finish, IInv, TypeOK
  <2>4. CASE \A r \in Requests : ~AcquireFast(r) /\ ~Admit(r) /\ ~Finish(r)
    BY <1>1, <2>1, <2>4, HoldersFrame
  <2>5. QED
    BY <2>2, <2>3, <2>4
<1>2. IInv /\ [Next]_vars => [\A c \in Clients : Retired(c) => wg'[c] <= wg[c]]_vars
  BY <1>1
<1>3. QED
  BY Invariance, <1>2, PTL DEF Spec, NoLeaseAfterRetire

\* A dedicated client is replaced for another tier only.
THEOREM NoNeedlessReplacement == Spec => ReplacedOnlyByAnotherTier
<1>1. ASSUME IInv, [Next]_vars, NEW s \in Services,
             dedicated[s] # None, dedicated'[s] # None, dedicated'[s] # dedicated[s]
      PROVE tier'[dedicated'[s]] # tier[dedicated[s]]
  <2>1. PICK r \in Requests : Replace(r)
    BY <1>1, MapsFrame
  <2>2. /\ want[r].service \in Services
        /\ \/ dedicated' = [dedicated EXCEPT ![want[r].service] = None]
           \/ /\ dedicated' = [dedicated EXCEPT ![want[r].service] = r]
              /\ tier' = [tier EXCEPT ![r] = want[r].tier]
              /\ \/ dedicated[want[r].service] = None
                 \/ tier[dedicated[want[r].service]] # want[r].tier
    BY <1>1, <2>1, ReplaceEffect
  <2>3. want[r].service = s /\ dedicated'[s] = r
    BY <1>1, <2>2 DEF IInv, TypeOK
  <2>4. tier'[r] = want[r].tier /\ tier[dedicated[s]] # want[r].tier
    BY <1>1, <2>2, <2>3 DEF IInv, TypeOK, Clients
  <2>5. QED
    BY <2>3, <2>4
<1>2. IInv /\ [Next]_vars =>
        [\A s \in Services :
            (dedicated[s] # None /\ dedicated'[s] # None /\ dedicated'[s] # dedicated[s])
                => tier'[dedicated'[s]] # tier[dedicated[s]]]_vars
  BY <1>1
<1>3. QED
  BY Invariance, <1>2, PTL DEF Spec, ReplacedOnlyByAnotherTier

-----------------------------------------------------------------------------
(* Refinement                                                              *)

absPhase == [c \in Clients |-> PhaseOf(c)]
absHolders == [c \in Clients |-> Holders(c)]

\* Where neither the tiers nor the goroutines of retire move, no client changes phase.
LEMMA PhaseFrame ==
  ASSUME UNCHANGED <<tier, waiter>>
  PROVE  absPhase' = absPhase
  BY DEF absPhase, PhaseOf

\* A client in the maps is open.
LEMMA PublishedIsOpen ==
  ASSUME IInv, NEW c \in Clients, tier[c] # None, Published(c)
  PROVE  PhaseOf(c) = "open"
  BY DEF IInv, PublishedXorRetired, Retired, PhaseOf

\* A lease is taken of a client that is handed out.
LEMMA LendStep ==
  ASSUME IInv, NEW r \in Requests, AcquireFast(r) \/ Admit(r)
  PROVE  Lifecycle!Next
<1>1. PICK c \in Clients : /\ Published(c) /\ tier[c] # None
                          /\ pc[r] \notin Leased /\ Acquire(r, c)
                          /\ UNCHANGED <<tier, waiter>>
  BY LeaseTaken
<1>2. absPhase[c] = "open" /\ absPhase' = absPhase
  BY <1>1, PublishedIsOpen, PhaseFrame DEF absPhase
<1>3. \A d \in Clients : r \notin absHolders[d]
  BY <1>1 DEF absHolders, Holders
<1>4. absHolders' = [absHolders EXCEPT ![c] = @ \cup {r}]
  BY <1>1, HoldersTaken DEF IInv, absHolders
<1>5. Lifecycle!Lend(r, c)
  BY <1>2, <1>3, <1>4 DEF Lifecycle!Lend, absPhase, absHolders
<1>6. QED
  BY <1>5 DEF Lifecycle!Next

\* A lease is given back.
LEMMA ReturnStep ==
  ASSUME IInv, NEW r \in Requests, Finish(r)
  PROVE  Lifecycle!Next
<1>1. PICK c \in Clients : /\ r \in Holders(c)
                          /\ Holders(c)' = Holders(c) \ {r}
                          /\ \A d \in Clients \ {c} : Holders(d)' = Holders(d)
  BY HoldersReturned
<1>2. absHolders' = [absHolders EXCEPT ![c] = @ \ {r}] /\ r \in absHolders[c]
  BY <1>1 DEF absHolders
<1>3. absPhase' = absPhase
  BY PhaseFrame DEF Finish
<1>4. Lifecycle!Return(r, c)
  BY <1>2, <1>3 DEF Lifecycle!Return, absPhase, absHolders
<1>5. QED
  BY <1>4 DEF Lifecycle!Next

\* A replacement opens one client and retires at most one.
LEMMA SwitchStep ==
  ASSUME IInv, [Next]_vars, NEW r \in Requests, Replace(r)
  PROVE  Lifecycle!Next
<1> DEFINE s == want[r].service
           old == dedicated[s]
<1>1. s \in Services /\ tier[r] = None /\ waiter[r] = "none"
  BY ReplaceEffect
<1>2. absHolders' = absHolders
  <2>1. \A q \in Requests : ~AcquireFast(q) /\ ~Admit(q) /\ ~Finish(q)
    <3>1. pc[r] = "replace" /\ pc' = [pc EXCEPT ![r] = "admit"]
      BY DEF Replace
    <3>2. QED
      BY <3>1 DEF AcquireFast, Admit, Acquire, Finish, IInv, TypeOK
  <2>2. QED
    BY <2>1, HoldersFrame DEF absHolders
<1>3. absPhase[r] = "absent"
  BY <1>1 DEF absPhase, PhaseOf, Clients
<1>4. old # None => old \in Clients /\ old # SharedClient /\ old # r /\ absPhase[old] = "open"
  <2>1. ASSUME old # None
        PROVE old \in Requests /\ tier[old] # None
    BY <1>1, <2>1 DEF IInv, MapInv
  <2>2. ASSUME old # None
        PROVE absPhase[old] = "open"
    BY <1>1, <2>1, <2>2, PublishedIsOpen DEF absPhase, Published, Clients
  <2>3. QED
    BY <1>1, <2>1, <2>2, SharedClientIsNoRequest DEF Clients
<1>5. CASE old # None /\ want[r].tier = SharedTier
  <2>1. tier' = tier /\ waiter' = [waiter EXCEPT ![old] = "waiting"]
    BY <1>5, ReplaceEffect
  <2>2. absPhase' = [absPhase EXCEPT ![old] = "retired"]
    BY <1>4, <1>5, <2>1 DEF absPhase, PhaseOf, IInv, TypeOK
  <2>3. Lifecycle!Retire(old)
    BY <1>2, <1>4, <1>5, <2>2 DEF Lifecycle!Retire, absPhase, absHolders
  <2>4. QED
    BY <1>4, <1>5, <2>3 DEF Lifecycle!Next
<1>6. CASE want[r].tier # SharedTier
  <2>1. tier' = [tier EXCEPT ![r] = want[r].tier] /\ want[r].tier # None
    BY <1>6, ReplaceEffect, NoneIsNothing
  <2>2. CASE old = None
    <3>1. waiter' = waiter
      BY <2>2, ReplaceEffect
    <3>2. absPhase' = [absPhase EXCEPT ![r] = "open"]
      BY <1>1, <2>1, <3>1 DEF absPhase, PhaseOf, IInv, TypeOK, Clients
    <3>3. Lifecycle!Open(r)
      BY <1>2, <1>3, <3>2 DEF Lifecycle!Open, absPhase, absHolders
    <3>4. QED
      BY <3>3 DEF Lifecycle!Next, Clients
  <2>3. CASE old # None
    <3>1. waiter' = [waiter EXCEPT ![old] = "waiting"]
      BY <2>3, ReplaceEffect
    <3>2. absPhase' = [absPhase EXCEPT ![old] = "retired", ![r] = "open"]
      BY <1>1, <1>4, <2>1, <2>3, <3>1 DEF absPhase, PhaseOf, IInv, TypeOK, Clients
    <3>3. Lifecycle!Replace(old, r)
      BY <1>2, <1>3, <1>4, <2>3, <3>2 DEF Lifecycle!Replace, absPhase, absHolders
    <3>4. QED
      BY <1>4, <2>3, <3>3 DEF Lifecycle!Next, Clients
  <2>4. QED
    BY <2>2, <2>3
<1>7. old = None => want[r].tier # SharedTier
  BY ReplaceEffect
<1>8. QED
  BY <1>5, <1>6, <1>7

\* The goroutine of a retired client drains it, or changes nothing that counts.
LEMMA RetirementStep ==
  ASSUME IInv, [Next]_vars, NEW c \in Clients, WaitReturns(c) \/ FinalClose(c)
  PROVE  Lifecycle!Next \/ UNCHANGED <<absPhase, absHolders>>
<1>1. tier' = tier /\ pc' = pc /\ held' = held
  BY DEF WaitReturns, FinalClose, requestVars
<1>2. absHolders' = absHolders
  BY <1>1 DEF absHolders, Holders
<1>3. CASE WaitReturns(c)
  BY <1>1, <1>2, <1>3 DEF WaitReturns, absPhase, PhaseOf, IInv, TypeOK
<1>4. CASE FinalClose(c)
  <2>1. absPhase[c] = "retired" /\ absHolders[c] = {}
    BY <1>4 DEF FinalClose, absPhase, PhaseOf, absHolders, IInv, DrainInv
  <2>2. absPhase' = [absPhase EXCEPT ![c] = "drained"]
    BY <1>1, <1>4 DEF FinalClose, absPhase, PhaseOf, IInv, TypeOK
  <2>3. Lifecycle!Drain(c)
    BY <1>2, <2>1, <2>2 DEF Lifecycle!Drain, absPhase, absHolders
  <2>4. QED
    BY <2>3 DEF Lifecycle!Next
<1>5. QED
  BY <1>3, <1>4

\* The coordinator, its locks, fast paths and goroutines together, implements the life
\* cycle: no step lends a retired client or drains one that a request holds.
THEOREM ImplementsLifecycle == Spec => LifecycleSpec
<1>1. Init => Lifecycle!Init
  BY NoneIsNothing, SharedClientIsNoRequest
  DEF Init, Lifecycle!Init, PhaseOf, Holders, Leased, Tiers, Clients
<1>2. ASSUME IInv, [Next]_vars
      PROVE Lifecycle!Next \/ UNCHANGED <<absPhase, absHolders>>
  <2>1. CASE \E r \in Requests : AcquireFast(r) \/ Admit(r)
    BY <1>2, <2>1, LendStep
  <2>2. CASE \E r \in Requests : Finish(r)
    BY <1>2, <2>2, ReturnStep
  <2>3. CASE \E r \in Requests : Replace(r)
    BY <1>2, <2>3, SwitchStep
  <2>4. CASE \E c \in Clients : WaitReturns(c) \/ FinalClose(c)
    BY <1>2, <2>4, RetirementStep
  <2>5. ASSUME \A r \in Requests : ~AcquireFast(r) /\ ~Admit(r) /\ ~Finish(r),
               \A r \in Requests : ~Replace(r),
               \A c \in Clients : ~WaitReturns(c) /\ ~FinalClose(c)
        PROVE UNCHANGED <<absPhase, absHolders>>
    <3>1. absHolders' = absHolders
      BY <1>2, <2>5, HoldersFrame DEF absHolders
    <3>2. waiter' = waiter
      BY <1>2, <2>5
      DEF Next, vars, RequestStep, Start, MissFast, TakeLock, GiveUp, GetConn, DialDone,
          DialAbandoned, Answer, Redirect, LateDialDone, clientVars
    <3>3. tier' = tier
      BY <1>2, <2>5, MapsFrame
    <3>4. QED
      BY <3>1, <3>2, <3>3, PhaseFrame
  <2>6. QED
    BY <2>1, <2>2, <2>3, <2>4, <2>5
<1>3. IInv /\ [Next]_vars => [Lifecycle!Next]_(Lifecycle!vars)
  BY <1>2 DEF Lifecycle!vars, absPhase, absHolders
<1>4. QED
  BY Invariance, <1>1, <1>3, PTL DEF Spec, LifecycleSpec, Lifecycle!Spec
=============================================================================

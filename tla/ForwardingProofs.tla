--------------------------- MODULE ForwardingProofs ---------------------------
(***************************************************************************)
(* Proofs about Forwarding, for any finite set of requests and any pools,  *)
(* statuses of upstreams and refusals.                                     *)
(***************************************************************************)
EXTENDS Forwarding, FiniteSetTheorems, TLAPS

\* Before the upstream was asked nothing has been written, and nothing went wrong.
Untouched(r) ==
    pc[r] \in {"new", "received", "leased", "selected"} =>
        ~written[r] /\ upstream[r] = 0 /\ error[r] = None

\* While an answer or a tunnel is being copied, what is noted and written is the upstream's.
CopiesUpstream(r) ==
    /\ pc[r] = "copying" =>
        /\ error[r] = None /\ upstream[r] = noted[r] /\ noted[r] \in UpstreamStatuses
        /\ written[r] => authors[r] = {"upstream"} /\ sent[r] = upstream[r]
    /\ pc[r] = "switching" =>
        ~written[r] /\ error[r] = None /\ upstream[r] = SwitchingProtocols
    /\ pc[r] = "tunnel" =>
        /\ written[r] /\ authors[r] = {"upstream"}
        /\ upstream[r] = SwitchingProtocols /\ sent[r] = upstream[r]

SoleAuthor(r) == authors[r] \in {{"upstream"}, {"pool"}, {"receive"}}

\* Written() is what decides who answers: nothing was sent without it, one party has written
\* with it, and on the way back it is either set, or there is an error or an answer without a
\* body to account for.
WrittenDecides(r) ==
    /\ ~written[r] => authors[r] = {} /\ sent[r] = 0
    /\ written[r] =>
        \/ SoleAuthor(r) /\ sent[r] # 0
        \/ authors[r] = {} /\ sent[r] = 0 /\ upstream[r] = SwitchingProtocols /\ error[r] # None
    /\ (~written[r] /\ pc[r] \in {"unwinding", "returned"}) =>
        error[r] # None \/ (r \in empty /\ upstream[r] # 0)
    /\ pc[r] \in {"replied", "done"} => written[r]

\* What looks like a success is the upstream's answer, or stands for one without a body.
SuccessIsEarned(r) ==
    sent[r] \in 1..399 =>
        \/ authors[r] = {"upstream"} /\ sent[r] = upstream[r]
        \/ /\ authors[r] = {"receive"} /\ sent[r] = 200
           /\ r \in empty /\ upstream[r] # 0 /\ error[r] = None

AnswerInv(r) ==
    /\ Untouched(r)
    /\ CopiesUpstream(r)
    /\ WrittenDecides(r)
    /\ SuccessIsEarned(r)

\* A step of Next for a given request.
StepOf(r) ==
    \/ Receive(r) \/ Reserved(r) \/ \E err \in Refusals : Refuse(r, err)
    \/ \E p \in Pools : Acquire(r, p)
    \/ BadAddress(r) \/ RecordPool(r) \/ SendFails(r)
    \/ \E status \in UpstreamStatuses, bodiless \in BOOLEAN : Answer(r, status, bodiless)
    \/ CopyBegins(r) \/ CopyEnds(r) \/ CopyFails(r)
    \/ Switch(r) \/ Upgrade(r) \/ UpgradeRefused(r) \/ UpgradeCut(r) \/ TunnelEnds(r)
    \/ Unwind(r) \/ Reply(r) \/ Observe(r)

IInv ==
    /\ TypeOK
    /\ \A r \in Requests : AnswerInv(r)

-----------------------------------------------------------------------------
(* Types                                                                   *)

\* Every status that is noted, sent or counted has a counter.
LEMMA StatusTypes ==
  /\ UpstreamStatuses \subseteq PoolStatuses
  /\ SwitchingProtocols \in PoolStatuses /\ BadGateway \in PoolStatuses
  /\ PoolStatuses \subseteq ClientStatuses
  /\ 200 \in ClientStatuses /\ NotFound \in ClientStatuses
  /\ \A err : failureStatus(err) \in ClientStatuses
  /\ \A err : failureStatus(err) >= 400
  /\ \A s \in ClientStatuses : s \in Nat /\ s # 0
<1>1. \A err : failureStatus(err) \in {400, 401, 503, 500}
  BY DEF failureStatus
<1>2. \A s \in UpstreamStatuses : s \in Nat /\ s # 0
  BY StatusesAreFinal
<1>3. QED
  BY <1>1, <1>2
  DEF PoolStatuses, ClientStatuses, SwitchingProtocols, BadGateway, NotFound

\* Whichever status is written, and whichever outcome is counted, they have their types.
LEMMA SendsTypes ==
  ASSUME TypeOK, NEW r \in Requests, NEW status \in ClientStatuses,
         NEW author \in {"upstream", "pool", "receive"}, Sends(r, status, author)
  PROVE  /\ noted' \in [Requests -> ClientStatuses]
         /\ written' \in [Requests -> BOOLEAN]
         /\ sent' \in [Requests -> ClientStatuses \cup {0}]
         /\ authors' \in [Requests -> SUBSET {"upstream", "pool", "receive"}]
<1>1. authors[r] \cup {author} \in SUBSET {"upstream", "pool", "receive"}
  BY DEF TypeOK
<1>2. authors' \in [Requests -> SUBSET {"upstream", "pool", "receive"}]
  BY <1>1 DEF TypeOK, Sends
<1>3. QED
  BY <1>2 DEF TypeOK, Sends

\* The counters of a pool keep their types.
LEMMA RecordTypes ==
  ASSUME TypeOK, NEW r \in Requests, RecordPool(r)
  PROVE  /\ selections' \in [Pools -> Nat]
         /\ inFlight' \in [Pools -> Int]
<1>1. /\ selections' = [selections EXCEPT ![pool[r]] = @ + 1]
      /\ inFlight' = [inFlight EXCEPT ![pool[r]] = @ + 1]
  BY DEF RecordPool
<1>2. ASSUME NEW p \in Pools
      PROVE  selections'[p] \in Nat /\ inFlight'[p] \in Int
  BY <1>1 DEF TypeOK
<1>3. /\ selections' = [p \in Pools |-> selections'[p]]
      /\ inFlight' = [p \in Pools |-> inFlight'[p]]
  BY <1>1 DEF TypeOK
<1>4. QED
  BY <1>2, <1>3

\* The end of an observation keeps the types of the metrics.
LEMMA FinishTypes ==
  ASSUME TypeOK, NEW r \in Requests, NEW status \in PoolStatuses, finishPool(r, status)
  PROVE  /\ ended' \subseteq Requests
         /\ selections' \in [Pools -> Nat]
         /\ inFlight' \in [Pools -> Int]
         /\ requests' \in [Pools -> [PoolStatuses -> Nat]]
<1>1. CASE UNCHANGED poolMetricVars
  BY <1>1 DEF TypeOK, poolMetricVars
<1>2. CASE /\ ended' = ended \cup {r}
           /\ inFlight' = [inFlight EXCEPT ![pool[r]] = @ - 1]
           /\ requests' = [requests EXCEPT ![pool[r]][status] = @ + 1]
           /\ UNCHANGED selections
  <2>1. ASSUME NEW p \in Pools
        PROVE  [requests[p] EXCEPT ![status] = @ + 1] \in [PoolStatuses -> Nat]
    BY DEF TypeOK
  <2>2. requests' \in [Pools -> [PoolStatuses -> Nat]]
    BY <1>2, <2>1 DEF TypeOK
  <2>3. QED
    BY <1>2, <2>2 DEF TypeOK
<1>3. QED
  BY <1>1, <1>2 DEF finishPool

\* Every step keeps the types.
LEMMA TypeStep == TypeOK /\ [Next]_vars => TypeOK'
<1> SUFFICES ASSUME TypeOK, [Next]_vars PROVE TypeOK'
  OBVIOUS
<1> USE StatusTypes DEF TypeOK, Goes, writerVars, poolMetricVars, httpMetricVars, upstreamVars
<1>1. ASSUME NEW r \in Requests, Receive(r)
      PROVE TypeOK'
  BY <1>1 DEF Receive
<1>2. ASSUME NEW r \in Requests, Reserved(r)
      PROVE TypeOK'
  BY <1>2 DEF Reserved, Sends
<1>3. ASSUME NEW r \in Requests, NEW err \in Refusals, Refuse(r, err)
      PROVE TypeOK'
  BY <1>3 DEF Refuse, Fails
<1>4. ASSUME NEW r \in Requests, NEW p \in Pools, Acquire(r, p)
      PROVE TypeOK'
  BY <1>4 DEF Acquire
<1>5. ASSUME NEW r \in Requests, BadAddress(r)
      PROVE TypeOK'
  BY <1>5 DEF BadAddress, Fails
<1>6. ASSUME NEW r \in Requests, RecordPool(r)
      PROVE TypeOK'
  BY <1>6, RecordTypes DEF RecordPool
<1>7. ASSUME NEW r \in Requests, SendFails(r)
      PROVE TypeOK'
  <2>1. /\ finishPool(r, BadGateway) /\ BadGateway \in PoolStatuses
        /\ Sends(r, BadGateway, "pool") /\ BadGateway \in ClientStatuses
    BY <1>7 DEF SendFails
  <2>2. /\ ended' \subseteq Requests
        /\ selections' \in [Pools -> Nat]
        /\ inFlight' \in [Pools -> Int]
        /\ requests' \in [Pools -> [PoolStatuses -> Nat]]
    BY <2>1, FinishTypes
  <2>3. QED
    BY <1>7, <2>1, <2>2, SendsTypes DEF SendFails, Fails
<1>8. ASSUME NEW r \in Requests, NEW status \in UpstreamStatuses, NEW bodiless \in BOOLEAN,
             Answer(r, status, bodiless)
      PROVE TypeOK'
  BY <1>8, FinishTypes DEF Answer, Hears
<1>9. ASSUME NEW r \in Requests, CopyBegins(r)
      PROVE TypeOK'
  BY <1>9, SendsTypes DEF CopyBegins
<1>10. ASSUME NEW r \in Requests, CopyEnds(r)
      PROVE TypeOK'
  BY <1>10 DEF CopyEnds
<1>11. ASSUME NEW r \in Requests, CopyFails(r)
      PROVE TypeOK'
  BY <1>11 DEF CopyFails, Fails
<1>12. ASSUME NEW r \in Requests, Switch(r)
      PROVE TypeOK'
  BY <1>12, FinishTypes DEF Switch, Hears
<1>13. ASSUME NEW r \in Requests, Upgrade(r)
      PROVE TypeOK'
  BY <1>13 DEF Upgrade
<1>14. ASSUME NEW r \in Requests, UpgradeRefused(r)
      PROVE TypeOK'
  BY <1>14, FinishTypes, SendsTypes DEF UpgradeRefused, Fails
<1>15. ASSUME NEW r \in Requests, UpgradeCut(r)
      PROVE TypeOK'
  BY <1>15, FinishTypes DEF UpgradeCut, Fails
<1>16. ASSUME NEW r \in Requests, TunnelEnds(r)
      PROVE TypeOK'
  BY <1>16 DEF TunnelEnds
<1>17. ASSUME NEW r \in Requests, Unwind(r)
      PROVE TypeOK'
  BY <1>17 DEF Unwind
<1>18. ASSUME NEW r \in Requests, Reply(r)
      PROVE TypeOK'
  BY <1>18, SendsTypes DEF Reply
<1>19. ASSUME NEW r \in Requests, Observe(r)
      PROVE TypeOK'
  BY <1>19 DEF Observe
<1>20. CASE UNCHANGED vars
  BY <1>20 DEF vars
<1>21. QED
  BY <1>1, <1>2, <1>3, <1>4, <1>5, <1>6, <1>7, <1>8, <1>9, <1>10, <1>11, <1>12, <1>13,
     <1>14, <1>15, <1>16, <1>17, <1>18, <1>19, <1>20 DEF Next

-----------------------------------------------------------------------------
(* Who answers                                                             *)

\* A status that can be sent is that of a failure, or what an upstream answered.
LEMMA FailureStatuses ==
  /\ \A err : failureStatus(err) \notin 1..399 /\ failureStatus(err) # 0
  /\ BadGateway \notin 1..399 /\ BadGateway # 0
  /\ NotFound \notin 1..399 /\ NotFound # 0
  /\ SwitchingProtocols # 0
  /\ \A s \in UpstreamStatuses : s # 0
  BY StatusTypes, StatusesAreFinal DEF BadGateway, NotFound, SwitchingProtocols

\* To whom nothing has been sent, one byte decides the status and the author.
LEMMA FirstByte ==
  ASSUME TypeOK, NEW r \in Requests, NEW status, NEW author,
         authors[r] = {}, sent[r] = 0, Sends(r, status, author)
  PROVE  /\ noted'[r] = status /\ written'[r] /\ sent'[r] = status /\ authors'[r] = {author}
<1>1. authors[r] \cup {author} = {author}
  OBVIOUS
<1>2. QED
  BY <1>1 DEF TypeOK, Sends

\* The steps of one request change nothing that AnswerInv says of another.
LEMMA OthersKeep ==
  ASSUME TypeOK, NEW r \in Requests, NEW q \in Requests, q # r, AnswerInv(q), StepOf(r)
  PROVE  AnswerInv(q)'
<1>1. /\ pc'[q] = pc[q] /\ error'[q] = error[q] /\ noted'[q] = noted[q]
      /\ written'[q] = written[q] /\ sent'[q] = sent[q] /\ authors'[q] = authors[q]
      /\ upstream'[q] = upstream[q] /\ (q \in empty') = (q \in empty)
  BY DEF StepOf, TypeOK, Goes, Fails, Hears, Sends, writerVars, upstreamVars,
         Receive, Reserved, Refuse, Acquire, BadAddress, RecordPool, SendFails, Answer, CopyBegins,
         CopyEnds, CopyFails, Switch, Upgrade, UpgradeRefused, UpgradeCut, TunnelEnds, Unwind,
         Reply, Observe
<1>2. QED
  BY <1>1 DEF AnswerInv, Untouched, CopiesUpstream, WrittenDecides, SoleAuthor, SuccessIsEarned

\* Its own step keeps what AnswerInv says of a request.
LEMMA OwnStep ==
  ASSUME IInv, NEW r \in Requests, StepOf(r)
  PROVE  AnswerInv(r)'
<1> USE FailureStatuses, NoneIsNothingElse
    DEF IInv, TypeOK, AnswerInv, Untouched, CopiesUpstream, WrittenDecides, SoleAuthor,
        SuccessIsEarned, Goes, writerVars, upstreamVars
<1>1. ASSUME Receive(r)
      PROVE AnswerInv(r)'
  BY <1>1 DEF Receive
<1>2. ASSUME Reserved(r)
      PROVE AnswerInv(r)'
  BY <1>2, FirstByte DEF Reserved
<1>3. ASSUME NEW err \in Refusals, Refuse(r, err)
      PROVE AnswerInv(r)'
  BY <1>3 DEF Refuse, Fails
<1>4. ASSUME NEW p \in Pools, Acquire(r, p)
      PROVE AnswerInv(r)'
  BY <1>4 DEF Acquire
<1>5. ASSUME BadAddress(r)
      PROVE AnswerInv(r)'
  BY <1>5 DEF BadAddress, Fails
<1>6. ASSUME RecordPool(r)
      PROVE AnswerInv(r)'
  BY <1>6 DEF RecordPool
<1>7. ASSUME SendFails(r)
      PROVE AnswerInv(r)'
  BY <1>7, FirstByte DEF SendFails, Fails
<1>8. ASSUME NEW status \in UpstreamStatuses, NEW bodiless \in BOOLEAN, Answer(r, status, bodiless)
      PROVE AnswerInv(r)'
  BY <1>8 DEF Answer, Hears
<1>9. ASSUME CopyBegins(r)
      PROVE AnswerInv(r)'
  BY <1>9, FirstByte DEF CopyBegins
<1>10. ASSUME CopyEnds(r)
      PROVE AnswerInv(r)'
  BY <1>10 DEF CopyEnds
<1>11. ASSUME CopyFails(r)
      PROVE AnswerInv(r)'
  BY <1>11 DEF CopyFails, Fails
<1>12. ASSUME Switch(r)
      PROVE AnswerInv(r)'
  BY <1>12 DEF Switch, Hears
<1>13. ASSUME Upgrade(r)
      PROVE AnswerInv(r)'
  BY <1>13 DEF Upgrade
<1>14. ASSUME UpgradeRefused(r)
      PROVE AnswerInv(r)'
  BY <1>14, FirstByte DEF UpgradeRefused, Fails
<1>15. ASSUME UpgradeCut(r)
      PROVE AnswerInv(r)'
  BY <1>15 DEF UpgradeCut, Fails
<1>16. ASSUME TunnelEnds(r)
      PROVE AnswerInv(r)'
  BY <1>16 DEF TunnelEnds
<1>17. ASSUME Unwind(r)
      PROVE AnswerInv(r)'
  BY <1>17 DEF Unwind
<1>18. ASSUME Reply(r)
      PROVE AnswerInv(r)'
  <2>1. CASE written[r]
    BY <1>18, <2>1 DEF Reply
  <2>2. CASE ~written[r]
    <3>1. authors[r] = {} /\ sent[r] = 0
      BY <2>2
    <3>2. /\ pc[r] = "returned" /\ pc' = [pc EXCEPT ![r] = "replied"]
          /\ Sends(r, IF error[r] = None THEN 200 ELSE failureStatus(error[r]), "receive")
          /\ UNCHANGED <<error, upstream, empty>>
      BY <1>18, <2>2 DEF Reply
    <3>3. /\ written'[r] /\ authors'[r] = {"receive"}
          /\ sent'[r] = IF error[r] = None THEN 200 ELSE failureStatus(error[r])
      BY <3>1, <3>2, FirstByte
    <3>4. QED
      BY <2>2, <3>2, <3>3
  <2>3. QED
    BY <2>1, <2>2
<1>19. ASSUME Observe(r)
      PROVE AnswerInv(r)'
  BY <1>19 DEF Observe
<1> HIDE FailureStatuses, NoneIsNothingElse
         DEF IInv, TypeOK, AnswerInv, Untouched, CopiesUpstream, WrittenDecides, SoleAuthor,
             SuccessIsEarned, Goes, writerVars, upstreamVars
<1>20. QED
  BY <1>1, <1>2, <1>3, <1>4, <1>5, <1>6, <1>7, <1>8, <1>9, <1>10, <1>11, <1>12, <1>13,
     <1>14, <1>15, <1>16, <1>17, <1>18, <1>19 DEF StepOf

\* Nothing has been written before the first request.
LEMMA InitIInv == Init => IInv
  BY StatusTypes, NoneIsNothingElse
  DEF Init, IInv, TypeOK, AnswerInv, Untouched, CopiesUpstream, WrittenDecides, SuccessIsEarned

\* One request moves; OthersKeep is about the rest.
LEMMA IInvStep == IInv /\ [Next]_vars => IInv'
<1> SUFFICES ASSUME IInv, [Next]_vars, NEW q \in Requests PROVE AnswerInv(q)'
  BY TypeStep DEF IInv
<1>1. CASE UNCHANGED vars
  BY <1>1 DEF vars, IInv, AnswerInv, Untouched, CopiesUpstream, WrittenDecides, SoleAuthor,
              SuccessIsEarned
<1>2. ASSUME NEW r \in Requests, StepOf(r) PROVE AnswerInv(q)'
  <2>1. CASE q = r
    BY <1>2, <2>1, OwnStep
  <2>2. CASE q # r
    BY <1>2, <2>2, OthersKeep DEF IInv
  <2>3. QED
    BY <2>1, <2>2
<1>3. QED
  BY <1>1, <1>2 DEF Next, StepOf

-----------------------------------------------------------------------------
(* What is counted                                                         *)

\* The status a request counts as for its pool.
Outcome(r) == IF upstream[r] # 0 THEN upstream[r] ELSE BadGateway

\* The sets of requests that the counters and gauges stand for.
Over(p) == {r \in ended : pool[r] = p}
OverAs(p, s) == {r \in Over(p) : Outcome(r) = s}
Selected(p) == {r \in Requests : pc[r] = "selected" /\ pool[r] = p}
BeingHandled == {r \in Requests : pc[r] \notin {"new", "done"}}

CountsInv ==
    \A p \in Pools :
        /\ inFlight[p] = Cardinality(Selected(p))
        /\ selections[p] = Cardinality(Selected(p)) + Cardinality(Over(p))
        /\ \A s \in PoolStatuses : requests[p][s] = Cardinality(OverAs(p, s))

HandlingInv == handling = Cardinality(BeingHandled)

\* The observation of a request's pool is open exactly while the request is selected and has
\* ended before anything is copied; what is deferred is owed only in between.
Places(r) ==
    /\ pc[r] \in {"new", "received", "leased", "selected"} => r \notin ended
    /\ pc[r] \in {"copying", "switching", "tunnel"} => r \in ended
    /\ pc[r] \in {"leased", "selected", "copying", "switching", "tunnel"} => pool[r] \in Pools
    /\ pc[r] \in {"new", "received", "returned", "replied", "done"} => held[r] = {}

MetricsInv ==
    /\ IInv
    /\ \A r \in Requests : Places(r)
    /\ CountsInv
    /\ HandlingInv

\* The sets that are counted are finite.
LEMMA CountedAreFinite ==
  ASSUME TypeOK
  PROVE  /\ \A p, s : IsFiniteSet(OverAs(p, s))
         /\ \A p : IsFiniteSet(Over(p)) /\ IsFiniteSet(Selected(p))
         /\ IsFiniteSet(BeingHandled)
<1>1. /\ \A p, s : OverAs(p, s) \in SUBSET Requests
      /\ \A p : Over(p) \in SUBSET Requests /\ Selected(p) \in SUBSET Requests
      /\ BeingHandled \in SUBSET Requests
  BY DEF TypeOK, OverAs, Over, Selected, BeingHandled
<1>2. QED
  BY <1>1, RequestsFinite, FS_Subset

\* If no set that is counted changes, and no counter, the counts stay right.
LEMMA CountsFrame ==
  ASSUME CountsInv, UNCHANGED poolMetricVars,
         \A p \in Pools : Selected(p)' = Selected(p),
         \A r \in ended : pool'[r] = pool[r] /\ upstream'[r] = upstream[r]
  PROVE  CountsInv'
<1>1. \A p \in Pools : Over(p)' = Over(p)
  BY DEF Over, poolMetricVars
<1>2. \A p \in Pools, s \in PoolStatuses : OverAs(p, s)' = OverAs(p, s)
  BY <1>1 DEF OverAs, Over, Outcome
<1>3. QED
  BY <1>1, <1>2 DEF CountsInv, poolMetricVars

\* RecordPool opens an observation.
LEMMA CountsOpen ==
  ASSUME MetricsInv, NEW r \in Requests, RecordPool(r)
  PROVE  CountsInv'
<1> DEFINE mine == pool[r]
<1>1. /\ mine \in Pools /\ r \notin Selected(mine)
      /\ UNCHANGED <<pool, upstream, ended, requests>>
      /\ selections' = [selections EXCEPT ![mine] = @ + 1]
      /\ inFlight' = [inFlight EXCEPT ![mine] = @ + 1]
      /\ pc' = [pc EXCEPT ![r] = "selected"]
  BY DEF MetricsInv, Places, RecordPool, Goes, Selected, upstreamVars
<1>2. \A p \in Pools : /\ Over(p)' = Over(p)
                       /\ \A s \in PoolStatuses : OverAs(p, s)' = OverAs(p, s)
  BY <1>1 DEF Over, OverAs, Outcome
<1>3. Selected(mine)' = Selected(mine) \cup {r}
  BY <1>1 DEF Selected, MetricsInv, IInv, TypeOK
<1>4. \A p \in Pools \ {mine} : Selected(p)' = Selected(p)
  BY <1>1 DEF Selected, MetricsInv, IInv, TypeOK
<1>5. Cardinality(Selected(mine)') = Cardinality(Selected(mine)) + 1
  BY <1>1, <1>3, CountedAreFinite, FS_AddElement DEF MetricsInv, IInv
<1>6. \A p \in Pools : Cardinality(Selected(p)) \in Nat /\ Cardinality(Over(p)) \in Nat
  BY CountedAreFinite, FS_CardinalityType DEF MetricsInv, IInv
<1>7. inFlight \in [Pools -> Int] /\ selections \in [Pools -> Nat]
  BY DEF MetricsInv, IInv, TypeOK
<1>8. ASSUME NEW p \in Pools
      PROVE  /\ inFlight'[p] = Cardinality(Selected(p)')
             /\ selections'[p] = Cardinality(Selected(p)') + Cardinality(Over(p)')
  <2>1. /\ inFlight[p] = Cardinality(Selected(p))
        /\ selections[p] = Cardinality(Selected(p)) + Cardinality(Over(p))
    BY DEF CountsInv, MetricsInv
  <2>2. CASE p = mine
    BY <1>1, <1>2, <1>5, <1>6, <1>7, <2>1, <2>2
  <2>3. CASE p # mine
    BY <1>1, <1>2, <1>4, <1>7, <2>1, <2>3
  <2>4. QED
    BY <2>2, <2>3
<1>9. \A p \in Pools, s \in PoolStatuses : requests'[p][s] = Cardinality(OverAs(p, s)')
  BY <1>1, <1>2 DEF CountsInv, MetricsInv
<1>10. QED
  BY <1>8, <1>9 DEF CountsInv

\* Whatever ends it, the observation of a selected request ends as one outcome.
LEMMA CountsClose ==
  ASSUME MetricsInv, NEW r \in Requests, pc[r] = "selected",
         NEW status \in PoolStatuses, finishPool(r, status), NEW to, to # "selected",
         pc' = [pc EXCEPT ![r] = to], pool' = pool,
         \A q \in Requests \ {r} : upstream'[q] = upstream[q],
         Outcome(r)' = status
  PROVE  CountsInv'
<1> DEFINE mine == pool[r]
<1>1. /\ mine \in Pools /\ r \in Selected(mine) /\ r \notin ended
      /\ ended' = ended \cup {r}
      /\ inFlight' = [inFlight EXCEPT ![mine] = @ - 1]
      /\ requests' = [requests EXCEPT ![mine][status] = @ + 1]
      /\ UNCHANGED selections
  BY DEF MetricsInv, Places, Selected, finishPool
<1>2. /\ Over(mine)' = Over(mine) \cup {r} /\ r \notin Over(mine)
      /\ \A p \in Pools \ {mine} : Over(p)' = Over(p)
  BY <1>1 DEF Over
<1>3. \A q \in ended : Outcome(q)' = Outcome(q)
  BY <1>1 DEF Outcome, MetricsInv, IInv, TypeOK
<1>4. /\ OverAs(mine, status)' = OverAs(mine, status) \cup {r} /\ r \notin OverAs(mine, status)
      /\ \A p \in Pools, s \in PoolStatuses :
            p # mine \/ s # status => OverAs(p, s)' = OverAs(p, s)
  BY <1>1, <1>2, <1>3 DEF OverAs, Over
<1>5. /\ Selected(mine)' = Selected(mine) \ {r}
      /\ \A p \in Pools \ {mine} : Selected(p)' = Selected(p)
  BY <1>1 DEF Selected, MetricsInv, IInv, TypeOK
<1>6. /\ Cardinality(Over(mine)') = Cardinality(Over(mine)) + 1
      /\ Cardinality(OverAs(mine, status)') = Cardinality(OverAs(mine, status)) + 1
      /\ Cardinality(Selected(mine)') = Cardinality(Selected(mine)) - 1
  <2>1. IsFiniteSet(Over(mine)) /\ IsFiniteSet(OverAs(mine, status)) /\ IsFiniteSet(Selected(mine))
    BY CountedAreFinite DEF MetricsInv, IInv
  <2>2. Cardinality(Over(mine)') = Cardinality(Over(mine)) + 1
    BY <1>2, <2>1, FS_AddElement
  <2>3. Cardinality(OverAs(mine, status)') = Cardinality(OverAs(mine, status)) + 1
    BY <1>4, <2>1, FS_AddElement
  <2>4. Cardinality(Selected(mine)') = Cardinality(Selected(mine)) - 1
    BY <1>1, <1>5, <2>1, FS_RemoveElement
  <2>5. QED
    BY <2>2, <2>3, <2>4
<1>7. \A p \in Pools : Cardinality(Selected(p)) \in Nat /\ Cardinality(Over(p)) \in Nat
  BY CountedAreFinite, FS_CardinalityType DEF MetricsInv, IInv
<1>8. ASSUME NEW p \in Pools
      PROVE  /\ inFlight'[p] = Cardinality(Selected(p)')
             /\ selections'[p] = Cardinality(Selected(p)') + Cardinality(Over(p)')
  <2>1. /\ inFlight[p] = Cardinality(Selected(p))
        /\ selections[p] = Cardinality(Selected(p)) + Cardinality(Over(p))
    BY DEF CountsInv, MetricsInv
  <2>2. inFlight \in [Pools -> Int]
    BY DEF MetricsInv, IInv, TypeOK
  <2>3. CASE p = mine
    BY <1>1, <1>6, <1>7, <2>1, <2>2, <2>3
  <2>4. CASE p # mine
    BY <1>1, <1>2, <1>5, <2>1, <2>2, <2>4
  <2>5. QED
    BY <2>3, <2>4
<1>9. ASSUME NEW p \in Pools, NEW s \in PoolStatuses
      PROVE  requests'[p][s] = Cardinality(OverAs(p, s)')
  <2>1. requests \in [Pools -> [PoolStatuses -> Nat]]
    BY DEF MetricsInv, IInv, TypeOK
  <2>2. CASE p = mine /\ s = status
    BY <1>1, <1>6, <2>1, <2>2 DEF CountsInv, MetricsInv
  <2>3. CASE ~(p = mine /\ s = status)
    BY <1>1, <1>4, <2>1, <2>3 DEF CountsInv, MetricsInv
  <2>4. QED
    BY <2>2, <2>3
<1>10. QED
  BY <1>8, <1>9 DEF CountsInv

\* If nobody comes and nobody goes, the gauge stays right.
LEMMA HandlingFrame ==
  ASSUME HandlingInv, handling' = handling, TypeOK, NEW r \in Requests,
         pc[r] \notin {"new", "done"},
         \/ pc' = pc
         \/ \E to : to \notin {"new", "done"} /\ pc' = [pc EXCEPT ![r] = to]
  PROVE  HandlingInv'
<1>1. BeingHandled' = BeingHandled
  BY DEF BeingHandled, TypeOK
<1>2. QED
  BY <1>1 DEF HandlingInv

\* A request's own step keeps its place in order.
LEMMA PlacesStep ==
  ASSUME MetricsInv, NEW r \in Requests, StepOf(r)
  PROVE  Places(r)'
<1> USE NoneIsNothingElse DEF MetricsInv, IInv, TypeOK, Places, Goes, poolMetricVars, upstreamVars
<1>1. ASSUME Receive(r)
      PROVE Places(r)'
  BY <1>1 DEF Receive
<1>2. ASSUME Reserved(r)
      PROVE Places(r)'
  BY <1>2 DEF Reserved
<1>3. ASSUME NEW err \in Refusals, Refuse(r, err)
      PROVE Places(r)'
  BY <1>3 DEF Refuse
<1>4. ASSUME NEW p \in Pools, Acquire(r, p)
      PROVE Places(r)'
  BY <1>4 DEF Acquire
<1>5. ASSUME BadAddress(r)
      PROVE Places(r)'
  BY <1>5 DEF BadAddress
<1>6. ASSUME RecordPool(r)
      PROVE Places(r)'
  BY <1>6 DEF RecordPool
<1>7. ASSUME SendFails(r)
      PROVE Places(r)'
  BY <1>7 DEF SendFails, finishPool
<1>8. ASSUME NEW status \in UpstreamStatuses, NEW bodiless \in BOOLEAN, Answer(r, status, bodiless)
      PROVE Places(r)'
  BY <1>8 DEF Answer, finishPool
<1>9. ASSUME CopyBegins(r)
      PROVE Places(r)'
  BY <1>9 DEF CopyBegins
<1>10. ASSUME CopyEnds(r)
      PROVE Places(r)'
  BY <1>10 DEF CopyEnds
<1>11. ASSUME CopyFails(r)
      PROVE Places(r)'
  BY <1>11 DEF CopyFails
<1>12. ASSUME Switch(r)
      PROVE Places(r)'
  BY <1>12 DEF Switch, finishPool
<1>13. ASSUME Upgrade(r)
      PROVE Places(r)'
  BY <1>13 DEF Upgrade
<1>14. ASSUME UpgradeRefused(r)
      PROVE Places(r)'
  BY <1>14 DEF UpgradeRefused, finishPool
<1>15. ASSUME UpgradeCut(r)
      PROVE Places(r)'
  BY <1>15 DEF UpgradeCut, finishPool
<1>16. ASSUME TunnelEnds(r)
      PROVE Places(r)'
  BY <1>16 DEF TunnelEnds
<1>17. ASSUME Unwind(r)
      PROVE Places(r)'
  BY <1>17 DEF Unwind
<1>18. ASSUME Reply(r)
      PROVE Places(r)'
  BY <1>18 DEF Reply
<1>19. ASSUME Observe(r)
      PROVE Places(r)'
  BY <1>19 DEF Observe
<1>20. QED
  BY <1>1, <1>2, <1>3, <1>4, <1>5, <1>6, <1>7, <1>8, <1>9, <1>10, <1>11, <1>12, <1>13,
     <1>14, <1>15, <1>16, <1>17, <1>18, <1>19 DEF StepOf

\* And leaves the place of every other as it is.
LEMMA OthersKeepPlaces ==
  ASSUME MetricsInv, NEW r \in Requests, NEW q \in Requests, q # r, StepOf(r)
  PROVE  Places(q)'
<1>1. /\ pc'[q] = pc[q] /\ pool'[q] = pool[q] /\ held'[q] = held[q]
      /\ (q \in ended') = (q \in ended)
  BY DEF MetricsInv, IInv, StepOf, TypeOK, Goes, finishPool, poolMetricVars,
         Receive, Reserved, Refuse, Acquire, BadAddress, RecordPool, SendFails, Answer, CopyBegins,
         CopyEnds, CopyFails, Switch, Upgrade, UpgradeRefused, UpgradeCut, TunnelEnds, Unwind,
         Reply, Observe
<1>2. QED
  BY <1>1 DEF MetricsInv, Places

\* One step opens an observation, three close one, the others leave what is counted.
LEMMA CountsStep ==
  ASSUME MetricsInv, NEW r \in Requests, StepOf(r)
  PROVE  CountsInv'
<1> USE DEF MetricsInv, IInv, TypeOK, Goes, upstreamVars
<1>1. ASSUME Receive(r)
      PROVE CountsInv'
  BY <1>1, CountsFrame DEF Receive, Selected
<1>2. ASSUME Reserved(r)
      PROVE CountsInv'
  BY <1>2, CountsFrame DEF Reserved, Selected
<1>3. ASSUME NEW err \in Refusals, Refuse(r, err)
      PROVE CountsInv'
  BY <1>3, CountsFrame DEF Refuse, Selected
<1>4. ASSUME NEW p \in Pools, Acquire(r, p)
      PROVE CountsInv'
  BY <1>4, CountsFrame DEF Acquire, Selected, Places
<1>5. ASSUME BadAddress(r)
      PROVE CountsInv'
  BY <1>5, CountsFrame DEF BadAddress, Selected
<1>6. ASSUME RecordPool(r)
      PROVE CountsInv'
  BY <1>6, CountsOpen
<1>7. ASSUME SendFails(r)
      PROVE CountsInv'
  <2>1. /\ pc[r] = "selected" /\ pc' = [pc EXCEPT ![r] = "unwinding"]
        /\ finishPool(r, BadGateway) /\ UNCHANGED <<pool, upstream>>
    BY <1>7 DEF SendFails
  <2>2. Outcome(r)' = BadGateway
    BY <2>1 DEF Outcome, AnswerInv, Untouched
  <2>3. QED
    BY <2>1, <2>2, StatusTypes, CountsClose
<1>8. ASSUME NEW status \in UpstreamStatuses, NEW bodiless \in BOOLEAN, Answer(r, status, bodiless)
      PROVE CountsInv'
  <2>1. /\ pc[r] = "selected" /\ pc' = [pc EXCEPT ![r] = "copying"]
        /\ finishPool(r, status) /\ upstream' = [upstream EXCEPT ![r] = status] /\ UNCHANGED pool
    BY <1>8 DEF Answer, Hears
  <2>2. Outcome(r)' = status
    BY <2>1, FailureStatuses DEF Outcome
  <2>3. status \in PoolStatuses
    BY StatusTypes
  <2>4. QED
    BY <2>1, <2>2, <2>3, CountsClose
<1>9. ASSUME CopyBegins(r)
      PROVE CountsInv'
  BY <1>9, CountsFrame DEF CopyBegins, Selected
<1>10. ASSUME CopyEnds(r)
      PROVE CountsInv'
  BY <1>10, CountsFrame DEF CopyEnds, Selected
<1>11. ASSUME CopyFails(r)
      PROVE CountsInv'
  BY <1>11, CountsFrame DEF CopyFails, Selected
<1>12. ASSUME Switch(r)
      PROVE CountsInv'
  <2>1. /\ pc[r] = "selected" /\ pc' = [pc EXCEPT ![r] = "switching"]
        /\ finishPool(r, SwitchingProtocols)
        /\ upstream' = [upstream EXCEPT ![r] = SwitchingProtocols] /\ UNCHANGED pool
    BY <1>12 DEF Switch, Hears
  <2>2. Outcome(r)' = SwitchingProtocols
    BY <2>1, FailureStatuses DEF Outcome
  <2>3. SwitchingProtocols \in PoolStatuses
    BY StatusTypes
  <2>4. QED
    BY <2>1, <2>2, <2>3, CountsClose
<1>13. ASSUME Upgrade(r)
      PROVE CountsInv'
  BY <1>13, CountsFrame DEF Upgrade, Selected
<1>14. ASSUME UpgradeRefused(r)
      PROVE CountsInv'
  <2>1. r \in ended
    BY <1>14 DEF UpgradeRefused, Places
  <2>2. UNCHANGED poolMetricVars
    BY <1>14, <2>1 DEF UpgradeRefused, finishPool
  <2>3. QED
    BY <1>14, <2>2, CountsFrame DEF UpgradeRefused, Selected
<1>15. ASSUME UpgradeCut(r)
      PROVE CountsInv'
  <2>1. r \in ended
    BY <1>15 DEF UpgradeCut, Places
  <2>2. UNCHANGED poolMetricVars
    BY <1>15, <2>1 DEF UpgradeCut, finishPool
  <2>3. QED
    BY <1>15, <2>2, CountsFrame DEF UpgradeCut, Selected
<1>16. ASSUME TunnelEnds(r)
      PROVE CountsInv'
  BY <1>16, CountsFrame DEF TunnelEnds, Selected
<1>17. ASSUME Unwind(r)
      PROVE CountsInv'
  BY <1>17, CountsFrame DEF Unwind, Selected
<1>18. ASSUME Reply(r)
      PROVE CountsInv'
  BY <1>18, CountsFrame DEF Reply, Selected
<1>19. ASSUME Observe(r)
      PROVE CountsInv'
  BY <1>19, CountsFrame DEF Observe, Selected
<1>20. QED
  BY <1>1, <1>2, <1>3, <1>4, <1>5, <1>6, <1>7, <1>8, <1>9, <1>10, <1>11, <1>12, <1>13,
     <1>14, <1>15, <1>16, <1>17, <1>18, <1>19 DEF StepOf

\* The observer counts up once and down once.
LEMMA HandlingStep ==
  ASSUME MetricsInv, NEW r \in Requests, StepOf(r)
  PROVE  HandlingInv'
<1> USE DEF MetricsInv, IInv, HandlingInv, TypeOK, Goes, httpMetricVars
<1>1. ASSUME Receive(r)
      PROVE HandlingInv'
  <2>1. BeingHandled' = BeingHandled \cup {r} /\ r \notin BeingHandled
    BY <1>1 DEF Receive, BeingHandled
  <2>2. QED
    BY <1>1, <2>1, CountedAreFinite, FS_AddElement DEF Receive
<1>2. ASSUME Reserved(r)
      PROVE HandlingInv'
  BY <1>2, HandlingFrame DEF Reserved
<1>3. ASSUME NEW err \in Refusals, Refuse(r, err)
      PROVE HandlingInv'
  BY <1>3, HandlingFrame DEF Refuse
<1>4. ASSUME NEW p \in Pools, Acquire(r, p)
      PROVE HandlingInv'
  BY <1>4, HandlingFrame DEF Acquire
<1>5. ASSUME BadAddress(r)
      PROVE HandlingInv'
  BY <1>5, HandlingFrame DEF BadAddress
<1>6. ASSUME RecordPool(r)
      PROVE HandlingInv'
  BY <1>6, HandlingFrame DEF RecordPool
<1>7. ASSUME SendFails(r)
      PROVE HandlingInv'
  BY <1>7, HandlingFrame DEF SendFails
<1>8. ASSUME NEW status \in UpstreamStatuses, NEW bodiless \in BOOLEAN, Answer(r, status, bodiless)
      PROVE HandlingInv'
  BY <1>8, HandlingFrame DEF Answer
<1>9. ASSUME CopyBegins(r)
      PROVE HandlingInv'
  BY <1>9, HandlingFrame DEF CopyBegins
<1>10. ASSUME CopyEnds(r)
      PROVE HandlingInv'
  BY <1>10, HandlingFrame DEF CopyEnds
<1>11. ASSUME CopyFails(r)
      PROVE HandlingInv'
  BY <1>11, HandlingFrame DEF CopyFails
<1>12. ASSUME Switch(r)
      PROVE HandlingInv'
  BY <1>12, HandlingFrame DEF Switch
<1>13. ASSUME Upgrade(r)
      PROVE HandlingInv'
  BY <1>13, HandlingFrame DEF Upgrade
<1>14. ASSUME UpgradeRefused(r)
      PROVE HandlingInv'
  BY <1>14, HandlingFrame DEF UpgradeRefused
<1>15. ASSUME UpgradeCut(r)
      PROVE HandlingInv'
  BY <1>15, HandlingFrame DEF UpgradeCut
<1>16. ASSUME TunnelEnds(r)
      PROVE HandlingInv'
  BY <1>16, HandlingFrame DEF TunnelEnds
<1>17. ASSUME Unwind(r)
      PROVE HandlingInv'
  BY <1>17, HandlingFrame DEF Unwind
<1>18. ASSUME Reply(r)
      PROVE HandlingInv'
  BY <1>18, HandlingFrame DEF Reply
<1>19. ASSUME Observe(r)
      PROVE HandlingInv'
  <2>1. BeingHandled' = BeingHandled \ {r} /\ r \in BeingHandled
    BY <1>19 DEF Observe, BeingHandled
  <2>2. QED
    BY <1>19, <2>1, CountedAreFinite, FS_RemoveElement DEF Observe
<1>20. QED
  BY <1>1, <1>2, <1>3, <1>4, <1>5, <1>6, <1>7, <1>8, <1>9, <1>10, <1>11, <1>12, <1>13,
     <1>14, <1>15, <1>16, <1>17, <1>18, <1>19 DEF StepOf

\* The metrics begin at zero.
LEMMA InitMetrics == Init => MetricsInv
<1> SUFFICES ASSUME Init PROVE MetricsInv
  OBVIOUS
<1>1. /\ BeingHandled = {}
      /\ \A p : Selected(p) = {} /\ Over(p) = {}
      /\ \A p, s : OverAs(p, s) = {}
  BY DEF Init, BeingHandled, Selected, Over, OverAs
<1>2. CountsInv
  <2>1. Cardinality({}) = 0
    BY FS_EmptySet
  <2>2. \A p \in Pools : /\ inFlight[p] = 0 /\ selections[p] = 0
                         /\ \A s \in PoolStatuses : requests[p][s] = 0
    BY DEF Init
  <2>3. ASSUME NEW p \in Pools
        PROVE  /\ inFlight[p] = Cardinality(Selected(p))
               /\ selections[p] = Cardinality(Selected(p)) + Cardinality(Over(p))
               /\ \A s \in PoolStatuses : requests[p][s] = Cardinality(OverAs(p, s))
    <3>1. Selected(p) = {} /\ Over(p) = {} /\ \A s : OverAs(p, s) = {}
      BY <1>1
    <3>2. QED
      BY <2>1, <2>2, <3>1
  <2>4. QED
    BY <2>3 DEF CountsInv
<1>3. HandlingInv
  BY <1>1, FS_EmptySet DEF Init, HandlingInv
<1>4. \A r \in Requests : Places(r)
  BY DEF Init, Places
<1>5. QED
  BY <1>2, <1>3, <1>4, InitIInv DEF MetricsInv

\* Every step keeps the counters, the gauges and where requests stand.
LEMMA MetricsStep == MetricsInv /\ [Next]_vars => MetricsInv'
<1> SUFFICES ASSUME MetricsInv, [Next]_vars PROVE MetricsInv'
  OBVIOUS
<1>1. IInv'
  BY IInvStep DEF MetricsInv
<1>2. CASE UNCHANGED vars
  <2>1. /\ \A p : Selected(p)' = Selected(p) /\ Over(p)' = Over(p)
        /\ \A p, s : OverAs(p, s)' = OverAs(p, s)
        /\ BeingHandled' = BeingHandled
    BY <1>2 DEF vars, Selected, Over, OverAs, Outcome, BeingHandled
  <2>2. CountsInv' /\ HandlingInv'
    BY <1>2, <2>1 DEF vars, MetricsInv, CountsInv, HandlingInv
  <2>3. \A r \in Requests : Places(r)'
    BY <1>2 DEF vars, MetricsInv, Places
  <2>4. QED
    BY <1>1, <2>2, <2>3 DEF MetricsInv
<1>3. ASSUME NEW r \in Requests, StepOf(r) PROVE MetricsInv'
  <2>1. \A q \in Requests : Places(q)'
    BY <1>3, PlacesStep, OthersKeepPlaces
  <2>2. QED
    BY <1>1, <1>3, <2>1, CountsStep, HandlingStep DEF MetricsInv
<1>4. QED
  BY <1>2, <1>3 DEF Next, StepOf

-----------------------------------------------------------------------------
(* Theorems                                                                *)

\* The invariant of Forwarding, from which the statements about the answer follow.
THEOREM Invariance == Spec => []IInv
  BY InitIInv, IInvStep, PTL DEF Spec

\* Every variable keeps its type: no status is noted, sent or counted that has no counter.
THEOREM TypeCorrect == Spec => []TypeOK
<1>1. IInv => TypeOK
  BY DEF IInv
<1>2. QED
  BY Invariance, <1>1, PTL

\* However the request ended, one party has answered the client (handler.go:58-60).
THEOREM OnePartyAnswers == Spec => []OneAnswer
<1>1. IInv => OneAnswer
  <2> SUFFICES ASSUME IInv, NEW r \in Requests, pc[r] = "done"
               PROVE  IF authors[r] = {} THEN upstream[r] = SwitchingProtocols /\ error[r] # None
                      ELSE Cardinality(authors[r]) = 1 /\ sent[r] # 0
    BY DEF OneAnswer
  <2>1. \/ SoleAuthor(r) /\ sent[r] # 0
        \/ authors[r] = {} /\ upstream[r] = SwitchingProtocols /\ error[r] # None
    BY DEF IInv, AnswerInv, WrittenDecides
  <2>2. SoleAuthor(r) => Cardinality(authors[r]) = 1 /\ authors[r] # {}
    BY FS_Singleton DEF SoleAuthor
  <2>3. QED
    BY <2>1, <2>2
<1>2. QED
  BY Invariance, <1>1, PTL

\* A status below 400 is the upstream's own, or that of the envelope which replaces an answer
\* without a body, whatever the status of that answer was; nothing else that can happen to a
\* request is answered below 400 (handler.go:52-77, transfer.go:194-212).
THEOREM SuccessesAreCopiedOrEmpty == Spec => []SuccessIsCopiedOrEmpty
<1>1. IInv => SuccessIsCopiedOrEmpty
  BY DEF IInv, AnswerInv, SuccessIsEarned, SuccessIsCopiedOrEmpty
<1>2. QED
  BY Invariance, <1>1, PTL

\* The invariant of the metrics.
THEOREM MetricsInvariance == Spec => []MetricsInv
  BY InitMetrics, MetricsStep, PTL DEF Spec

\* Each request is counted once, as one outcome, and the pool's gauge is the rest, whichever
\* handlers end its observation (pool.go:142-167).
THEOREM PoolCountsAreExact == Spec => []PoolMetricsAddUp
<1>1. MetricsInv => PoolMetricsAddUp
  <2> SUFFICES ASSUME MetricsInv, NEW p \in Pools
               PROVE  /\ inFlight[p] = selections[p] - Cardinality(Over(p))
                      /\ \A s \in PoolStatuses : requests[p][s] = Cardinality(OverAs(p, s))
    BY DEF PoolMetricsAddUp, Over, OverAs, Outcome
  <2>1. Cardinality(Over(p)) \in Nat /\ Cardinality(Selected(p)) \in Nat
    BY CountedAreFinite, FS_CardinalityType DEF MetricsInv, IInv
  <2>2. QED
    BY <2>1 DEF MetricsInv, CountsInv
<1>2. QED
  BY MetricsInvariance, <1>1, PTL

\* Whatever went wrong on the way, nothing is held and no gauge stays up when no request is
\* being handled (transfer.go:80-82, gateway/transfer.go:75).
THEOREM NothingIsLeaked == Spec => []NothingLeaks
<1>1. MetricsInv => NothingLeaks
  <2> SUFFICES ASSUME MetricsInv, \A r \in Requests : pc[r] \in {"new", "done"}
               PROVE  /\ handling = 0
                      /\ \A p \in Pools : inFlight[p] = 0
                      /\ \A r \in Requests : held[r] = {}
    BY DEF NothingLeaks
  <2>1. BeingHandled = {} /\ \A p : Selected(p) = {}
    BY DEF BeingHandled, Selected
  <2>2. \A r \in Requests : held[r] = {}
    BY DEF MetricsInv, Places
  <2>3. QED
    BY <2>1, <2>2, FS_EmptySet DEF MetricsInv, CountsInv, HandlingInv
<1>2. QED
  BY MetricsInvariance, <1>1, PTL
=============================================================================

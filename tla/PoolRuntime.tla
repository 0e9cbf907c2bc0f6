----------------------------- MODULE PoolRuntime -----------------------------
(***************************************************************************)
(* TransferTask.Run (internal/gateway/transfer.go) with the policy store   *)
(* and the pool coordinator: a request is assigned a tier, and takes its   *)
(* client afterwards.  The store and the coordinator have a mutex each and *)
(* none that covers both, so a request may take its client by an           *)
(* assignment that others have overtaken.                                  *)
(***************************************************************************)
EXTENDS Integers, Sequences, FiniteSets

CONSTANTS
    Requests, Services, Policies, Statuses, ReturnDelay, None, MaxRevision, MaxTime,
    SharedClient

VARIABLES
    \* of the policy store
    published, now, decision, service, captured, answer, states, above,
    \* of the coordinator
    pc, want, held, lock, dedicated, tier, wg, waiter, idle, closing, lateDial

policyVars == <<published, now, decision, service, captured, answer, states, above>>
poolVars == <<pc, want, held, lock, dedicated, tier, wg, waiter, idle, closing, lateDial>>
vars == <<policyVars, poolVars>>

Policy == INSTANCE PolicyStore WITH pc <- decision
Pool == INSTANCE Coordinator WITH
            DedicatedTiers <- Policy!DedicatedTiers, SharedTier <- "shared", Redirecting <- Requests

Init == Policy!Init /\ Pool!Init

\* RouteTask.Run and AssignmentFor; a request passes each of them once.
Decide(r) ==
    /\ \/ decision[r] = "idle" /\ \E s \in Services : Policy!Capture(r, s)
       \/ \E status \in Statuses : Policy!AssignStale(r, status) \/ Policy!Assign(r, status)
    /\ UNCHANGED poolVars

\* The assignment is handed to Forwarder.Handle, which calls Acquire with it.
Handle(r) ==
    /\ decision[r] = "decided"
    /\ Pool!Start(r, [service |-> service[r], tier |-> answer[r]])
    /\ UNCHANGED policyVars

PoolStep ==
    /\ \/ \E r \in Requests :
            \/ Pool!AcquireFast(r) \/ Pool!MissFast(r) \/ Pool!TakeLock(r) \/ Pool!Replace(r)
            \/ Pool!Admit(r) \/ Pool!GiveUp(r) \/ Pool!GetConn(r) \/ Pool!DialDone(r)
            \/ Pool!DialAbandoned(r) \/ Pool!Answer(r) \/ Pool!Redirect(r) \/ Pool!Finish(r)
       \/ \E c \in Pool!Clients : Pool!LateDialDone(c) \/ Pool!WaitReturns(c) \/ Pool!FinalClose(c)
    /\ UNCHANGED policyVars

Configure ==
    /\ \E s \in Services, p \in Policies \cup {None} : Policy!Publish(s, p)
    /\ UNCHANGED poolVars

Next ==
    \/ Configure
    \/ Policy!Tick /\ UNCHANGED poolVars
    \/ \E r \in Requests : Decide(r) \/ Handle(r)
    \/ PoolStep

Spec == Init /\ [][Next]_vars

-----------------------------------------------------------------------------

\* "Under the same policy the return to the shared pool when traffic falls is delayed"
\* (AssignmentFor, store.go:203; sharedClient takes the write lock "only when a service has to
\* return from its own client to the shared one", coordinate.go:89): as long as the policy of a
\* service stays as it is, its client is given up only ReturnDelay after the last evaluation
\* that asked for a dedicated tier.
PoolIsKeptForDelay ==
    [][\A s \in Services :
        (/\ dedicated[s] # None /\ dedicated'[s] = None
         /\ \A v \in DOMAIN published : published[v][s] = published[1][s])
            => now - above[s] >= ReturnDelay]_vars
=============================================================================

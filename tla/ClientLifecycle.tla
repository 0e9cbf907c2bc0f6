--------------------------- MODULE ClientLifecycle ---------------------------
(***************************************************************************)
(* What internal/pool promises about the http.Clients it hands out,        *)
(* whatever the locks, tiers and services behind it: a client is opened,   *)
(* lent to requests while it is open, retired once, and drained (its       *)
(* connections given up for good) only when no request holds it.           *)
(***************************************************************************)

CONSTANTS
    Requests,   \* requests passing through the gateway
    Clients,    \* identities of *managedClient
    FirstClient \* the shared client, open from the start

VARIABLES
    phase,      \* phase[c]: where client c stands in its life
    holders     \* holders[c]: the requests that were lent c and are not done

vars == <<phase, holders>>

Init ==
    /\ phase = [c \in Clients |-> IF c = FirstClient THEN "open" ELSE "absent"]
    /\ holders = [c \in Clients |-> {}]

Open(c) ==
    /\ phase[c] = "absent"
    /\ phase' = [phase EXCEPT ![c] = "open"]
    /\ UNCHANGED holders

Retire(c) ==
    /\ phase[c] = "open"
    /\ c # FirstClient
    /\ phase' = [phase EXCEPT ![c] = "retired"]
    /\ UNCHANGED holders

\* One client takes the place of another in a single step.
Replace(old, new) ==
    /\ phase[old] = "open"
    /\ old # FirstClient
    /\ phase[new] = "absent"
    /\ phase' = [phase EXCEPT ![old] = "retired", ![new] = "open"]
    /\ UNCHANGED holders

Lend(r, c) ==
    /\ phase[c] = "open"
    /\ \A d \in Clients : r \notin holders[d]
    /\ holders' = [holders EXCEPT ![c] = @ \cup {r}]
    /\ UNCHANGED phase

Return(r, c) ==
    /\ r \in holders[c]
    /\ holders' = [holders EXCEPT ![c] = @ \ {r}]
    /\ UNCHANGED phase

Drain(c) ==
    /\ phase[c] = "retired"
    /\ holders[c] = {}
    /\ phase' = [phase EXCEPT ![c] = "drained"]
    /\ UNCHANGED holders

Next ==
    \/ \E c \in Clients : Open(c) \/ Retire(c) \/ Drain(c)
    \/ \E old, new \in Clients : Replace(old, new)
    \/ \E r \in Requests, c \in Clients : Lend(r, c) \/ Return(r, c)

Spec == Init /\ [][Next]_vars
=============================================================================

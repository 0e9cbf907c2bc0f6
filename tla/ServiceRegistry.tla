--------------------------- MODULE ServiceRegistry ---------------------------
(***************************************************************************)
(* What internal/config promises its callers: registrations and            *)
(* deregistrations take effect one after the other, each at once and as a  *)
(* whole, and every route belongs to at most one service.  ConfigManager   *)
(* is shown to implement this.                                             *)
(***************************************************************************)
EXTENDS Integers, Sequences

CONSTANTS Services, Routes, RoleSets, Addresses, Schemes, AcceptedSettings, None

Endpoint == [route : Routes, roles : RoleSets]

VARIABLE services \* None, or the settings, the endpoints and the instances by address

Init == services = [s \in Services |-> None]

\* The routes of a set of endpoints.
RoutesOf(endpoints) == {e.route : e \in endpoints}

NoInstances == [a \in Addresses |-> None]

\* The service gets new settings and endpoints and one instance more, or the instance at
\* this address gets another scheme.  No route may be another service's.
Register(s, settings, endpoints, address, scheme) ==
    /\ \A e1, e2 \in endpoints : e1.route = e2.route => e1 = e2
    /\ \A other \in Services \ {s} :
        services[other] # None => RoutesOf(endpoints) \cap RoutesOf(services[other].endpoints) = {}
    /\ services' = [services EXCEPT ![s] =
        [settings |-> settings, endpoints |-> endpoints,
         instances |-> [IF @ = None THEN NoInstances ELSE @.instances EXCEPT ![address] = scheme]]]

\* The instance goes; the service and its routes stay, even without any instance.
Deregister(s, address) ==
    /\ services[s] # None
    /\ services[s].instances[address] # None
    /\ services' = [services EXCEPT ![s].instances[address] = None]

Next ==
    \E s \in Services, address \in Addresses :
        \/ \E settings \in AcceptedSettings, endpoints \in (SUBSET Endpoint) \ {{}}, scheme \in Schemes :
               Register(s, settings, endpoints, address, scheme)
        \/ Deregister(s, address)

Spec == Init /\ [][Next]_services
=============================================================================

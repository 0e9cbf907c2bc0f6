------------------------------ MODULE MCGateway ------------------------------
EXTENDS Gateway, TLC

CONSTANTS r1, r2, s1, s2, orders, api, i1, i2, secret, pair1, pair2, kid1, iss, aud, user, admin

MCRequests == {r1, r2}
MCServices == {s1, s2}

\* /api/** and, below it, /orders.
MCUnder == [w \in {api} |-> {api, orders}]

Hmac == [algorithm |-> "HS256", secret |-> secret, jwks |-> <<>>, issuer |-> iss,
         audience |-> aud, skew |-> 1]
Rsa(pair) ==
    [algorithm |-> "RS256", secret |-> None,
     jwks |-> <<[usable |-> FALSE, kid |-> kid1, pair |-> pair1],
                [usable |-> TRUE, kid |-> kid1, pair |-> pair]>>,
     issuer |-> iss, audience |-> aud, skew |-> 1]

On(m, p, rs) == [method |-> m, path |-> p, roles |-> rs]
Entry(s, e) == [service |-> s, method |-> e.method, path |-> e.path, roles |-> e.roles]

\* The indexes of services whose endpoints are on different routes.
Indexed(services) ==
    LET all == UNION {{Entry(s, e) : e \in services[s].endpoints} : s \in {t \in Services : services[t] # None}}
        key(e) == [method |-> e.method, path |-> e.path]
        wild == {e \in all : e.path \in Wildcards}
    IN [services |-> services,
        routes |-> [k \in RouteKey |->
            IF \E e \in all : key(e) = k THEN CHOOSE e \in all : key(e) = k ELSE None],
        wildcards |-> CHOOSE seq \in [1..Cardinality(wild) -> wild] : {seq[n] : n \in DOMAIN seq} = wild]

\* s1 has the orders, s2 the rest of the API.  The second snapshot has another key for s1 and
\* fewer instances, leaves other methods on orders to s2 and opens its route for reading; in
\* the third one orders are for admins only, and s2 has lost its instance and all but a route.
MCSnapshots ==
    {Indexed([s \in Services |-> IF s = s1
        THEN [auth |-> Rsa(pair1), endpoints |-> {On("ALL", orders, {user, admin})}, instances |-> <<i1, i2>>]
        ELSE [auth |-> Hmac, endpoints |-> {On("ALL", api, {admin})}, instances |-> <<i1>>]]),
     Indexed([s \in Services |-> IF s = s1
        THEN [auth |-> Rsa(pair2), endpoints |-> {On("GET", orders, {user})}, instances |-> <<i2>>]
        ELSE [auth |-> Hmac, endpoints |-> {On("GET", api, {}), On("POST", api, {admin})}, instances |-> <<i1>>]]),
     Indexed([s \in Services |-> IF s = s1
        THEN [auth |-> Rsa(pair1), endpoints |-> {On("GET", orders, {admin})}, instances |-> <<i1, i2>>]
        ELSE [auth |-> Hmac, endpoints |-> {On("GET", api, {admin})}, instances |-> <<>>]])}

Signed(alg, kid, key, rs, nbf, exp) ==
    [algorithm |-> alg, kid |-> kid, signer |-> key, issuer |-> iss, audiences |-> {aud},
     roles |-> rs, expires |-> exp, notBefore |-> nbf, issuedAt |-> None]

Asking(m, p, authorization) == [method |-> m, path |-> p, authorization |-> authorization]
MCAsks ==
    {Asking("GET", orders, Signed("RS256", kid1, pair1, {user}, None, 0)),
     Asking("GET", orders, Signed("RS256", kid1, pair2, {user, admin}, 1, 2)),
     Asking("POST", orders, Signed("HS256", None, secret, {admin}, None, 2)),
     Asking("POST", orders, Signed("HS256", None, secret, {admin}, 2, 0)),
     Asking("GET", api, None)}

MCSymmetry == Permutations(MCRequests)
=============================================================================

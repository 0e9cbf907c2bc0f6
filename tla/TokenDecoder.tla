----------------------------- MODULE TokenDecoder -----------------------------
(***************************************************************************)
(* internal/auth: Decoder.DecodeFor (decoder.go), and what internal/auth/  *)
(* config makes of a service's settings (store.go, jwks.go), as a decision *)
(* about abstract tokens.  A signature is abstracted to the key that made  *)
(* it; base64, JSON and the cryptography are left out.                     *)
(***************************************************************************)
EXTENDS Integers, Sequences

CONSTANTS
    Secrets,   \* HMAC secrets
    KeyPairs,  \* RSA key pairs
    KeyIds,    \* kid
    Issuers,
    Audiences,
    Roles,
    None       \* a field that is empty or absent

Algorithms == {"HS256", "RS256"}

\* One entry of a key set; unusable ones have another type, use or algorithm.
JWK == [usable : BOOLEAN, kid : KeyIds \cup {None}, pair : KeyPairs]

AuthSettings ==
    [algorithm : Algorithms, secret : Secrets \cup {None}, jwks : Seq(JWK),
     issuer : Issuers, audience : Audiences, skew : Nat]

Token ==
    [algorithm : Algorithms, kid : KeyIds \cup {None}, signer : Secrets \cup KeyPairs,
     issuer : Issuers \cup {None}, audiences : SUBSET Audiences, roles : SUBSET Roles,
     expires : Nat \cup {None}, notBefore : Nat \cup {None}, issuedAt : Nat \cup {None}]

-----------------------------------------------------------------------------
(* Key sets                                                                *)

Usable(jwks) == {i \in DOMAIN jwks : jwks[i].usable}

\* document.publicKeys: at least one usable key, each with a kid of its own.
keySetValid(jwks) ==
    /\ Usable(jwks) # {}
    /\ \A i \in Usable(jwks) : jwks[i].kid # None
    /\ \A i, j \in Usable(jwks) : jwks[i].kid = jwks[j].kid => i = j

\* buildAuthInfo.
authValid(settings) ==
    /\ settings.skew > 0
    /\ settings.algorithm = "RS256" => keySetValid(settings.jwks)
    /\ settings.algorithm = "HS256" => settings.secret # None

\* PublicKeyFor and what else a signature may be verified with.
signingKeys(settings, kid) ==
    IF settings.algorithm = "HS256" THEN {settings.secret}
    ELSE {settings.jwks[i].pair : i \in {j \in Usable(settings.jwks) : settings.jwks[j].kid = kid}}

-----------------------------------------------------------------------------
(* DecodeFor                                                               *)

\* Mutant: any key of the set will do.
verifySignatureAnyKey(settings, token) ==
    /\ token.algorithm = settings.algorithm
    /\ IF settings.algorithm = "HS256" THEN token.signer = settings.secret
       ELSE \E i \in DOMAIN settings.jwks : settings.jwks[i].pair = token.signer

verifySignature(settings, token) ==
    /\ token.algorithm = settings.algorithm
    /\ settings.algorithm = "RS256" => token.kid # None
    /\ token.signer \in signingKeys(settings, token.kid)

\* Mutant: the skew shortens the life of a token.
validateClaimsStrict(settings, token, now) ==
    /\ token.issuer = settings.issuer
    /\ settings.audience \in token.audiences
    /\ token.expires # None
    /\ now <= token.expires - settings.skew

validateClaims(settings, token, now) ==
    /\ token.issuer = settings.issuer
    /\ settings.audience \in token.audiences
    /\ token.expires # None
    /\ now <= token.expires + settings.skew
    /\ token.notBefore # None => now >= token.notBefore - settings.skew
    /\ token.issuedAt # None => now >= token.issuedAt - settings.skew

decodes(settings, token, now) ==
    /\ verifySignature(settings, token)
    /\ validateClaims(settings, token, now)

-----------------------------------------------------------------------------
(* What a token stands for                                                 *)

\* The instants at which the token holds by the clock of its issuer.
HoldsAt(token, t) ==
    /\ token.expires # None /\ t <= token.expires
    /\ token.notBefore # None => token.notBefore <= t
    /\ token.issuedAt # None => token.issuedAt <= t

\* Somebody who has a key the service names under that kid made the token for the service.
MadeFor(settings, token) ==
    /\ token.algorithm = settings.algorithm
    /\ \/ settings.algorithm = "HS256" /\ token.signer = settings.secret
       \/ /\ settings.algorithm = "RS256"
          /\ \E i \in DOMAIN settings.jwks :
                settings.jwks[i] = [usable |-> TRUE, kid |-> token.kid, pair |-> token.signer]
    /\ token.issuer = settings.issuer
    /\ settings.audience \in token.audiences

\* It holds at an instant the two clocks, apart by no more than the skew, can agree on.
HoldsAround(token, now, skew) == \E t \in (now - skew)..(now + skew) : HoldsAt(token, t)

Genuine(settings, token, now) ==
    MadeFor(settings, token) /\ HoldsAround(token, now, settings.skew)

\* Not even the instant of its expiry is one it holds at: there is none.
Contradictory(token) == token.expires # None /\ ~HoldsAt(token, token.expires)
=============================================================================

--------------------------- MODULE OauthVerifier ---------------------------
(***************************************************************************)
(* Verification of bearer tokens: the checks of jwt/mod.rs, the keys of    *)
(* oauth/mod.rs and their discovery in oauth/oidc.rs, refreshed by the     *)
(* hourly task of cli/serve_tasks.rs while the identity provider rotates   *)
(* its keys, publishes keys of other kinds and is unreachable at times.    *)
(*                                                                         *)
(* A token is a record of what the checks look at; it is genuine for a key *)
(* when signer is that key's material.  kid "" stands for none.            *)
(***************************************************************************)
EXTENDS Integers, Sequences

CONSTANTS
    OvDocuments,    \* JWKS documents the provider publishes: sequences of raw keys
    OvTokens,       \* tokens presented
    OvIssuer, OvAudience, OvDefaultAlg,
    OvHorizon       \* bound: clock

VARIABLES
    ovNow,          \* epoch seconds
    ovIdp,          \* the document the provider serves
    ovCache,        \* the shared cache of the verifier
    \* history
    ovFetched       \* the document last fetched with success

ovVars == <<ovNow, ovIdp, ovCache, ovFetched>>

----------------------------------------------------------------------------
(* Keys *)

\* parse_alg
KnownAlg(alg) == alg \in {"RS256", "ES256"}

\* convert_jwk, RSA: n and e decode, and the algorithm, if named, is RS256
ConvertRsa(raw) == raw.kty = "RSA" /\ raw.decodes /\ raw.alg \in {"", "RS256"}

\* convert_jwk, EC: P-256 with coordinates of 32 octets, and ES256 by name or by default
ConvertEc(raw) ==
    /\ raw.kty = "EC" /\ raw.crv = "P-256" /\ raw.decodes
    /\ (IF raw.alg = "" THEN OvDefaultAlg ELSE raw.alg) = "ES256"

\* mutant: a key for encryption is taken for one that signs
ParseJwksAnyUse(doc) ==
    LET usable == SelectSeq(doc, LAMBDA raw : ConvertRsa(raw) \/ ConvertEc(raw))
    IN  [i \in DOMAIN usable |-> [kid |-> usable[i].kid, key |-> usable[i].key,
                                  alg |-> IF usable[i].kty = "RSA" THEN "RS256" ELSE "ES256"]]

\* parse_jwks: keys for encryption and of unsupported kinds are left out
ParseJwks(doc) ==
    LET usable == SelectSeq(doc, LAMBDA raw : raw.use # "enc" /\ (ConvertRsa(raw) \/ ConvertEc(raw)))
    IN  [i \in DOMAIN usable |-> [kid |-> usable[i].kid, key |-> usable[i].key,
                                  alg |-> IF usable[i].kty = "RSA" THEN "RS256" ELSE "ES256"]]

\* jwks_ips_allowed: every internal address of the jwks host is one of the discovery host
JwksIpsAllowed(internal, discovery) == internal \subseteq discovery

\* select_key: the first of that kid; without a kid, the only key there is
SelectKey(keys, kid) ==
    LET found == IF kid = "" THEN (IF Len(keys) = 1 THEN {1} ELSE {})
                 ELSE {i \in DOMAIN keys : keys[i].kid = kid}
    IN  {keys[i] : i \in {j \in found : \A k \in found : j <= k}}

----------------------------------------------------------------------------
(* Tokens *)

\* audience_matches: a string, or a member of an array
AudienceMatches(aud) == OvAudience \in aud

\* check_claims; exp is mandatory (-1 where it is missing), nbf 0 where it is not given
CheckClaims(tok) ==
    /\ tok.exp # -1 /\ ovNow < tok.exp
    /\ ovNow >= tok.nbf
    /\ tok.iss = OvIssuer
    /\ AudienceMatches(tok.aud)

\* validate: three parts, the key's algorithm, the signature, the claims
Validate(tok, key) ==
    /\ tok.parts = 3
    /\ tok.alg = key.alg
    /\ tok.signer = key.key
    /\ CheckClaims(tok)

\* OauthVerifier::verify: the email, or the subject; {} where the token is refused
Verify(tok) ==
    IF \E key \in SelectKey(ovCache, tok.kid) : Validate(tok, key)
    THEN (IF tok.email # "" THEN {tok.email} ELSE IF tok.sub # "" THEN {tok.sub} ELSE {})
    ELSE {}

----------------------------------------------------------------------------
(* The verifier's life *)

\* build_oauth_verifier: without keys the server does not start
OvInit ==
    /\ ovNow = 1
    /\ ovIdp \in {d \in OvDocuments : ParseJwks(d) # <<>>}
    /\ ovCache = ParseJwks(ovIdp) /\ ovFetched = ovIdp

\* external: the provider rotates its keys
Rotate(d) == ovIdp' = d /\ UNCHANGED <<ovNow, ovCache, ovFetched>>

\* mutant: keys are added to the cache and never leave it
RefreshAdds(internal, discovery) ==
    /\ JwksIpsAllowed(internal, discovery)
    /\ ParseJwks(ovIdp) # <<>>
    /\ ovCache' = IF ovIdp = ovFetched THEN ovCache ELSE ovCache \o ParseJwks(ovIdp)
    /\ ovFetched' = ovIdp
    /\ UNCHANGED <<ovNow, ovIdp>>

\* fetch_keys and the swap of spawn_jwks_refresh
Refresh(internal, discovery) ==
    /\ JwksIpsAllowed(internal, discovery)
    /\ ParseJwks(ovIdp) # <<>>
    /\ ovCache' = ParseJwks(ovIdp) /\ ovFetched' = ovIdp
    /\ UNCHANGED <<ovNow, ovIdp>>

\* fetch_keys failed, out of scope or without a usable key: the previous keys stay
RefreshFails == UNCHANGED ovVars

OvTick == ovNow < OvHorizon /\ ovNow' = ovNow + 1 /\ UNCHANGED <<ovIdp, ovCache, ovFetched>>

OvNext ==
    \/ \E d \in OvDocuments : Rotate(d)
    \/ \E internal, discovery \in SUBSET {"i"} : Refresh(internal, discovery)
    \/ RefreshFails
    \/ OvTick

----------------------------------------------------------------------------
(* Properties *)

OvTypeOK ==
    /\ ovNow \in 1..OvHorizon /\ ovIdp \in OvDocuments /\ ovFetched \in OvDocuments
    /\ ovCache # <<>> /\ \A i \in DOMAIN ovCache : KnownAlg(ovCache[i].alg)

Signing(doc) == {doc[i] : i \in {j \in DOMAIN doc : doc[j].use # "enc"}}

\* What is accepted was signed with a signing key of the document fetched last, for this
\* audience, and has not expired: a key the provider has withdrawn, or never published for
\* signatures, is worth nothing after the next successful refresh.
AcceptedWasPublished ==
    \A tok \in OvTokens : Verify(tok) # {} =>
        /\ \E raw \in Signing(ovFetched) : raw.key = tok.signer
        /\ tok.exp > ovNow /\ tok.iss = OvIssuer /\ OvAudience \in tok.aud

\* And the other way round: where kids are distinct, a current token that names the kid of the
\* supported key it was signed with is accepted, whatever other keys are published beside it.
PublishedIsAccepted ==
    (\A i, j \in DOMAIN ovFetched : ovFetched[i].kid = ovFetched[j].kid => i = j) =>
        \A tok \in OvTokens :
            (/\ tok.parts = 3 /\ tok.kid # "" /\ CheckClaims(tok) /\ tok.sub # ""
             /\ \E raw \in Signing(ovFetched) :
                    /\ raw.kid = tok.kid /\ raw.key = tok.signer
                    /\ \/ ConvertRsa(raw) /\ tok.alg = "RS256"
                       \/ ConvertEc(raw) /\ tok.alg = "ES256")
            => Verify(tok) # {}

OvSpec == OvInit /\ [][OvNext]_ovVars
=============================================================================

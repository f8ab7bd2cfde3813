-------------------------------- MODULE Acme --------------------------------
(***************************************************************************)
(* Certificate issuance and renewal: the loop of src/src/acme/renew.rs,    *)
(* the client of acme/client.rs, the challenge responders of http01.rs and *)
(* tlsalpn.rs, and the acceptor of src/src/tls/mod.rs that is reloaded.    *)
(*                                                                         *)
(* The certificate authority is external.  It answers a POST with a        *)
(* result, with a problem document under an error status, or not at all;   *)
(* post() passes the first two on alike.  It refuses a nonce it has not    *)
(* just given out, and validates a challenge only if it finds the response *)
(* published.  Certificates are numbered in the order they are issued; 0   *)
(* is the bootstrap certificate of [tls], and Problem stands for a         *)
(* document that is no certificate.                                        *)
(***************************************************************************)
EXTENDS Integers, Sequences, FiniteSets

CONSTANTS
  AcDomains,   \* [acme].domains, a sequence
  AcMethods,   \* of "http-01", "dns-01", "tls-alpn-01"
  AcPoll,      \* poll: how often a pending resource is looked at again
  AcLifetime,  \* LIFETIME_DAYS, in the model's days
  AcBefore,    \* renew_before_days
  AcHorizon,   \* bound: the last day
  AcMaxCerts,  \* bound: certificates issued
  AcClientCa,  \* whether [tls] names a client CA
  AcTlsa       \* whether [dns] gives a provider for TLSA

ASSUME AcAssumption ==
  /\ AcDomains \in Seq({AcDomains[i] : i \in DOMAIN AcDomains})
  /\ {AcPoll, AcLifetime, AcBefore, AcHorizon, AcMaxCerts} \subseteq Nat
  /\ AcClientCa \in BOOLEAN

VARIABLES
  acDay,       \* the clock
  acPc,        \* where issue() stands
  acMethod,    \* the challenge type of this issuance
  acAt,        \* the authorization being worked on
  acLeft,      \* polls left
  acNonce,     \* AcmeClient.nonce: "fresh", "spent" or "none"
  acKid,       \* whether an account_url is held
  acServed,    \* the domains whose challenge response is published
  acValid,     \* CA: the domains authorised in this order
  acAccounts,  \* CA: the account keys it has seen
  acKeys,      \* account keys generated so far (a counter)
  acAccount,   \* account.key: the key, 0 for no file
  acCert,      \* cert.pem: [id, written], or NoCert
  acKey,       \* key.pem: the certificate it belongs to
  acChain,     \* the downloaded chain
  acIssued,    \* CA: the last certificate issued
  acLive,      \* ReloadableAcceptor: [id, ca]
  acTlsa,      \* the certificate the TLSA record is about
  acFailed     \* the last issue() returned an error

acVars == <<acDay, acPc, acMethod, acAt, acLeft, acNonce, acKid, acServed, acValid,
            acAccounts, acKeys, acAccount, acCert, acKey, acChain, acIssued, acLive,
            acTlsa, acFailed>>
acClient == <<acMethod, acAt, acLeft, acNonce, acKid>>
acCa == <<acValid, acAccounts, acIssued>>
acDisk == <<acAccount, acCert, acKey>>
acService == <<acLive, acTlsa>>

Problem == -1
NoCert == [id |-> -2, written |-> 0]
Bootstrap == [id |-> 0, ca |-> AcClientCa]

AcInit ==
  /\ acDay = 0 /\ acPc = "idle" /\ acMethod = "http-01" /\ acAt = 1 /\ acLeft = 0
  /\ acNonce = "none" /\ acKid = FALSE
  /\ acServed = {} /\ acValid = {} /\ acAccounts = {} /\ acKeys = 0
  /\ acAccount = 0 /\ acCert = NoCert /\ acKey = -2 /\ acChain = Problem
  /\ acIssued = 0 /\ acLive = Bootstrap /\ acTlsa = 0 /\ acFailed = FALSE

(* Only the age of cert.pem is looked at, not what is in it.               *)
NeedsRenewal ==
  \/ acCert = NoCert
  \/ acDay >= acCert.written + (IF AcBefore > AcLifetime THEN 0 ELSE AcLifetime - AcBefore)

(* issue() returns an error at any `?`; nothing is undone.                 *)
Fail == acPc' = "idle" /\ acFailed' = TRUE

-----------------------------------------------------------------------------
(* One signed POST.  `outcome` is "ok", "problem" or "lost"; a nonce that  *)
(* is not fresh cannot succeed.  After an answer the nonce is the one in   *)
(* its Replay-Nonce header, or the empty string without one.               *)
Post(outcome) ==
  /\ outcome = "ok" => acNonce = "fresh"
  /\ \/ outcome = "lost" /\ acNonce' = "spent"
     \/ outcome = "ok" /\ acNonce' = "fresh"
     \/ outcome = "problem" /\ acNonce' \in {"fresh", "none"}

Outcomes == {"ok", "problem", "lost"}

(* Mutant of LoadAccountKey: the generated key is used before it is saved. *)
LoadAccountKeyUnsaved ==
  /\ acPc = "idle" /\ NeedsRenewal
  /\ \E m \in AcMethods : acMethod' = m
  /\ IF acAccount # 0 THEN UNCHANGED acKeys ELSE acKeys < 2 /\ acKeys' = acKeys + 1
  /\ UNCHANGED <<acAccount, acFailed>>
  /\ acPc' = "connect" /\ acKid' = FALSE
  /\ UNCHANGED <<acDay, acAt, acLeft, acNonce, acServed, acChain, acCa, acCert, acKey, acService>>

(* run() finds a renewal due: the stored account key, or a new one that is *)
(* in place (renamed) before it is used.                                   *)
LoadAccountKey ==
  /\ acPc = "idle" /\ NeedsRenewal
  /\ \E m \in AcMethods : acMethod' = m
  /\ \/ acAccount # 0 /\ UNCHANGED <<acKeys, acAccount>>
     \/ acAccount = 0 /\ acKeys < 2 /\ acKeys' = acKeys + 1 /\ acAccount' = acKeys + 1
  /\ acPc' = "connect" /\ acKid' = FALSE
  /\ UNCHANGED <<acDay, acAt, acLeft, acNonce, acServed, acChain, acFailed,
                 acCa, acCert, acKey, acService>>

(* The directory and the first nonce.                                      *)
Connect ==
  /\ acPc = "connect"
  /\ \/ acNonce' = "fresh" /\ acPc' = "register" /\ UNCHANGED acFailed
     \/ acNonce' = "none" /\ Fail
  /\ UNCHANGED <<acDay, acMethod, acAt, acLeft, acKid, acServed, acKeys, acChain,
                 acCa, acDisk, acService>>

(* A problem document is an answer without a location: register returns Ok *)
(* and the account stays without a kid.                                    *)
Register ==
  /\ acPc = "register"
  /\ \E o \in Outcomes :
       /\ Post(o)
       /\ \/ o = "lost" /\ Fail /\ UNCHANGED <<acKid, acAccounts>>
          \/ o = "problem" /\ acPc' = "order" /\ UNCHANGED <<acKid, acAccounts, acFailed>>
          \/ /\ o = "ok" /\ acPc' = "order" /\ acKid' = TRUE
             /\ acAccounts' = acAccounts \cup {IF acAccount = 0 THEN acKeys ELSE acAccount}
             /\ UNCHANGED acFailed
  /\ UNCHANGED <<acDay, acMethod, acAt, acLeft, acServed, acValid, acKeys, acChain, acIssued,
                 acDisk, acService>>

(* The header a request is signed with: the account URL once one is held,  *)
(* the public key before.                                                  *)
SignedAs == IF acKid THEN "kid" ELSE "jwk"

(* The CA takes an order only from an account; anything else fails to      *)
(* parse as one.                                                           *)
NewOrder ==
  /\ acPc = "order"
  /\ \E o \in Outcomes :
       /\ Post(o)
       /\ \/ o = "ok" /\ SignedAs = "kid" /\ acPc' = "publish" /\ acAt' = 1 /\ acValid' = {}
             /\ UNCHANGED acFailed
          \/ o # "ok" /\ Fail /\ UNCHANGED <<acAt, acValid>>
  /\ UNCHANGED <<acDay, acMethod, acLeft, acKid, acServed, acAccounts, acKeys, acChain,
                 acIssued, acDisk, acService>>

(* How a challenge is answered: a token in the HTTP-01 store, a TXT record *)
(* of the zone (the provider may fail), a certificate in the TLS-ALPN      *)
(* store (which cannot fail but for want of memory).                       *)
Http01Set(d) == acMethod = "http-01" /\ acServed' = acServed \cup {d}
Dns01Set(d) == acMethod = "dns-01" /\ acServed' = acServed \cup {d}
Alpn01Set(d) == acMethod = "tls-alpn-01" /\ acServed' = acServed \cup {d}

(* The authorization is fetched and its challenge published.  It fails     *)
(* when the CA does not offer this type, and when the provider does.       *)
PublishChallenge ==
  /\ acPc = "publish" /\ acAt <= Len(AcDomains)
  /\ \E o \in Outcomes :
       /\ Post(o)
       /\ \/ /\ o = "ok" /\ acPc' = "respond" /\ UNCHANGED acFailed
             /\ \/ Http01Set(AcDomains[acAt])
                \/ Dns01Set(AcDomains[acAt])
                \/ Alpn01Set(AcDomains[acAt])
          \/ Fail /\ UNCHANGED acServed
  /\ UNCHANGED <<acDay, acMethod, acAt, acLeft, acKid, acKeys, acChain, acCa, acDisk, acService>>

(* The answer to `{}` is not looked at.                                    *)
RespondChallenge ==
  /\ acPc = "respond"
  /\ \E o \in Outcomes :
       /\ Post(o)
       /\ \/ o = "lost" /\ Fail /\ UNCHANGED acLeft
          \/ o # "lost" /\ acPc' = "validate" /\ acLeft' = AcPoll /\ UNCHANGED acFailed
  /\ UNCHANGED <<acDay, acMethod, acAt, acKid, acServed, acKeys, acChain, acCa, acDisk, acService>>

(* What the CA sees: the token at the well-known path, the TXT record, or  *)
(* the challenge certificate of the SNI name on an acme-tls/1 handshake.   *)
ChallengeServed(d) == d \in acServed

(* One look at the authorization: valid, invalid, or pending and looked at *)
(* again while polls are left.  A problem document does not parse.         *)
PollAuthorization ==
  /\ acPc = "validate"
  /\ \E o \in Outcomes, status \in {"pending", "valid", "invalid"} :
       /\ Post(o)
       /\ \/ o # "ok" /\ Fail /\ UNCHANGED <<acAt, acLeft, acValid>>
          \/ /\ o = "ok" /\ status = "valid" /\ ChallengeServed(AcDomains[acAt])
             /\ acValid' = acValid \cup {AcDomains[acAt]}
             /\ acAt' = acAt + 1 /\ acLeft' = 0 /\ acPc' = "publish" /\ UNCHANGED acFailed
          \/ o = "ok" /\ status = "invalid" /\ Fail /\ UNCHANGED <<acAt, acLeft, acValid>>
          \/ /\ o = "ok" /\ status = "pending" /\ acLeft > 1
             /\ acLeft' = acLeft - 1 /\ UNCHANGED <<acAt, acValid, acPc, acFailed>>
          \/ o = "ok" /\ status = "pending" /\ acLeft <= 1 /\ Fail
             /\ UNCHANGED <<acAt, acLeft, acValid>>
  /\ UNCHANGED <<acDay, acMethod, acKid, acServed, acAccounts, acKeys, acChain, acIssued,
                 acDisk, acService>>

(* The CSR is sent; the order answers as it stands.                        *)
Finalize ==
  /\ acPc = "publish" /\ acAt > Len(AcDomains)
  /\ \E o \in Outcomes :
       /\ Post(o)
       /\ \/ o = "ok" /\ acPc' = "order?" /\ acLeft' = AcPoll /\ UNCHANGED acFailed
          \/ o # "ok" /\ Fail /\ UNCHANGED acLeft
  /\ UNCHANGED <<acDay, acMethod, acAt, acKid, acServed, acKeys, acChain, acCa, acDisk, acService>>

OrderStatus == {"pending", "ready", "processing", "valid", "invalid"}

(* The order in hand is judged, then fetched again: `max` judgements, one  *)
(* fetch fewer.                                                            *)
PollOrder ==
  /\ acPc = "order?"
  /\ \E status \in OrderStatus :
       \/ /\ status = "valid" /\ acValid = {AcDomains[i] : i \in DOMAIN AcDomains}
          /\ acIssued < AcMaxCerts /\ acIssued' = acIssued + 1
          /\ acPc' = "download" /\ UNCHANGED <<acNonce, acLeft, acFailed>>
       \/ status = "invalid" /\ Fail /\ UNCHANGED <<acNonce, acLeft, acIssued>>
       \/ status \notin {"valid", "invalid"} /\ acLeft <= 1 /\ Fail /\ UNCHANGED <<acNonce, acLeft, acIssued>>
       \/ /\ status \notin {"valid", "invalid"} /\ acLeft > 1 /\ acLeft' = acLeft - 1 /\ UNCHANGED acIssued
          /\ \E o \in Outcomes : /\ Post(o)
                                 /\ IF o = "ok" THEN UNCHANGED <<acPc, acFailed>> ELSE Fail
  /\ UNCHANGED <<acDay, acMethod, acAt, acKid, acServed, acValid, acAccounts, acKeys, acChain,
                 acDisk, acService>>

(* Whatever is answered is the chain; only now are the challenges removed. *)
Download ==
  /\ acPc = "download"
  /\ \E o \in Outcomes :
       /\ Post(o)
       /\ \/ o = "lost" /\ Fail /\ UNCHANGED <<acServed, acChain>>
          \/ /\ o # "lost" /\ acPc' = "cert" /\ UNCHANGED acFailed
             /\ acChain' = IF o = "ok" THEN acIssued ELSE Problem
             /\ acServed' = acServed \ {AcDomains[i] : i \in DOMAIN AcDomains}
  /\ UNCHANGED <<acDay, acMethod, acAt, acLeft, acKid, acKeys, acCa, acDisk, acService>>

(* cert.pem is written in place, then key.pem is renamed into place; each  *)
(* write may fail.                                                         *)
PersistCert ==
  /\ acPc = "cert"
  /\ \/ acCert' = [id |-> acChain, written |-> acDay] /\ acPc' = "key" /\ UNCHANGED acFailed
     \/ acCert' \in {acCert, [id |-> Problem, written |-> acDay]} /\ Fail
  /\ UNCHANGED <<acDay, acClient, acServed, acCa, acKeys, acAccount, acKey, acChain, acService>>

PersistKey ==
  /\ acPc = "key"
  /\ \/ acKey' = acIssued /\ acPc' = "reload" /\ UNCHANGED acFailed
     \/ UNCHANGED acKey /\ Fail
  /\ UNCHANGED <<acDay, acClient, acServed, acCa, acKeys, acAccount, acCert, acChain, acService>>

(* Mutant of ReloadAcceptor: what was downloaded is not parsed first.      *)
ReloadAcceptorBlind ==
  /\ acPc = "reload"
  /\ acLive' = [id |-> acChain, ca |-> FALSE] /\ acPc' = "tlsa" /\ UNCHANGED acFailed
  /\ UNCHANGED <<acDay, acClient, acServed, acCa, acKeys, acDisk, acChain, acTlsa>>

(* acceptor_from_pem refuses what is not a certificate of this key, and    *)
(* asks for no client certificate.                                         *)
ReloadAcceptor ==
  /\ acPc = "reload"
  /\ \/ /\ acChain # Problem /\ acLive' = [id |-> acChain, ca |-> FALSE]
        /\ acPc' = "tlsa" /\ UNCHANGED acFailed
     \/ acChain = Problem /\ Fail /\ UNCHANGED acLive
  /\ UNCHANGED <<acDay, acClient, acServed, acCa, acKeys, acDisk, acChain, acTlsa>>

(* Best effort: the issuance has succeeded either way.                     *)
PublishTlsa ==
  /\ acPc = "tlsa"
  /\ acTlsa' \in IF AcTlsa THEN {acTlsa, acChain} ELSE {acTlsa}
  /\ acPc' = "idle" /\ acFailed' = FALSE
  /\ UNCHANGED <<acDay, acClient, acServed, acCa, acKeys, acDisk, acChain, acLive>>

(* The process stops and starts: the acceptor is built from [tls] again    *)
(* and the challenge store is empty; DNS records stay.                     *)
AcRestart ==
  /\ acPc' = "idle" /\ acLive' = Bootstrap
  /\ acServed' = IF acMethod = "dns-01" THEN acServed ELSE {}
  /\ acFailed' = FALSE
  /\ UNCHANGED <<acDay, acClient, acCa, acKeys, acDisk, acChain, acTlsa>>

(* A day passes while the loop sleeps.                                     *)
AcDayPasses ==
  /\ acPc = "idle" /\ acDay < AcHorizon /\ acDay' = acDay + 1
  /\ UNCHANGED <<acPc, acClient, acServed, acCa, acKeys, acDisk, acChain, acService, acFailed>>

AcNext ==
  \/ LoadAccountKey \/ Connect \/ Register \/ NewOrder \/ PublishChallenge
  \/ RespondChallenge \/ PollAuthorization \/ Finalize \/ PollOrder \/ Download
  \/ PersistCert \/ PersistKey \/ ReloadAcceptor \/ PublishTlsa \/ AcRestart \/ AcDayPasses

AcSpec == AcInit /\ [][AcNext]_acVars

-----------------------------------------------------------------------------
AcTypeOK ==
  /\ acDay \in 0..AcHorizon
  /\ acNonce \in {"fresh", "spent", "none"} /\ acKid \in BOOLEAN
  /\ acServed \subseteq {AcDomains[i] : i \in DOMAIN AcDomains}
  /\ acLeft \in 0..AcPoll /\ acAt \in 1..Len(AcDomains) + 1
  /\ acCert.id \in -2..AcMaxCerts /\ acKey \in -2..AcMaxCerts
  /\ acLive.id \in -1..AcMaxCerts /\ acLive.ca \in BOOLEAN

(* One account for the life of the data directory: the authority never     *)
(* sees a second account key, wherever the process was stopped             *)
(* (load_or_create_account_key writes before it uses).                     *)
OneAccount == Cardinality(acAccounts) <= 1 /\ \A k \in acAccounts : k = acAccount

(* The acceptor in service always holds a certificate the authority issued *)
(* (or the bootstrap one), never a problem document, and the private key   *)
(* of what it serves has reached key.pem first (issue persists, then       *)
(* reloads).                                                               *)
ServiceHoldsCertificate ==
  /\ acLive.id \in 0..acIssued
  /\ acLive.id # 0 => acLive.id <= acKey

(* While the authority may validate, every challenge it was told of is     *)
(* answered: a response is published before `{}` is sent and stays until   *)
(* the chain is downloaded or the process stops.                           *)
ChallengesAnswered ==
  /\ acPc \in {"respond", "validate"} => AcDomains[acAt] \in acServed
  /\ acPc \in {"publish", "order?", "download"} => acValid \subseteq acServed

(* There is one account per account key file, a certificate and a key that *)
(* belong together whenever the service is reloaded, and a challenge that  *)
(* is answered whenever the CA is told to look (acme/*.rs).                *)
CertificatesCorrect == AcTypeOK /\ OneAccount /\ ServiceHoldsCertificate /\ ChallengesAnswered

(* Does not hold: "Errors are logged and retried at the next tick"         *)
(* (renew.rs:152-153).  cert.pem is written before it is parsed, so a      *)
(* problem document answered to the download, or a failing key.pem, leaves *)
(* a fresh file that keeps the loop from trying again for two thirds of a  *)
(* certificate's life.                                                     *)
FailuresAreRetried == acPc = "idle" /\ acFailed => NeedsRenewal
=============================================================================

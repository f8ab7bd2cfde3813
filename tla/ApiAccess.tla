----------------------------- MODULE ApiAccess -----------------------------
(***************************************************************************)
(* The management API: the bearer middleware and the failure limiter of    *)
(* api/state.rs, the API keys of api/api_keys.rs with the command line     *)
(* that edits their file, the domains a key is confined to                 *)
(* (api/domain_scope.rs), the cap on a tenant's accounts                   *)
(* (api/tenant_limits.rs) and the account handlers of api/v1.  Requests    *)
(* run concurrently: the limiter is read and written under two locks, and  *)
(* a handler checks the account table before it changes it.                *)
(*                                                                         *)
(* The secret of a key is named by the key's label, "static" is the        *)
(* configured token and "other" one nobody issued.  An account is the set  *)
(* of the domains of its addresses, {} when there is none of that name.    *)
(***************************************************************************)
EXTENDS Integers, FiniteSets

CONSTANTS
    ApTasks,        \* concurrent requests
    ApKeyTable,     \* label -> [scopes, domains, expires (0: never), cidr]
    ApTokens,       \* secrets requests present
    ApIps,          \* client addresses: "in" the block of a key, "none"
    ApOps,          \* routes: list, mailboxes, create, remove, password, totp, verify, send,
                    \* scim, jmapRead, jmapWrite, jmapSend
    ApNames,        \* account names
    ApTenant,       \* domain -> tenant, for every configured domain
    ApCap,          \* max_accounts of every tenant
    ApMaxFailures,  \* AUTH_MAX_FAILURES
    ApWindow,       \* AUTH_WINDOW
    ApHorizon       \* bound: clock

VARIABLES
    apNow,          \* the clock
    apFile,         \* labels in api_keys.toml
    apTypo,         \* the file holds a scope nobody knows, or does not parse
    apLoaded,       \* Inner.api_keys: the labels loaded when the state was built
    apLimiter,      \* AuthLimiter: [failures, start]
    apReq,          \* task -> the request it serves
    apAccounts,     \* name -> domains of its addresses
    \* history
    apOutside,      \* a change was made with a key it does not lie within
    apRaced         \* an account was added after its cap check had become stale

apVars == <<apNow, apFile, apTypo, apLoaded, apLimiter, apReq, apAccounts, apOutside, apRaced>>

ApLabels == DOMAIN ApKeyTable
ApDomains == DOMAIN ApTenant
ApScopes == {"read", "write", "send", "scim"}
ApNoRequest == [at |-> "idle", token |-> "other", ip |-> "none", op |-> "list", now |-> 0,
                name |-> CHOOSE n \in ApNames : TRUE, domains |-> {}, stale |-> FALSE]

ApInit ==
    /\ apNow = 0
    /\ apFile = {} /\ apTypo = FALSE /\ apLoaded = {}
    /\ apLimiter = [failures |-> 0, start |-> 0]
    /\ apReq = [t \in ApTasks |-> ApNoRequest]
    /\ apAccounts = [n \in ApNames |-> {}]
    /\ apOutside = FALSE /\ apRaced = FALSE

----------------------------------------------------------------------------
(* Keys and scopes *)

\* sha256_token_matches, expires_at, ip_cidr and scopes, all of them evaluated
AdmitsAny(k, token, ip, acceptable) ==
    /\ token = k
    /\ ApKeyTable[k].expires = 0 \/ apNow < ApKeyTable[k].expires
    /\ ApKeyTable[k].cidr = "any" \/ ip = ApKeyTable[k].cidr
    /\ ApKeyTable[k].scopes = {} \/ ApKeyTable[k].scopes \cap acceptable # {}

\* acceptable_scopes_for: what the request line says of the scope needed
AcceptableScopesFor(op) ==
    CASE op = "send" -> {"send"}
      [] op = "scim" -> {"scim"}
      [] op \in {"list", "mailboxes"} -> {"read"}
      [] op \in {"create", "remove", "password", "totp", "verify"} -> {"write"}
      [] OTHER -> {"read", "write", "send"}

\* authorizes: the configured token has every scope
Authorizes(token, ip, acceptable) ==
    token = "static" \/ \E k \in apLoaded : AdmitsAny(k, token, ip, acceptable)

\* require_scope, called by the JMAP methods that write or submit
RequireScope(token, ip, op) ==
    CASE op = "jmapWrite" -> Authorizes(token, ip, {"write"})
      [] op = "jmapSend" -> Authorizes(token, ip, {"send"})
      [] OTHER -> TRUE

\* DomainScope::of_key: a key without domains reaches all of them
OfKey(k) == IF ApKeyTable[k].domains = {} THEN ApDomains ELSE ApKeyTable[k].domains

\* domain_scope: a token that matches no key any more reaches nothing
DomainScope(token, ip) ==
    IF token = "static" THEN [all |-> TRUE, only |-> {}]
    ELSE LET found == {k \in apLoaded : AdmitsAny(k, token, ip, ApScopes)}
         IN  [all  |-> \E k \in found : ApKeyTable[k].domains = {},
              only |-> UNION {OfKey(k) : k \in found}]

\* mutant: an account is within reach when one of its domains is
AdmitsAccountSome(scope, domains) == scope.all \/ domains \cap scope.only # {}

\* admits_account: every address lies inside, and there is one
AdmitsAccount(scope, domains) == scope.all \/ (domains # {} /\ domains \subseteq scope.only)

\* require_in_scope: a name nobody has is left to the store
RequireInScope(scope, name) == apAccounts[name] = {} \/ AdmitsAccount(scope, apAccounts[name])

----------------------------------------------------------------------------
(* Tenant caps *)

\* tenants_for_addresses: each tenant once, addresses of no tenant skipped
TenantsFor(domains) == {ApTenant[d] : d \in domains}

\* tenant_account_count
TenantAccountCount(tenant) ==
    Cardinality({n \in ApNames : tenant \in TenantsFor(apAccounts[n])})

\* mutant: the candidate is not counted
CheckAccountCreationBehind(domains) ==
    \A t \in TenantsFor(domains) : TenantAccountCount(t) <= ApCap

\* check_account_creation: the candidate is not in the store yet
CheckAccountCreation(domains) ==
    \A t \in TenantsFor(domains) : TenantAccountCount(t) + 1 <= ApCap

----------------------------------------------------------------------------
(* The failure limiter *)

\* the roll of is_limited and record_failure; duration_since saturates at zero
Rolled(now) == IF now - apLimiter.start >= ApWindow
               THEN [failures |-> 0, start |-> now] ELSE apLimiter

\* is_limited
IsLimited(now) == Rolled(now).failures >= ApMaxFailures

\* record_failure
RecordFailure(now) == [Rolled(now) EXCEPT !.failures = @ + 1]

\* reset
ResetLimiter(now) == [failures |-> 0, start |-> now]

----------------------------------------------------------------------------
(* Requests *)

Done(t) == apReq' = [apReq EXCEPT ![t] = ApNoRequest]

\* a change of the table makes every other request's check of it stale
DoneTouching(t) ==
    apReq' = [u \in ApTasks |-> IF u = t THEN ApNoRequest
                                ELSE IF apReq[u].at = "act" THEN [apReq[u] EXCEPT !.stale = TRUE]
                                ELSE apReq[u]]

\* what the key of the request allows of a change to an account with these domains
Acted(t, domains) ==
    LET r == apReq[t]
        k == ApKeyTable[r.token]
        needed == CASE r.op = "jmapWrite" -> {"write"} [] r.op = "jmapSend" -> {"send"}
                    [] OTHER -> AcceptableScopesFor(r.op)
        inside == /\ k.scopes = {} \/ k.scopes \cap needed # {}
                  /\ (/\ r.op \in {"create", "remove", "password", "totp", "mailboxes"}
                      /\ ~r.stale /\ k.domains # {}) => domains \subseteq k.domains
    IN  apOutside' = (apOutside \/ (r.token \in ApLabels /\ ~inside))

\* mutant: the limiter is consulted only after the token has been looked at
RequireBearerLate(t, token, ip, op, name, domains) ==
    /\ apReq[t].at = "idle"
    /\ apLimiter' = Rolled(apNow)
    /\ apReq' = [apReq EXCEPT ![t] = [at |-> "authorize", token |-> token, ip |-> ip, op |-> op,
                                      now |-> apNow, name |-> name, domains |-> domains,
                                      stale |-> FALSE]]
    /\ UNCHANGED <<apNow, apFile, apTypo, apLoaded, apAccounts, apOutside, apRaced>>

\* require_bearer_token up to the release of the limiter: 429, or on to the token
RequireBearer(t, token, ip, op, name, domains) ==
    /\ apReq[t].at = "idle"
    /\ apLimiter' = Rolled(apNow)
    /\ IF IsLimited(apNow) THEN UNCHANGED apReq
       ELSE apReq' = [apReq EXCEPT ![t] =
                [at |-> "authorize", token |-> token, ip |-> ip, op |-> op, now |-> apNow,
                 name |-> name, domains |-> domains, stale |-> FALSE]]
    /\ UNCHANGED <<apNow, apFile, apTypo, apLoaded, apAccounts, apOutside, apRaced>>

\* the rest of require_bearer_token, with the clock value it took at the start
AuthorizeRequest(t) ==
    /\ apReq[t].at = "authorize"
    /\ IF Authorizes(apReq[t].token, apReq[t].ip, AcceptableScopesFor(apReq[t].op))
       THEN /\ apLimiter' = ResetLimiter(apReq[t].now)
            /\ apReq' = [apReq EXCEPT ![t].at = "check", ![t].now = 0]
       ELSE /\ apLimiter' = RecordFailure(apReq[t].now)
            /\ Done(t)
    /\ UNCHANGED <<apNow, apFile, apTypo, apLoaded, apAccounts, apOutside, apRaced>>

\* mailboxes::list: an account out of reach answers as one that does not exist
MailboxesAdmit(scope, name) == apAccounts[name] # {} /\ AdmitsAccount(scope, apAccounts[name])

\* What each handler of api/v1 asks before it acts
HandlerAdmits(r) ==
    LET scope == DomainScope(r.token, r.ip)
    IN  CASE r.op = "create" -> AdmitsAccount(scope, r.domains) /\ CheckAccountCreation(r.domains)
          [] r.op \in {"remove", "password", "totp"} -> RequireInScope(scope, r.name)
          [] r.op = "mailboxes" -> MailboxesAdmit(scope, r.name)
          [] OTHER -> RequireScope(r.token, r.ip, r.op)

\* The checks of the handler: an early return, or on to the password hash and the store
HandlerCheck(t) ==
    /\ apReq[t].at = "check"
    /\ IF HandlerAdmits(apReq[t]) THEN apReq' = [apReq EXCEPT ![t].at = "act"] ELSE Done(t)
    /\ UNCHANGED <<apNow, apFile, apTypo, apLoaded, apLimiter, apAccounts, apOutside, apRaced>>

\* AccountStore::add: a duplicate name or no address is refused, the write may fail
CreateAccount(t) ==
    LET r == apReq[t] IN
    /\ r.at = "act" /\ r.op = "create"
    /\ \/ /\ apAccounts[r.name] = {} /\ r.domains # {}
          /\ apAccounts' = [apAccounts EXCEPT ![r.name] = r.domains]
          /\ apRaced' = (apRaced \/ r.stale)
          /\ Acted(t, r.domains) /\ DoneTouching(t)
       \/ Done(t) /\ UNCHANGED <<apAccounts, apRaced, apOutside>>
    /\ UNCHANGED <<apNow, apFile, apTypo, apLoaded, apLimiter>>

\* SCIM's create asks for no domain scope and for no cap
ScimCreate(t) ==
    LET r == apReq[t] IN
    /\ r.at = "act" /\ r.op = "scim"
    /\ apAccounts[r.name] = {} /\ r.domains # {}
    /\ apAccounts' = [apAccounts EXCEPT ![r.name] = r.domains]
    /\ apRaced' = TRUE
    /\ Acted(t, r.domains) /\ DoneTouching(t)
    /\ UNCHANGED <<apNow, apFile, apTypo, apLoaded, apLimiter>>

\* accounts::remove: remove_account, which logs what it removed
RemoveAccount(t) ==
    LET r == apReq[t] IN
    /\ r.at = "act" /\ r.op = "remove" /\ apAccounts[r.name] # {}
    /\ apAccounts' = [apAccounts EXCEPT ![r.name] = {}]
    /\ Acted(t, apAccounts[r.name]) /\ DoneTouching(t)
    /\ UNCHANGED <<apNow, apFile, apTypo, apLoaded, apLimiter, apRaced>>

\* set_password, enroll_totp and disable_totp
ChangeCredential(t) ==
    LET r == apReq[t] IN
    /\ r.at = "act" /\ r.op \in {"password", "totp"} /\ apAccounts[r.name] # {}
    /\ Acted(t, apAccounts[r.name]) /\ Done(t)
    /\ UNCHANGED <<apNow, apFile, apTypo, apLoaded, apLimiter, apAccounts, apRaced>>

\* mailboxes::list and the JMAP methods: nothing of this state changes
OtherHandler(t) ==
    /\ apReq[t].at = "act" /\ apReq[t].op \in {"mailboxes", "send", "jmapRead", "jmapWrite", "jmapSend"}
    /\ Acted(t, apAccounts[apReq[t].name]) /\ Done(t)
    /\ UNCHANGED <<apNow, apFile, apTypo, apLoaded, apLimiter, apAccounts, apRaced>>

\* accounts::list, domains::list, auth::verify answer; store_error: NotFound, or the write failed
AnswerOnly(t) ==
    /\ apReq[t].at = "act" /\ apReq[t].op \in ApOps \ {"create"} /\ Done(t)
    /\ UNCHANGED <<apNow, apFile, apTypo, apLoaded, apLimiter, apAccounts, apOutside, apRaced>>

----------------------------------------------------------------------------
(* The key file and the server's life *)

\* validate_new_scopes: a new key names at least one scope, all of them known
ValidNewScopes(k) == ApKeyTable[k].scopes # {} /\ ApKeyTable[k].scopes \subseteq ApScopes

\* ApiKeyStore::add: labels are unique
KeyAddable(k) == ValidNewScopes(k) /\ k \notin apFile

\* mail api-key create: a file that does not open is left alone
AddKey(k) ==
    /\ ~apTypo /\ KeyAddable(k)
    /\ apFile' = apFile \cup {k}
    /\ UNCHANGED <<apNow, apTypo, apLoaded, apLimiter, apReq, apAccounts, apOutside, apRaced>>

\* mail api-key revoke
RevokeKey(k) ==
    /\ ~apTypo /\ k \in apFile
    /\ apFile' = apFile \ {k}
    /\ UNCHANGED <<apNow, apTypo, apLoaded, apLimiter, apReq, apAccounts, apOutside, apRaced>>

\* external: the operator edits the file by hand, leaving it readable or not; a key of an
\* older release may carry no scope
EditFile(k, typo) ==
    /\ apFile' = apFile \cup {k} /\ apTypo' = typo
    /\ UNCHANGED <<apNow, apLoaded, apLimiter, apReq, apAccounts, apOutside, apRaced>>

\* ApiKeyStore::open and validate_loaded_scopes; ApiState::new takes a failure for no keys
OpenKeys == IF apTypo THEN {} ELSE apFile

\* ApiState::new
StartServer ==
    /\ apLoaded' = OpenKeys
    /\ apLimiter' = [failures |-> 0, start |-> apNow]
    /\ apReq' = [t \in ApTasks |-> ApNoRequest]
    /\ UNCHANGED <<apNow, apFile, apTypo, apAccounts, apOutside, apRaced>>

ApTick ==
    /\ apNow < ApHorizon /\ apNow' = apNow + 1
    /\ UNCHANGED <<apFile, apTypo, apLoaded, apLimiter, apReq, apAccounts, apOutside, apRaced>>

ApNext ==
    \/ \E t \in ApTasks, token \in ApTokens, ip \in ApIps,
          op \in ApOps, n \in ApNames, ds \in SUBSET ApDomains :
            /\ ds # {} => op \in {"create", "scim"}
            /\ RequireBearer(t, token, ip, op, n, ds)
    \/ \E t \in ApTasks : \/ AuthorizeRequest(t) \/ HandlerCheck(t) \/ CreateAccount(t)
                          \/ ScimCreate(t) \/ RemoveAccount(t) \/ ChangeCredential(t)
                          \/ OtherHandler(t) \/ AnswerOnly(t)
    \/ \E k \in ApLabels : AddKey(k) \/ RevokeKey(k) \/ \E typo \in BOOLEAN : EditFile(k, typo)
    \/ StartServer
    \/ ApTick

----------------------------------------------------------------------------
(* Properties *)

ApTypeOK ==
    /\ apNow \in 0..ApHorizon
    /\ apFile \subseteq ApLabels /\ apLoaded \subseteq ApLabels
    /\ apTypo \in BOOLEAN /\ apRaced \in BOOLEAN
    /\ apLimiter.failures \in Nat /\ apLimiter.start \in 0..ApHorizon
    /\ \A t \in ApTasks : apReq[t].at \in {"idle", "authorize", "check", "act"}
    /\ apAccounts \in [ApNames -> SUBSET ApDomains]

\* The limiter is read and written under two locks (state.rs:660, 693), so requests already
\* past the check may overshoot AUTH_MAX_FAILURES, by one each and by no more.
FailuresBounded == apLimiter.failures <= ApMaxFailures + Cardinality(ApTasks) - 1

\* Unless the account table changed between a handler's check and its change, a change made
\* with a key lies within the key: an operation its scopes allow, on an account all of whose
\* addresses are in its domains.  (SCIM and the send and JMAP routes ask for no domain.)
ActsConfined == ~apOutside

\* No tenant has more accounts than its cap, as long as every cap check was still true when
\* its account was added (accounts.rs:99 checks, :108 adds, under no common lock).
CapKept == \A d \in ApDomains : TenantAccountCount(ApTenant[d]) > ApCap => apRaced

ApSpec == ApInit /\ [][ApNext]_apVars
=============================================================================

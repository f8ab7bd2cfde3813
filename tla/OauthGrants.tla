---------------------------- MODULE OauthGrants ----------------------------
(***************************************************************************)
(* The built-in authorization server: the device flow of api/oauth/        *)
(* device.rs, the authorization-code flow with PKCE of api/oauth/pkce.rs   *)
(* and the tokens both issue (api/oauth/mod.rs).  A client polls while its *)
(* user approves; approvals authenticate before they take the lock; the    *)
(* clock runs, accounts come and go, and a restart forgets every grant.    *)
(*                                                                         *)
(* A code is a number, the challenge of a verifier the verifier itself:    *)
(* SHA-256 is taken to be injective.                                       *)
(***************************************************************************)
EXTENDS Integers, FiniteSets

CONSTANTS
    GrCodes,        \* device codes and authorization codes, in the order they are drawn
    GrAccounts,     \* accounts
    GrVerifiers,    \* code verifiers
    GrApprovers,    \* concurrent requests to /oauth/device/approve
    GrTtl,          \* CODE_TTL_SECS
    GrInterval,     \* POLL_INTERVAL_SECS
    GrHorizon       \* bound: clock

GrNobody == "nobody"

\* Codes are numbers from 1, and the empty account of a pending grant is nobody's name.
ASSUME GrAssumption ==
    /\ GrCodes \subseteq Nat \ {0} /\ GrNobody \notin GrAccounts /\ GrVerifiers # {}
    /\ GrTtl \in Nat /\ GrInterval \in Nat /\ GrHorizon \in Nat \ {0}

VARIABLES
    grNow,          \* now_secs
    grActive,       \* accounts whose credentials the directory accepts
    grDrawn,        \* codes drawn so far
    grDevices,      \* devices: code -> grant
    grCodes,        \* codes: code -> authorization code
    grApprove,      \* approver -> the account it authenticated and the code it names
    \* history
    grProof,        \* code -> the last account that proved itself for it, and when
    grTokens,       \* tokens issued: [code, account, at]
    grAnswered,     \* code -> when a poll was last answered with more than slow_down
    grTooSoon       \* a poll was answered before its interval was over

grVars == <<grNow, grActive, grDrawn, grDevices, grCodes, grApprove, grProof, grTokens,
            grAnswered, grTooSoon>>

GrNoGrant == [live |-> FALSE, account |-> GrNobody, expires |-> 0, nextPoll |-> 0]
GrNoCode == [live |-> FALSE, account |-> GrNobody, expires |-> 0,
             challenge |-> CHOOSE v \in GrVerifiers : TRUE]
GrNoApproval == [code |-> 0, account |-> GrNobody]

GrInit ==
    /\ grNow = 1 /\ grActive = GrAccounts /\ grDrawn = {}
    /\ grDevices = [c \in GrCodes |-> GrNoGrant]
    /\ grCodes = [c \in GrCodes |-> GrNoCode]
    /\ grApprove = [p \in GrApprovers |-> GrNoApproval]
    /\ grProof = [c \in GrCodes |-> [account |-> GrNobody, at |-> 0]]
    /\ grTokens = {}
    /\ grAnswered = [c \in GrCodes |-> 0] /\ grTooSoon = FALSE

----------------------------------------------------------------------------
(* Device flow *)

\* device_authorization: a fresh device code and user code
DeviceAuthorization(c) ==
    /\ c \notin grDrawn /\ \A d \in GrCodes : d < c => d \in grDrawn
    /\ grDrawn' = grDrawn \cup {c}
    /\ grDevices' = [grDevices EXCEPT ![c] =
            [live |-> TRUE, account |-> GrNobody, expires |-> grNow + GrTtl, nextPoll |-> grNow]]
    /\ UNCHANGED <<grNow, grActive, grCodes, grApprove, grProof, grTokens, grAnswered, grTooSoon>>

\* device_approve, first half: the credentials are checked whatever the user code is
ApproveAuthenticate(p, c, a) ==
    /\ grApprove[p].code = 0 /\ c \in grDrawn
    /\ grApprove' = [grApprove EXCEPT ![p] =
            [code |-> c, account |-> IF a \in grActive THEN a ELSE GrNobody]]
    /\ UNCHANGED <<grNow, grActive, grDrawn, grDevices, grCodes, grProof, grTokens, grAnswered,
                   grTooSoon>>

\* device_approve, second half: under the lock, a grant of that user code not yet expired
ApproveBind(p) ==
    LET c == grApprove[p].code
        a == grApprove[p].account
        bound == c # 0 /\ grDevices[c].live /\ grDevices[c].expires > grNow /\ a # GrNobody
    IN  /\ c # 0
        /\ grApprove' = [grApprove EXCEPT ![p] = GrNoApproval]
        /\ grDevices' = IF bound THEN [grDevices EXCEPT ![c].account = a] ELSE grDevices
        /\ grProof' = IF bound THEN [grProof EXCEPT ![c] = [account |-> a, at |-> grNow]] ELSE grProof
        /\ UNCHANGED <<grNow, grActive, grDrawn, grCodes, grTokens, grAnswered, grTooSoon>>

\* redeem_device_code: a grant past its time is removed
PollExpired(c) ==
    /\ grDevices[c].live /\ grDevices[c].expires <= grNow
    /\ grDevices' = [grDevices EXCEPT ![c] = GrNoGrant]
    /\ UNCHANGED <<grNow, grActive, grDrawn, grCodes, grApprove, grProof, grTokens, grAnswered,
                   grTooSoon>>

\* redeem_device_code: a poll too early pushes the next one back
PollSlowDown(c) ==
    /\ grDevices[c].live /\ grDevices[c].expires > grNow /\ grNow < grDevices[c].nextPoll
    /\ grDevices' = [grDevices EXCEPT ![c].nextPoll = grNow + GrInterval]
    /\ UNCHANGED <<grNow, grActive, grDrawn, grCodes, grApprove, grProof, grTokens, grAnswered,
                   grTooSoon>>

PollAnswered(c) ==
    /\ grAnswered' = [grAnswered EXCEPT ![c] = grNow]
    /\ grTooSoon' = (grTooSoon \/ (grAnswered[c] # 0 /\ grNow - grAnswered[c] < GrInterval))

PollDue(c) == grDevices[c].live /\ grDevices[c].expires > grNow /\ grNow >= grDevices[c].nextPoll

\* redeem_device_code: authorization_pending
PollPending(c) ==
    /\ PollDue(c) /\ grDevices[c].account = GrNobody
    /\ grDevices' = [grDevices EXCEPT ![c].nextPoll = grNow + GrInterval]
    /\ PollAnswered(c)
    /\ UNCHANGED <<grNow, grActive, grDrawn, grCodes, grApprove, grProof, grTokens>>

\* issue_token: sub is the account, exp an hour away; signing may fail
IssueToken(c, a) ==
    \/ grTokens' = grTokens \cup {[code |-> c, account |-> a, at |-> grNow]}
    \/ UNCHANGED grTokens

\* redeem_device_code: the code is consumed, then the token issued
PollRedeem(c) ==
    /\ PollDue(c) /\ grDevices[c].account # GrNobody
    /\ grDevices' = [grDevices EXCEPT ![c] = GrNoGrant]
    /\ IssueToken(c, grDevices[c].account)
    /\ PollAnswered(c)
    /\ UNCHANGED <<grNow, grActive, grDrawn, grCodes, grApprove, grProof>>

----------------------------------------------------------------------------
(* Authorization code with PKCE *)

\* authorize: S256 only, the credentials checked, a fresh code
Authorize(c, a, challenge) ==
    /\ c \notin grDrawn /\ \A d \in GrCodes : d < c => d \in grDrawn
    /\ a \in grActive
    /\ grDrawn' = grDrawn \cup {c}
    /\ grCodes' = [grCodes EXCEPT ![c] =
            [live |-> TRUE, account |-> a, expires |-> grNow + GrTtl, challenge |-> challenge]]
    /\ grProof' = [grProof EXCEPT ![c] = [account |-> a, at |-> grNow]]
    /\ UNCHANGED <<grNow, grActive, grDevices, grApprove, grTokens, grAnswered, grTooSoon>>

\* mutant: a wrong verifier leaves the code in place, and so does a right one
RedeemAuthorizationCodeKeeps(c, verifier) ==
    /\ grCodes[c].live /\ grCodes[c].expires > grNow /\ grCodes[c].challenge = verifier
    /\ IssueToken(c, grCodes[c].account)
    /\ UNCHANGED <<grNow, grActive, grDrawn, grCodes, grDevices, grApprove, grProof, grAnswered,
                   grTooSoon>>

\* redeem_authorization_code: removed first, then looked at
RedeemAuthorizationCode(c, verifier) ==
    /\ grCodes[c].live
    /\ grCodes' = [grCodes EXCEPT ![c] = GrNoCode]
    /\ IF grCodes[c].expires > grNow /\ grCodes[c].challenge = verifier
       THEN IssueToken(c, grCodes[c].account) ELSE UNCHANGED grTokens
    /\ UNCHANGED <<grNow, grActive, grDrawn, grDevices, grApprove, grProof, grAnswered, grTooSoon>>

----------------------------------------------------------------------------
(* Around them *)

\* AuthzServer::new at a restart: both maps are empty again
GrRestart ==
    /\ grDevices' = [c \in GrCodes |-> GrNoGrant]
    /\ grCodes' = [c \in GrCodes |-> GrNoCode]
    /\ grApprove' = [p \in GrApprovers |-> GrNoApproval]
    /\ UNCHANGED <<grNow, grActive, grDrawn, grProof, grTokens, grAnswered, grTooSoon>>

\* external: an account is disabled or removed
GrAccountGone(a) ==
    /\ a \in grActive /\ grActive' = grActive \ {a}
    /\ UNCHANGED <<grNow, grDrawn, grDevices, grCodes, grApprove, grProof, grTokens, grAnswered,
                   grTooSoon>>

GrTick ==
    /\ grNow < GrHorizon /\ grNow' = grNow + 1
    /\ UNCHANGED <<grActive, grDrawn, grDevices, grCodes, grApprove, grProof, grTokens, grAnswered,
                   grTooSoon>>

GrNext ==
    \/ \E c \in GrCodes :
        \/ DeviceAuthorization(c)
        \/ \E p \in GrApprovers, a \in GrAccounts : ApproveAuthenticate(p, c, a)
        \/ PollExpired(c) \/ PollSlowDown(c) \/ PollPending(c) \/ PollRedeem(c)
        \/ \E v \in GrVerifiers : \/ \E a \in GrAccounts : Authorize(c, a, v)
                                  \/ RedeemAuthorizationCode(c, v)
    \/ \E p \in GrApprovers : ApproveBind(p)
    \/ GrRestart
    \/ \E a \in GrAccounts : GrAccountGone(a)
    \/ GrTick

----------------------------------------------------------------------------
(* Properties *)

GrTypeOK ==
    /\ grNow \in 1..GrHorizon /\ grActive \subseteq GrAccounts /\ grDrawn \subseteq GrCodes
    /\ \A c \in GrCodes :
        /\ grDevices[c].account \in GrAccounts \cup {GrNobody}
        /\ grCodes[c].challenge \in GrVerifiers
        /\ ~(grDevices[c].live /\ grCodes[c].live)
    /\ \A t \in grTokens : t.code \in GrCodes /\ t.account \in GrAccounts /\ t.at \in 1..GrHorizon

\* A code is worth one token: whatever is polled, approved again or redeemed again.
OneTokenPerCode == \A t, u \in grTokens : t.code = u.code => t = u

\* A token names the account that last proved itself for its code, and no later than the life
\* of a code ago.
TokensProved ==
    \A t \in grTokens : /\ grProof[t.code].account = t.account
                        /\ t.at - grProof[t.code].at < GrTtl

\* The polls of one device code that are answered are POLL_INTERVAL_SECS apart.
PollsSpaced == ~grTooSoon

\* A code is redeemed once, in time and for the account that proved itself, and polls are
\* spaced, whatever is approved twice, forgotten at a restart or disabled meanwhile
\* (api/oauth/device.rs, api/oauth/pkce.rs).
GrantsCorrect == GrTypeOK /\ OneTokenPerCode /\ TokensProved /\ PollsSpaced

\* A token is issued only while its account may still sign in.  (Violated: redeeming asks the
\* directory nothing.)
TokensOfTheActive == [][\A t \in grTokens' \ grTokens : t.account \in grActive]_grVars

GrSpec == GrInit /\ [][GrNext]_grVars
=============================================================================

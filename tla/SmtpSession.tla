---------------------------- MODULE SmtpSession ----------------------------
(***************************************************************************)
(* One inbound SMTP connection: the session state machine of smtp/session  *)
(* and the loop of smtp/server/run.rs that feeds it.  Every action is one  *)
(* turn of the loop: a line (or a BDAT chunk) of the client, the handler   *)
(* it reaches, and the dispatch of the Action the handler returns.         *)
(*                                                                         *)
(* The bytes of addresses, credentials and messages are abstracted: an     *)
(* address is what the directory makes of it, a credential is good or bad, *)
(* a message is the number of octets received and kept.  A refused command *)
(* changes nothing but the error count, so all refusals are one action.    *)
(***************************************************************************)
EXTENDS Naturals, FiniteSets

CONSTANTS
    Accounts,        \* accounts of the directory
    Nobody,          \* no account
    Addresses,       \* addresses a client may name
    Local,           \* addresses resolve() maps to an account or an alias
    Unknown,         \* addresses of a local domain without a mailbox
    Owns,            \* Owns[a]: the addresses account a may send as
    NullPath,        \* the empty reverse-path
    Listeners,       \* how a listener treats TLS: "plain", "starttls", "implicit"
    Mechanisms,      \* SASL mechanisms the configuration allows
    MaxMessageSize,  \* MAX_MESSAGE_SIZE
    MaxRecipients,   \* MAX_RECIPIENTS
    MaxErrorStreak,  \* MAX_ERROR_STREAK
    MaxAuthFailures  \* the 3 of auth_fail

ASSUME NobodyAssumption == Nobody \notin Accounts
ASSUME DirectoryAssumption ==
    /\ Local \subseteq Addresses /\ Unknown \subseteq Addresses
    /\ Owns \in [Accounts -> SUBSET Addresses]
    /\ NullPath \notin Addresses
ASSUME LimitsAssumption ==
    /\ {MaxMessageSize, MaxRecipients} \subseteq Nat
    /\ {MaxErrorStreak, MaxAuthFailures} \subseteq Nat \ {0}
ASSUME ListenersAssumption == Listeners \subseteq {"plain", "starttls", "implicit"}

VARIABLES
    open,            \* whether the connection is open
    mode,            \* Mode: what the loop reads next
    state,           \* State without the fields of the transaction
    txn,             \* the fields of ReceivingRecipients and ReceivingData
    tls,             \* tls_available and tls_active together
    helo,            \* helo_domain: none, or how the name came over the wire
    cert,            \* client_identity: the account of a verified certificate
    auth,            \* authenticated
    failures,        \* auth_failures
    pendingExternal, pendingLogin, pendingScram,
    scramAccount,    \* the account a SCRAM exchange was begun for
    streak,          \* error_streak of the loop
    msg,             \* the message handed to delivery
    busy,            \* whether msg is being screened and delivered
    \* for the properties
    mech,            \* in auth mode: the mechanism the AUTH command named
    errors           \* error replies to dispatched lines and messages in a row,
                     \* counted up to ErrorsSeen

authVars == <<cert, auth, failures, pendingExternal, pendingLogin, pendingScram, scramAccount>>
vars == <<open, mode, state, txn, tls, helo, authVars, streak, msg, busy, mech, errors>>

Paths == Addresses \cup {NullPath}
AllMechanisms == {"EXTERNAL", "SCRAM-PLUS", "SCRAM", "PLAIN", "LOGIN", "OAUTH"}
ASSUME MechanismsAssumption == Mechanisms \subseteq AllMechanisms
Framings == {"data", "bdat"}

\* Bound: longer runs of error replies are not told apart.
ErrorsSeen == MaxErrorStreak + 1

\* Bound: sizes over the ceiling are not told apart.
Grown(size, n) == IF size + n > MaxMessageSize THEN MaxMessageSize + 1 ELSE size + n

NoTxn == [from |-> NullPath, requireTls |-> FALSE, rcpts |-> {}, count |-> 0, size |-> 0,
          body |-> 0, framing |-> {}]

Txns == [from : Paths, requireTls : BOOLEAN, rcpts : SUBSET Addresses, count : Nat,
         size : Nat, body : Nat, framing : SUBSET Framings]

TypeOK ==
    /\ open \in BOOLEAN
    /\ mode \in {"commands", "data", "auth"}
    /\ state \in {"connected", "greeted", "recipients", "data"}
    /\ txn \in Txns
    /\ tls \in {"none", "offered", "active"}
    /\ helo \in {"none", "clear", "tls"}
    /\ cert \in Accounts \cup {Nobody}
    /\ auth \in Accounts \cup {Nobody}
    /\ failures \in 0 .. MaxAuthFailures
    /\ pendingExternal \in BOOLEAN
    /\ pendingLogin \in {"none", "username", "password"}
    /\ pendingScram \in {"none", "first", "final"}
    /\ scramAccount \in Accounts \cup {Nobody}
    /\ streak \in 0 .. MaxErrorStreak
    /\ msg \in Txns
    /\ busy \in BOOLEAN
    /\ mech \in AllMechanisms \cup {"none"}
    /\ errors \in Nat

Init ==
    /\ open = TRUE /\ mode = "commands" /\ state = "connected" /\ txn = NoTxn
    /\ \/ "plain" \in Listeners /\ tls = "none" /\ cert = Nobody
       \/ "starttls" \in Listeners /\ tls = "offered" /\ cert = Nobody
       \/ "implicit" \in Listeners /\ tls = "active" /\ cert \in Accounts \cup {Nobody}
    /\ helo = "none"
    /\ auth = Nobody /\ failures = 0
    /\ pendingExternal = FALSE /\ pendingLogin = "none" /\ pendingScram = "none"
    /\ scramAccount = Nobody
    /\ streak = 0 /\ msg = NoTxn /\ busy = FALSE /\ mech = "none" /\ errors = 0

(***************************************************************************)
(* The dispatch of an Action.                                              *)
(***************************************************************************)

\* Reading a command, an AUTH response or a data line.
Reads(m) == open /\ ~busy /\ mode = m

OneMoreError == errors' = IF errors < ErrorsSeen THEN errors + 1 ELSE errors

\* Continue with a reply below 400: the streak ends.
ReplyOk ==
    /\ streak' = 0 /\ errors' = 0
    /\ mode' = "commands" /\ mech' = "none"
    /\ UNCHANGED open

\* Mutant: the streak is counted but nothing is dropped.
ReplyErrorNoDrop ==
    /\ streak' = streak + 1
    /\ OneMoreError
    /\ mode' = "commands" /\ mech' = "none"
    /\ UNCHANGED open

\* Continue with an error reply; the last of the streak is a 421 and a close.
ReplyError ==
    /\ streak' = streak + 1
    /\ open' = (streak + 1 < MaxErrorStreak)
    /\ IF streak + 1 < MaxErrorStreak THEN OneMoreError ELSE UNCHANGED errors
    /\ mode' = "commands" /\ mech' = "none"

\* CollectData, CollectAuthResponse: a 3xx reply, which leaves the streak alone.
Collect(m, mechanism) ==
    /\ mode' = m /\ mech' = mechanism
    /\ errors' = 0
    /\ UNCHANGED <<open, streak>>

\* Close, or a connection that ends.
Closes ==
    /\ open' = FALSE
    /\ mode' = "commands" /\ mech' = "none"
    /\ UNCHANGED <<streak, errors>>

(***************************************************************************)
(* Commands.                                                               *)
(***************************************************************************)

\* A command that is unknown, malformed, out of sequence or refused by its
\* handler: 4xx or 5xx, and the session is as it was.
RefuseCommand ==
    /\ Reads("commands")
    /\ ReplyError
    /\ UNCHANGED <<state, txn, tls, helo, authVars, msg, busy>>

\* A command line that is not UTF-8 is answered before it is dispatched, and
\* is no part of the streak.
RawCommand ==
    /\ Reads("commands")
    /\ UNCHANGED vars

\* HELO and EHLO: any transaction in progress is dropped.
Greet ==
    /\ Reads("commands")
    /\ state' = "greeted" /\ txn' = NoTxn
    /\ helo' = IF tls = "active" THEN "tls" ELSE "clear"
    /\ ReplyOk
    /\ UNCHANGED <<tls, authVars, msg, busy>>

\* reset(): RSET, and the handlers that drop a transaction.
Reset ==
    /\ state' = IF state = "connected" THEN "connected" ELSE "greeted"
    /\ txn' = NoTxn

Rset ==
    /\ Reads("commands")
    /\ Reset
    /\ ReplyOk
    /\ UNCHANGED <<tls, helo, authVars, msg, busy>>

\* NOOP and VRFY.
Noop ==
    /\ Reads("commands")
    /\ ReplyOk
    /\ UNCHANGED <<state, txn, tls, helo, authVars, msg, busy>>

\* QUIT, a closed or silent peer, a line the decoder refuses, an AUTH response
\* that is not UTF-8, an oversized BDAT chunk: the connection ends.
Quit ==
    /\ open /\ ~busy
    /\ Closes
    /\ UNCHANGED <<state, txn, tls, helo, authVars, msg, busy>>

\* Mutant: the handshake keeps the name greeted with in the clear.
StartTlsKeepsHelo(identity) ==
    /\ Reads("commands")
    /\ tls = "offered" /\ state = "greeted"
    /\ tls' = "active" /\ cert' = identity
    /\ errors' = 0
    /\ UNCHANGED <<open, mode, state, txn, helo, auth, failures, pendingExternal, pendingLogin,
                   pendingScram, scramAccount, streak, msg, busy, mech>>

\* STARTTLS, the handshake and tls_started(); the client must greet again.
StartTls(identity) ==
    /\ Reads("commands")
    /\ tls = "offered" /\ state = "greeted"
    /\ tls' = "active" /\ cert' = identity
    /\ state' = "connected" /\ helo' = "none"
    /\ errors' = 0
    /\ UNCHANGED <<open, mode, txn, auth, failures, pendingExternal, pendingLogin,
                   pendingScram, scramAccount, streak, msg, busy, mech>>

(***************************************************************************)
(* AUTH.                                                                   *)
(***************************************************************************)

\* Mutant: AUTH is accepted while a transaction is open.
AuthAllowedAnyState(m) ==
    /\ Reads("commands")
    /\ tls = "active" /\ auth = Nobody
    /\ m \in Mechanisms /\ (m = "EXTERNAL" => cert # Nobody)

\* The guards of auth(): TLS, not authenticated yet, no transaction, and the
\* mechanism advertised.
AuthAllowed(m) ==
    /\ Reads("commands")
    /\ tls = "active" /\ auth = Nobody /\ state = "greeted"
    /\ m \in Mechanisms /\ (m = "EXTERNAL" => cert # Nobody)

\* auth_success and its SCRAM and OAuth counterparts: 235.
AuthSucceeds(account) ==
    /\ auth' = account
    /\ ReplyOk
    /\ UNCHANGED failures

\* Mutant: failures are counted, the connection stays open.
AuthFailsStaysOpen ==
    /\ failures' = failures + 1
    /\ ReplyError
    /\ UNCHANGED auth

\* auth_fail, scram_failure, oauth_failure: the third one closes.
AuthFails ==
    /\ failures' = failures + 1
    /\ IF failures + 1 >= MaxAuthFailures THEN Closes ELSE ReplyError
    /\ UNCHANGED auth

\* verify_plain, login_password, a bearer token: some account, or a failure.
\* verify_external: the account of the certificate, or a failure.
Verify(possible) == AuthFails \/ \E account \in possible : AuthSucceeds(account)

\* AUTH with an initial response that decides at once.
AuthInitial(m) ==
    /\ AuthAllowed(m) /\ m \in {"EXTERNAL", "PLAIN", "OAUTH"}
    /\ Verify(IF m = "EXTERNAL" THEN {cert} ELSE Accounts)
    /\ UNCHANGED <<state, txn, tls, helo, cert, pendingExternal, pendingLogin, pendingScram,
                   scramAccount, msg, busy>>

\* AUTH without an initial response: a 334 challenge.
AuthChallenge(m) ==
    /\ AuthAllowed(m) /\ m # "OAUTH"
    /\ pendingExternal' = (m = "EXTERNAL" \/ pendingExternal)
    /\ pendingLogin' = IF m = "LOGIN" THEN "username" ELSE pendingLogin
    /\ pendingScram' = IF m \in {"SCRAM", "SCRAM-PLUS"} THEN "first" ELSE pendingScram
    /\ Collect("auth", m)
    /\ UNCHANGED <<state, txn, tls, helo, cert, auth, failures, scramAccount, msg, busy>>

\* AUTH LOGIN with the username, AUTH SCRAM-* with the client-first message.
AuthFirstStep(m, account) ==
    /\ AuthAllowed(m) /\ m \in {"LOGIN", "SCRAM", "SCRAM-PLUS"}
    /\ \/ /\ m = "LOGIN"
          /\ pendingLogin' = "password"
          /\ Collect("auth", m)
          /\ UNCHANGED <<auth, failures, pendingScram, scramAccount>>
       \/ /\ m # "LOGIN"
          /\ pendingScram' = "final" /\ scramAccount' = account
          /\ Collect("auth", m)
          /\ UNCHANGED <<auth, failures, pendingLogin>>
       \/ /\ AuthFails
          /\ pendingScram' = IF m = "LOGIN" THEN pendingScram ELSE "none"
          /\ UNCHANGED <<pendingLogin, scramAccount>>
    /\ UNCHANGED <<state, txn, tls, helo, cert, pendingExternal, msg, busy>>

\* Mutant: a cancelled exchange is not forgotten.
AuthCancelKeepsPending ==
    /\ Reads("auth")
    /\ ReplyError
    /\ UNCHANGED <<state, txn, tls, helo, authVars, msg, busy>>

\* A response line of "*".
AuthCancel ==
    /\ Reads("auth")
    /\ pendingExternal' = FALSE /\ pendingLogin' = "none" /\ pendingScram' = "none"
    /\ scramAccount' = Nobody
    /\ ReplyError
    /\ UNCHANGED <<state, txn, tls, helo, cert, auth, failures, msg, busy>>

\* auth_line: EXTERNAL, then LOGIN, then SCRAM, else PLAIN.
ExternalLine ==
    /\ Reads("auth") /\ pendingExternal
    /\ pendingExternal' = FALSE
    /\ Verify(IF cert = Nobody THEN {} ELSE {cert})
    /\ UNCHANGED <<state, txn, tls, helo, cert, pendingLogin, pendingScram, scramAccount,
                   msg, busy>>

LoginLine ==
    /\ Reads("auth") /\ ~pendingExternal /\ pendingLogin # "none"
    /\ \/ /\ pendingLogin = "username"
          /\ pendingLogin' = "password"
          /\ Collect("auth", mech)
          /\ UNCHANGED <<auth, failures>>
       \/ /\ pendingLogin = "username"
          /\ pendingLogin' = "none"
          /\ AuthFails
       \/ /\ pendingLogin = "password"
          /\ pendingLogin' = "none"
          /\ Verify(Accounts)
    /\ UNCHANGED <<state, txn, tls, helo, cert, pendingExternal, pendingScram, scramAccount,
                   msg, busy>>

ScramFirstLine(account) ==
    /\ Reads("auth") /\ ~pendingExternal /\ pendingLogin = "none" /\ pendingScram = "first"
    /\ \/ /\ pendingScram' = "final" /\ scramAccount' = account
          /\ Collect("auth", mech)
          /\ UNCHANGED <<auth, failures>>
       \/ /\ pendingScram' = "none"
          /\ AuthFails
          /\ UNCHANGED scramAccount
    /\ UNCHANGED <<state, txn, tls, helo, cert, pendingExternal, pendingLogin, msg, busy>>

ScramFinalLine ==
    /\ Reads("auth") /\ ~pendingExternal /\ pendingLogin = "none" /\ pendingScram = "final"
    /\ pendingScram' = "none" /\ scramAccount' = Nobody
    /\ Verify({scramAccount})
    /\ UNCHANGED <<state, txn, tls, helo, cert, pendingExternal, pendingLogin, msg, busy>>

PlainLine ==
    /\ Reads("auth") /\ ~pendingExternal /\ pendingLogin = "none" /\ pendingScram = "none"
    /\ Verify(Accounts)
    /\ UNCHANGED <<state, txn, tls, helo, cert, pendingExternal, pendingLogin, pendingScram,
                   scramAccount, msg, busy>>

(***************************************************************************)
(* The mail transaction.                                                   *)
(***************************************************************************)

\* The sender check of mail_from: an authenticated sender uses an address of
\* its own, never the null path.
MaySendAs(path) == auth # Nobody => path \in Owns[auth]

\* MAIL FROM accepted: within the rate limit, the size ceiling and the disk
\* space, whose refusals are RefuseCommand.
MailFrom(path, requireTls) ==
    /\ Reads("commands") /\ state = "greeted"
    /\ requireTls => tls = "active"
    /\ MaySendAs(path)
    /\ state' = "recipients"
    /\ txn' = [NoTxn EXCEPT !.from = path, !.requireTls = requireTls]
    /\ ReplyOk
    /\ UNCHANGED <<tls, helo, authVars, msg, busy>>

\* Mutant: the flag that a chunk has begun is not looked at.
RcptToIgnoresChunking(a) ==
    /\ Reads("commands")
    /\ a \notin Unknown /\ (a \in Local \/ auth # Nobody)
    /\ \/ state = "recipients"
       \/ state = "data" /\ txn.body = 0 /\ txn.count < MaxRecipients
    /\ state' = "data"
    /\ txn' = [txn EXCEPT !.rcpts = @ \cup {a}, !.count = @ + 1]
    /\ ReplyOk
    /\ UNCHANGED <<tls, helo, authVars, msg, busy>>

\* RCPT TO accepted: a local mailbox, or a foreign one for an authenticated
\* client, before any message data.
RcptTo(a) ==
    /\ Reads("commands")
    /\ a \notin Unknown /\ (a \in Local \/ auth # Nobody)
    /\ \/ state = "recipients"
       \/ /\ state = "data" /\ txn.body = 0 /\ "bdat" \notin txn.framing
          /\ txn.count < MaxRecipients
    /\ state' = "data"
    /\ txn' = [txn EXCEPT !.rcpts = @ \cup {a}, !.count = @ + 1]
    /\ ReplyOk
    /\ UNCHANGED <<tls, helo, authVars, msg, busy>>

\* Mutant: only the collected octets are looked at, not the chunking flag.
DataIgnoresChunking ==
    /\ Reads("commands")
    /\ state = "data" /\ txn.body = 0
    /\ txn' = [txn EXCEPT !.framing = @ \cup {"data"}]
    /\ Collect("data", "none")
    /\ UNCHANGED <<state, tls, helo, authVars, msg, busy>>

Data ==
    /\ Reads("commands")
    /\ state = "data" /\ txn.body = 0 /\ "bdat" \notin txn.framing
    /\ txn' = [txn EXCEPT !.framing = @ \cup {"data"}]
    /\ Collect("data", "none")
    /\ UNCHANGED <<state, tls, helo, authVars, msg, busy>>

\* data_line with n octets of content, CRLF included: counted always, kept
\* only below the ceiling.
DataLine(n) ==
    /\ Reads("data") /\ state = "data"
    /\ txn' = [txn EXCEPT !.size = Grown(@, n),
                          !.body = IF txn.size + n <= MaxMessageSize THEN @ + n ELSE @]
    /\ UNCHANGED <<open, mode, state, tls, helo, authVars, streak, msg, busy, mech, errors>>

\* Deliver: the transaction is over for the session, the loop has the message.
HandOver(t) ==
    /\ msg' = t /\ busy' = TRUE
    /\ state' = "greeted" /\ txn' = NoTxn
    /\ mode' = "commands"
    /\ UNCHANGED <<open, streak, mech, errors>>

\* Mutant: the final dot does not look at the size.
DataEndNoCeiling ==
    /\ Reads("data") /\ state = "data"
    /\ HandOver(txn)
    /\ UNCHANGED <<tls, helo, authVars>>

\* data_line with the final dot.
DataEnd ==
    /\ Reads("data") /\ state = "data"
    /\ IF txn.size > MaxMessageSize
         THEN /\ state' = "greeted" /\ txn' = NoTxn
              /\ ReplyError
              /\ UNCHANGED <<msg, busy>>
         ELSE HandOver(txn)
    /\ UNCHANGED <<tls, helo, authVars>>

\* BDAT and its chunk of n octets, n at most the ceiling (a larger one closes
\* the connection unread): discarded outside a transaction, else collected.
Bdat(n, last) ==
    /\ Reads("commands")
    /\ LET grown == [txn EXCEPT !.size = @ + n, !.body = @ + n, !.framing = @ \cup {"bdat"}]
           over == txn.size + n > MaxMessageSize
       IN  \/ (state # "data" \/ over) /\ Reset /\ ReplyError /\ UNCHANGED <<msg, busy>>
           \/ /\ state = "data" /\ ~over /\ ~last
              /\ txn' = grown
              /\ ReplyOk
              /\ UNCHANGED <<state, msg, busy>>
           \/ state = "data" /\ ~over /\ last /\ HandOver(grown)
    /\ UNCHANGED <<tls, helo, authVars>>

\* The screening and the sink have answered; 250, or a 4xx or 5xx that is not
\* counted in the streak.
Answer(accepted) ==
    /\ open /\ busy
    /\ busy' = FALSE /\ msg' = NoTxn
    /\ IF accepted THEN errors' = 0 ELSE OneMoreError
    /\ UNCHANGED <<open, mode, state, txn, tls, helo, authVars, streak, mech>>

Next ==
    \/ RefuseCommand \/ RawCommand \/ Greet \/ Rset \/ Noop \/ Quit
    \/ \E identity \in Accounts \cup {Nobody} : StartTls(identity)
    \/ \E m \in Mechanisms :
           \/ AuthInitial(m) \/ AuthChallenge(m)
           \/ \E account \in Accounts : AuthFirstStep(m, account)
    \/ AuthCancel \/ ExternalLine \/ LoginLine \/ ScramFinalLine \/ PlainLine
    \/ \E account \in Accounts : ScramFirstLine(account)
    \/ \E path \in Paths, requireTls \in BOOLEAN : MailFrom(path, requireTls)
    \/ \E a \in Addresses : RcptTo(a)
    \/ Data \/ DataEnd
    \/ \E n \in 2 .. MaxMessageSize + 1 : DataLine(n)
    \/ \E n \in 0 .. MaxMessageSize, last \in BOOLEAN : Bdat(n, last)
    \/ \E accepted \in BOOLEAN : Answer(accepted)

Spec == Init /\ [][Next]_vars

(***************************************************************************)
(* Properties.                                                             *)
(***************************************************************************)

\* A transaction is authorised by the client that is now authenticated: it
\* names foreign recipients only for an authenticated client, whose sender
\* address is then its own, and asks for REQUIRETLS only inside TLS.
Authorised(t) ==
    /\ t.rcpts \subseteq Local \/ auth # Nobody
    /\ auth # Nobody => t.from \in Owns[auth]
    /\ t.requireTls => tls = "active"

\* Whatever order the client sends AUTH, STARTTLS, MAIL, RCPT and data in, a
\* message that reaches delivery is authorised (mail_from, rcpt_to, auth).
AuthorisedDelivery == busy => Authorised(msg)

\* Nothing the client said before TLS is used inside TLS: neither the greeting
\* nor an authentication, finished or not (tls_started, auth).
NothingFromCleartext ==
    /\ tls = "active" => helo # "clear"
    /\ auth # Nobody \/ mode = "auth" \/ failures > 0 => tls = "active"

\* A response line is judged by the mechanism the client asked for, and no
\* exchange is left behind when the client is back to commands (auth_line).
MechanismHonoured ==
    LET asked == IF mode = "auth" THEN mech ELSE "none"
    IN  open => /\ pendingExternal <=> asked = "EXTERNAL"
                /\ pendingLogin # "none" <=> asked = "LOGIN"
                /\ pendingScram # "none" <=> asked \in {"SCRAM", "SCRAM-PLUS"}

\* A message that reaches delivery holds every octet the client sent, within
\* the ceiling: an oversized one is never cut and delivered (data_line, bdat).
DeliveredWhole == busy => msg.body = msg.size /\ msg.size <= MaxMessageSize

\* DATA and BDAT are never mixed in one message, zero-length chunks included,
\* and every delivered message has recipients.
OneFraming == busy => Cardinality(msg.framing) = 1 /\ msg.rcpts # {}

\* Once message data has begun the recipients of the transaction are final.
RecipientsFinal ==
    [][txn.framing # {} /\ txn'.framing # {} => txn'.rcpts = txn.rcpts]_vars

\* A client whose commands, AUTH responses and messages all fail is dropped
\* after MAX_ERROR_STREAK error replies, whichever of them they answer (lines
\* that are not UTF-8 are not counted by the code, nor here).
ErrorsBounded == errors <= MaxErrorStreak

\* What the code promises about who may send: a message that reaches delivery
\* is authorised, the response of an exchange is judged by its own mechanism,
\* and a client that keeps failing is dropped (session/mod.rs, auth.rs).
AuthorisedThroughout == AuthorisedDelivery /\ MechanismHonoured /\ ErrorsBounded

\* What the code promises about what is sent: every octet of one framing, within
\* the ceiling, to at least one recipient (data_line, bdat, finish_data).
DeliveredFaithfully == DeliveredWhole /\ OneFraming
=============================================================================

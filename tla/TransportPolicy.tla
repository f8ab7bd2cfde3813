------------------------- MODULE TransportPolicy -------------------------
(***************************************************************************)
(* How one delivery attempt of the queue worker leaves the server          *)
(* (queue/worker.rs from the MTA-STS lookup to the result of               *)
(* client::deliver): the recipient domain's MTA-STS policy and its cache   *)
(* (mtasts/policy.rs), the transport rule (config/transport.rs), the       *)
(* connection to a smarthost, perhaps through SOCKS5 (queue/transport.rs), *)
(* or to an exchanger the policy permits (queue/resolver.rs), the TLSA     *)
(* records and the chain they authenticate (dane/), and the SMTP dialogue  *)
(* with its STARTTLS upgrade (queue/client.rs).                            *)
(*                                                                         *)
(* The worker is one task, so there is one attempt at a time; the clock    *)
(* runs on between its steps, and every answer of DNS, of the policy       *)
(* server, of the proxy and of the remote server is chosen freely.  Host   *)
(* names are sequences of labels.                                          *)
(***************************************************************************)
EXTENDS Integers, Sequences, FiniteSets, SequencesExt

CONSTANTS
  TpDomains,     \* recipient domains, sequences of labels
  TpSenders,     \* local parts of reverse paths, "" for the null one
  TpRules,       \* the [[transport]] rules, in their order
  TpMode,        \* outbound_tls: "Strict" or "Opportunistic"
  TpDocuments,   \* bodies of mta-sts.txt, as the fields they carry
  TpExchangers,  \* answers to the MX query, in answer order
  TpTlsa,        \* answers to the TLSA query, with their proofs
  TpPeers,       \* what a handshake shows: [chain, pkix]
  TpRecipients,  \* recipients of the conversation, a number
  TpMaxCache, TpNegativeTtl, TpHorizon

VARIABLES
  tpNow,         \* the clock
  tpCache,       \* PolicyStore::cache
  tpJob,         \* the attempt under way
  tpLearned,     \* what each domain last made known, and until when (history)
  tpSent         \* what left the server, to whom and how (history)

tpVars == <<tpNow, tpCache, tpJob, tpLearned, tpSent>>

NoPolicy == [mode |-> "None", mx |-> {}, maxAge |-> 0]
NotCached == [policy |-> NoPolicy, expiry |-> 0]
NoRule == [account |-> "", domain |-> <<>>, kind |-> "Direct", host |-> <<>>,
           starttls |-> FALSE, auth |-> FALSE, socks |-> FALSE]

---------------------------------------------------------------------------
(* MTA-STS policies *)

\* Policy::permits_mx: a wildcard stands for exactly one leftmost label
PermitsMx(policy, host) ==
  \E pattern \in policy.mx :
    IF pattern.wild THEN Len(host) > 1 /\ Tail(host) = pattern.name
                    ELSE host = pattern.name

\* parse: the version, a mode, a max_age, and an mx unless the mode is none
Malformed(doc) ==
  \/ doc.badLine
  \/ doc.version # "STSv1"
  \/ doc.mode \notin {"Enforce", "Testing", "None"}
  \/ doc.mode # "None" /\ doc.mx = {}
  \/ doc.maxAge < 0

ParsePolicy(doc) == [mode |-> doc.mode, mx |-> doc.mx, maxAge |-> doc.maxAge]

---------------------------------------------------------------------------
(* Transport rules *)

\* Transport::specificity, 0 for a rule that does not match
Specificity(rule, sender, domain) ==
  IF rule.account # "" THEN (IF sender = rule.account THEN 3 ELSE 0)
  ELSE IF rule.domain # <<>> THEN (IF domain = rule.domain THEN 2 ELSE 0)
  ELSE 1

\* Transport::validate, run when the configuration is loaded
ValidRule(rule) ==
  rule.kind = "Relay" => rule.host # <<>> /\ (rule.auth => rule.starttls)

ASSUME TpAssumption ==
  /\ TpHorizon \in Nat \ {0} /\ TpRecipients \in Nat \ {0}
  /\ TpMaxCache \in Nat /\ TpNegativeTtl \in Nat
  /\ \A i \in DOMAIN TpRules : ValidRule(TpRules[i])
  /\ \A doc \in TpDocuments : doc.maxAge \in Int
  /\ \A peer \in TpPeers : /\ peer.pkix \in BOOLEAN
                           /\ peer.chain \in Seq({peer.chain[i] : i \in DOMAIN peer.chain})

\* select: the most specific rule, the last of several (max_by_key)
SelectTransport(sender, domain) ==
  LET spec(i) == Specificity(TpRules[i], sender, domain)
      best == {i \in DOMAIN TpRules : spec(i) > 0 /\ \A j \in DOMAIN TpRules :
                 spec(j) < spec(i) \/ (spec(j) = spec(i) /\ j <= i)}
  IN IF best = {} THEN NoRule ELSE TpRules[CHOOSE i \in best : TRUE]

\* relay_connect and socks5_connect: what the proxy answers decides the result
ProxyAnswers == [up : BOOLEAN, method : BOOLEAN, version : BOOLEAN,
                 rep : BOOLEAN, atyp : BOOLEAN, drained : BOOLEAN]

Socks5Connect(answer) ==
  CASE ~answer.up -> "transient"
    [] ~answer.method -> "permanent"
    [] ~answer.version -> "permanent"
    [] ~answer.rep -> "transient"
    [] ~answer.atyp -> "permanent"
    [] ~answer.drained -> "transient"
    [] OTHER -> "connected"

---------------------------------------------------------------------------
(* DANE *)

\* TlsaRecord::from_parts: unknown codes and empty data are no record
FromParts(a) ==
  IF a.usage \in 0..3 /\ a.selector \in 0..1 /\ a.matching \in 0..2 /\ a.association.of # ""
  THEN {[usage |-> a.usage, selector |-> a.selector, matching |-> a.matching,
         association |-> a.association]}
  ELSE {}

\* SystemDns::tlsa: only answers DNSSEC proves are records at all
SecureTlsa(answers) == UNION {FromParts(a) : a \in {x \in answers : x.secure}}

\* matches_cert; a digest is the data tagged with its matching type, and a
\* certificate that cannot be parsed has the empty key (spki_of)
MatchesCert(record, cert) ==
  LET selected == IF record.selector = 0 THEN cert.der ELSE cert.spki
  IN record.association = [as |-> record.matching, of |-> selected]

\* policy::authenticate: end-entity usages look at the leaf only
DaneAuthenticateAny(records, chain) ==
  \E record \in records : \E i \in DOMAIN chain : MatchesCert(record, chain[i])

DaneAuthenticate(records, chain) ==
  \E record \in records :
    IF record.usage \in {1, 3} THEN MatchesCert(record, chain[1])
    ELSE \E i \in DOMAIN chain : MatchesCert(record, chain[i])

\* verify_chain and dane_outcome
VerifyChain(records, chain) ==
  CASE records = {} -> "NoRecords"
    [] records # {} /\ chain = <<>> -> "Mismatch"
    [] OTHER -> IF DaneAuthenticate(records, chain) THEN "Authenticated"
                ELSE "Mismatch"

---------------------------------------------------------------------------
(* The attempt *)

Idle == [pc |-> "idle", domain |-> <<>>, sender |-> "", reqtls |-> FALSE,
         policy |-> NoPolicy, duty |-> NoPolicy, rule |-> NoRule, host |-> <<>>,
         tlsa |-> {}, tls |-> FALSE, peer |-> [chain |-> <<>>, pkix |-> FALSE],
         buffer |-> <<>>, offered |-> FALSE, accepted |-> 0, cause |-> ""]

TpInit ==
  /\ tpNow = 1
  /\ tpCache = [d \in TpDomains |-> NotCached]
  /\ tpJob = Idle
  /\ tpLearned = [d \in TpDomains |-> NotCached]
  /\ tpSent = {}

At(pc) == tpJob.pc = pc
Step(job) == tpJob' = job
OnlyJob == UNCHANGED <<tpNow, tpCache, tpLearned>>

\* Outcome::Retry, Outcome::Dropped and Outcome::Delivered
Retry(why) == Step([tpJob EXCEPT !.pc = "retry", !.cause = why])
Drop(why) == Step([tpJob EXCEPT !.pc = "dropped", !.cause = why])

\* what the domain has bound us to at this moment, by its own word
Duty(d) == IF tpNow < tpLearned[d].expiry THEN tpLearned[d].policy ELSE NoPolicy

\* deliver_entry turns to the next domain of an entry
BeginDomain(d, sender, reqtls) ==
  /\ At("idle")
  /\ Step([Idle EXCEPT !.pc = "policy", !.domain = d, !.sender = sender,
                       !.reqtls = reqtls])
  /\ OnlyJob /\ UNCHANGED tpSent

\* only an enforce policy constrains the attempt; the rest is opportunistic
Governed(policy, duty) ==
  Step([tpJob EXCEPT !.pc = "route", !.duty = duty,
                     !.policy = IF policy.mode = "Enforce" THEN policy ELSE NoPolicy])

\* PolicyStore::policy: a cached answer is used until its expiry
PolicyCached ==
  /\ At("policy")
  /\ tpNow < tpCache[tpJob.domain].expiry
  /\ Governed(tpCache[tpJob.domain].policy, Duty(tpJob.domain))
  /\ OnlyJob /\ UNCHANGED tpSent

\* PolicyStore::policy: the TXT query that must come before the document
Discovery ==
  /\ At("policy")
  /\ tpNow >= tpCache[tpJob.domain].expiry
  /\ \/ Retry("dns") /\ UNCHANGED <<tpCache, tpLearned>>
     \/ LET none == [policy |-> NoPolicy, expiry |-> tpNow + TpNegativeTtl]
        IN /\ tpCache' = [tpCache EXCEPT ![tpJob.domain] = none]
           /\ tpLearned' = [tpLearned EXCEPT ![tpJob.domain] = none]
           /\ Governed(NoPolicy, NoPolicy)
     \/ Step([tpJob EXCEPT !.pc = "fetch"]) /\ UNCHANGED <<tpCache, tpLearned>>
  /\ UNCHANGED <<tpNow, tpSent>>

\* SystemFetcher::fetch fails: no connection, or any status but success
FetchFails ==
  /\ At("fetch")
  /\ Retry("policy fetch")
  /\ OnlyJob /\ UNCHANGED tpSent

\* a malformed or oversized document falls back to opportunistic TLS
FetchMalformed(doc) ==
  /\ At("fetch")
  /\ Malformed(doc)
  /\ Governed(NoPolicy, NoPolicy)
  /\ OnlyJob /\ UNCHANGED tpSent

CacheTtl(policy) == IF policy.maxAge < TpMaxCache THEN policy.maxAge ELSE TpMaxCache

Fetched(doc) ==
  /\ At("fetch")
  /\ ~Malformed(doc)
  /\ LET policy == ParsePolicy(doc)
         entry == [policy |-> policy, expiry |-> tpNow + CacheTtl(policy)]
     IN /\ tpCache' = [tpCache EXCEPT ![tpJob.domain] = entry]
        /\ tpLearned' = [tpLearned EXCEPT ![tpJob.domain] = entry]
        /\ Governed(policy, policy)
  /\ UNCHANGED <<tpNow, tpSent>>

\* the transport rule decides between refusing, a smarthost and the exchangers;
\* a direct rule's other fields are ignored
Route ==
  /\ At("route")
  /\ LET rule == SelectTransport(tpJob.sender, tpJob.domain)
     IN \/ rule.kind = "Fail" /\ Drop("rule")
        \/ /\ rule.kind = "Relay"
           /\ Step([tpJob EXCEPT !.pc = "relay", !.rule = rule])
        \/ /\ rule.kind = "Direct"
           /\ Step([tpJob EXCEPT !.pc = "mx", !.rule = NoRule])
  /\ OnlyJob /\ UNCHANGED tpSent

RelayConnect(answer) ==
  /\ At("relay")
  /\ LET result == IF tpJob.rule.socks THEN Socks5Connect(answer)
                   ELSE IF answer.up THEN "connected" ELSE "transient"
     IN CASE result = "transient" -> Retry("connect")
          [] result = "permanent" -> Drop("socks")
          [] OTHER -> Step([tpJob EXCEPT !.pc = "greeting", !.host = tpJob.rule.host])
  /\ OnlyJob /\ UNCHANGED tpSent

\* MxConnector::exchangers: stable order of preference, the domain itself
\* where there is no MX record
Exchangers(domain, answer) ==
  IF answer = <<>> THEN <<domain>>
  ELSE LET sorted == SortSeq([i \in DOMAIN answer |-> [mx |-> answer[i], at |-> i]],
                       LAMBDA x, y : \/ x.mx.preference < y.mx.preference
                                     \/ /\ x.mx.preference = y.mx.preference
                                        /\ x.at < y.at)
       IN [i \in DOMAIN sorted |-> sorted[i].mx.host]

\* MxConnector::connect: permitted hosts only, and the first that answers
MxConnect(answer, up) ==
  /\ At("mx")
  /\ LET hosts == Exchangers(tpJob.domain, answer)
         permitted == {i \in DOMAIN hosts : tpJob.policy.mode = "Enforce" =>
                                              PermitsMx(tpJob.policy, hosts[i])}
         live == {i \in permitted : hosts[i] \in up}
     IN IF live = {} THEN Retry("connect")
        ELSE \E i \in live : /\ \A j \in live : i <= j
                             /\ Step([tpJob EXCEPT !.pc = "tlsa", !.host = hosts[i]])
  /\ OnlyJob /\ UNCHANGED tpSent

MxLookupFails ==
  /\ At("mx")
  /\ Retry("dns")
  /\ OnlyJob /\ UNCHANGED tpSent

\* Worker::tlsa_for: a failed lookup defers, it does not downgrade
TlsaLookup(answers) ==
  /\ At("tlsa")
  /\ \/ Retry("dns")
     \/ Step([tpJob EXCEPT !.pc = "greeting", !.tlsa = SecureTlsa(answers)])
  /\ OnlyJob /\ UNCHANGED tpSent

---------------------------------------------------------------------------
(* The dialogue *)

\* the reply each command waits for
ExpectedReply == [greeting |-> 220, ehlo |-> 250, starttls |-> 220, ehlo2 |-> 250,
             auth |-> 235, mail |-> 250, rcpt |-> 250, data |-> 354, body |-> 250]

\* the replies a server may give; 0 is a malformed one, -1 a closed connection
Replies(pc) == {ExpectedReply[pc], 251, 450, 550, 0, -1}

\* DeliveryError::from_reply and Conn::expect
Refused(code) ==
  IF code >= 500 THEN Drop("refused")
  ELSE IF code = 251 THEN Retry("251") ELSE Retry("refused")

\* read_reply: what is left in the buffer is read before the stream; a chunk
\* may hold a second reply (complete_reply)
ReadReply(pc) ==
  IF tpJob.buffer # <<>>
  THEN {[code |-> Head(tpJob.buffer).code, over |-> Head(tpJob.buffer).over,
         rest |-> Tail(tpJob.buffer)]}
  ELSE {[code |-> c, over |-> tpJob.tls, rest |-> <<>>] : c \in Replies(pc)} \cup
       {[code |-> ExpectedReply[pc], over |-> tpJob.tls,
         rest |-> <<[code |-> 250, over |-> tpJob.tls]>>]}

\* what leaves the server with the command of this step
Discloses(pc) ==
  CASE pc = "auth" -> {"credentials"}
    [] pc \in {"mail", "rcpt"} -> {"envelope"}
    [] pc = "body" -> {"content"}
    [] OTHER -> {}

\* command: the line is written, then a reply is awaited; the job goes on as
\* then when it is the expected one
Command(pc, then) ==
  /\ At(pc)
  /\ \E reply \in ReadReply(pc) :
       IF reply.code # ExpectedReply[pc] THEN Refused(reply.code)
       ELSE Step([then EXCEPT !.buffer = reply.rest])
  /\ tpSent' = tpSent \cup
       {[what |-> w, direct |-> tpJob.rule.kind = "Direct", host |-> tpJob.host,
         domain |-> tpJob.domain, reqtls |-> tpJob.reqtls, duty |-> tpJob.duty,
         tlsa |-> tpJob.tlsa, tls |-> tpJob.tls, peer |-> tpJob.peer]
           : w \in Discloses(pc)}
  /\ OnlyJob

Greeting == Command("greeting", [tpJob EXCEPT !.pc = "ehlo"])

\* require_tls of client::deliver: the smarthost's rule, or policy and sender
TlsRequired ==
  IF tpJob.rule.kind = "Relay" THEN tpJob.rule.starttls
  ELSE tpJob.policy.mode = "Enforce" \/ tpJob.reqtls

MustStartTls == TlsRequired \/ tpJob.tlsa # {}

\* the server may offer STARTTLS or not; without it only mail that need not
\* be protected goes on
Ehlo ==
  \/ Command("ehlo", [tpJob EXCEPT !.pc = "starttls", !.offered = TRUE])
  \/ Command("ehlo",
       IF MustStartTls THEN [tpJob EXCEPT !.pc = "retry", !.cause = "no STARTTLS"]
       ELSE [tpJob EXCEPT !.pc = "auth"])

StartTlsCommand == Command("starttls", [tpJob EXCEPT !.pc = "handshake"])

AuthenticatePkixLoose == tpJob.tlsa = {} /\ (TlsRequired \/ TpMode = "Strict")

AuthenticatePkix == TlsRequired \/ (tpJob.tlsa = {} /\ TpMode = "Strict")

\* tls_connect, then verify_chain; into_inner drops what was buffered before
HandshakeKeepsBuffer(peer) ==
  /\ At("handshake")
  /\ IF (AuthenticatePkix /\ ~peer.pkix) \/ VerifyChain(tpJob.tlsa, peer.chain) = "Mismatch"
     THEN Retry("TLS")
     ELSE Step([tpJob EXCEPT !.pc = "ehlo2", !.tls = TRUE, !.peer = peer])
  /\ OnlyJob /\ UNCHANGED tpSent

Handshake(peer) ==
  /\ At("handshake")
  /\ IF (AuthenticatePkix /\ ~peer.pkix) \/ VerifyChain(tpJob.tlsa, peer.chain) = "Mismatch"
     THEN Retry("TLS")
     ELSE Step([tpJob EXCEPT !.pc = "ehlo2", !.tls = TRUE, !.peer = peer,
                             !.buffer = <<>>])
  /\ OnlyJob /\ UNCHANGED tpSent

HandshakeFails ==
  /\ At("handshake")
  /\ Retry("TLS")
  /\ OnlyJob /\ UNCHANGED tpSent

EhloOverTls == Command("ehlo2", [tpJob EXCEPT !.pc = "auth"])

\* credentials only over TLS
Auth ==
  \/ At("auth") /\ ~tpJob.rule.auth /\ Step([tpJob EXCEPT !.pc = "mail"])
     /\ OnlyJob /\ UNCHANGED tpSent
  \/ At("auth") /\ tpJob.rule.auth /\ ~tpJob.tls /\ Drop("no TLS for AUTH")
     /\ OnlyJob /\ UNCHANGED tpSent
  \/ tpJob.rule.auth /\ tpJob.tls
     /\ Command("auth", [tpJob EXCEPT !.pc = "mail"])

MailCommand == Command("mail", [tpJob EXCEPT !.pc = "rcpt"])

\* one refused recipient ends the whole conversation
RcptCommand ==
  Command("rcpt",
    [tpJob EXCEPT !.accepted = @ + 1,
                  !.pc = IF tpJob.accepted + 1 = TpRecipients THEN "data" ELSE "rcpt"])

DataCommand == Command("data", [tpJob EXCEPT !.pc = "body"])

\* send_data and its reply; how QUIT ends does not matter
Body == Command("body", [tpJob EXCEPT !.pc = "delivered"])

\* deliver_entry has the outcome
FinishAttempt ==
  /\ tpJob.pc \in {"retry", "dropped", "delivered"}
  /\ Step(Idle)
  /\ tpSent' = {}
  /\ OnlyJob

Tick ==
  /\ tpNow < TpHorizon
  /\ tpNow' = tpNow + 1
  /\ UNCHANGED <<tpCache, tpJob, tpLearned, tpSent>>

TpNext ==
  \/ \E d \in TpDomains, s \in TpSenders, r \in BOOLEAN : BeginDomain(d, s, r)
  \/ PolicyCached \/ Discovery \/ FetchFails
  \/ \E doc \in TpDocuments : FetchMalformed(doc) \/ Fetched(doc)
  \/ Route
  \/ \E answer \in ProxyAnswers : RelayConnect(answer)
  \/ \E answer \in TpExchangers :
       \E up \in SUBSET ({answer[i].host : i \in DOMAIN answer} \cup {tpJob.domain}) :
         MxConnect(answer, up)
  \/ MxLookupFails
  \/ \E answers \in TpTlsa : TlsaLookup(answers)
  \/ Greeting \/ Ehlo \/ StartTlsCommand
  \/ \E peer \in TpPeers : Handshake(peer)
  \/ HandshakeFails \/ EhloOverTls \/ Auth \/ MailCommand \/ RcptCommand \/ DataCommand \/ Body
  \/ FinishAttempt \/ Tick

TpSpec == TpInit /\ [][TpNext]_tpVars

---------------------------------------------------------------------------
(* The bytes of the message *)

\* Conn::send_data: a dot is doubled at the start of every \n-ended line
StuffOnce(data) ==
  [i \in DOMAIN data |-> IF i = 1 /\ data[i] = "." THEN <<".", ".">> ELSE <<data[i]>>]

Stuff(data) ==
  [i \in DOMAIN data |->
     IF data[i] = "." /\ (i = 1 \/ data[i - 1] = "LF") THEN <<".", ".">> ELSE <<data[i]>>]

SendData(data) ==
  LET wire == FlattenSeq(Stuff(data))
      ended == Len(wire) >= 2 /\ SubSeq(wire, Len(wire) - 1, Len(wire)) = <<"CR", "LF">>
  IN (IF ended THEN wire ELSE wire \o <<"CR", "LF">>) \o <<".", "CR", "LF">>

\* the end of data as RFC 5321 defines it, over the CRLF that precedes DATA
EndsAt(wire) ==
  LET seen == <<"CR", "LF">> \o wire
  IN {i \in 1..Len(wire) : i + 2 <= Len(wire) /\
        SubSeq(seen, i, i + 4) = <<"CR", "LF", ".", "CR", "LF">>}

---------------------------------------------------------------------------
(* Properties *)

\* Every variable keeps the shape the code gives it.
TpTypeOK ==
  /\ tpNow \in 1..TpHorizon
  /\ \A d \in TpDomains : tpCache[d].expiry \in 0..(TpHorizon + TpMaxCache + TpNegativeTtl)
  /\ tpJob.accepted \in 0..TpRecipients
  /\ tpJob.domain \in TpDomains \cup {<<>>}

\* Envelope and content go to an exchanger only as the policy the domain made
\* known allows, as long as it is in force (its host is listed, its certificate
\* verified), and, where TLSA records are published, only to a server one of
\* them authenticates; a message that requires TLS is only sent to a verified
\* exchanger, and the smarthost's password only to a verified smarthost
\* (worker.rs, client.rs: "never sent in the clear").
MandatedTlsKept ==
  \A x \in tpSent :
    /\ x.direct /\ x.duty.mode = "Enforce" =>
         x.tls /\ x.peer.pkix /\ PermitsMx(x.duty, x.host)
    /\ x.direct /\ x.reqtls => x.tls /\ x.peer.pkix
    /\ x.tlsa # {} => x.tls /\ \E r \in x.tlsa :
         \E i \in DOMAIN x.peer.chain :
           MatchesCert(r, x.peer.chain[i]) /\ (r.usage \in {1, 3} => i = 1)
    /\ x.what = "credentials" => x.tls /\ x.peer.pkix

\* No reply that arrived in the clear is taken for one of the encrypted
\* dialogue (Conn::into_inner drops the buffer).
RepliesFromTls == tpJob.tls => \A i \in DOMAIN tpJob.buffer : tpJob.buffer[i].over

\* A message is reported delivered only when every recipient was accepted, and
\* given up only for a permanent reason: a 5xx reply, a rule, a proxy that
\* cannot serve, or a smarthost without TLS for a password.
OutcomeJustified ==
  /\ tpJob.pc \in {"data", "body", "delivered"} => tpJob.accepted = TpRecipients
  /\ tpJob.pc = "dropped" =>
       tpJob.cause \in {"refused", "rule", "socks", "no TLS for AUTH"}

\* TLS that a policy, DANE or the sender mandated is never given up on the
\* direct path, no reply from before the handshake is believed after it, and
\* the outcome reported is what the exchanger said (queue/client.rs,
\* mtasts/policy.rs, dane/*.rs).
TransportCorrect == TpTypeOK /\ MandatedTlsKept /\ RepliesFromTls /\ OutcomeJustified

\* The terminator of send_data is the only end of data in what it writes, for
\* every message of up to n octets.
DataFramed(n) ==
  \A k \in 0..n : \A data \in [1..k -> {".", "CR", "LF", "x"}] :
    LET wire == SendData(data) IN EndsAt(wire) = {Len(wire) - 2}

\* "MTA-STS enforce or a sender's REQUIRETLS both mandate verified TLS"
\* (worker.rs), whatever transport is selected.
RequireTlsMandates ==
  \A x \in tpSent : x.reqtls \/ x.duty.mode = "Enforce" => x.tls /\ x.peer.pkix

\* Only a 4xx reply or connection trouble is retried (DeliveryError::Transient).
RetriesAreTransient == tpJob.cause # "251"
=============================================================================

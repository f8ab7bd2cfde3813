----------------------------- MODULE MCOutside -----------------------------
(***************************************************************************)
(* The parts of the server that face the outside world, instantiated side  *)
(* by side for TLC: the SMTP session a client opens, WebDAV and CalDAV,    *)
(* the HTTP API and the verifier of bearer tokens, publishing DNS records, *)
(* rotating DKIM keys, renewing certificates, signing and sealing          *)
(* messages, judging a sender and the transport of an outgoing message.    *)
(* `which` picks the part a behaviour is about; the others stay as they    *)
(* were initialised.  They share no state in the code either: each reaches *)
(* the others through the outside.                                         *)
(***************************************************************************)
EXTENDS SmtpSession, TransportPolicy, DkimRotation, Acme

VARIABLES
    which,
    dpProvider, dpZone, dpServed, dpTask, dpOps, dpEdit, dpOverlapped,
    sgArc, sgContent, sgHops, sgLast,
    davTree, davTask, davAnswer, davWrites, davRequests, davRef, davDisturbed,
    apNow, apFile, apTypo, apLoaded, apLimiter, apReq, apAccounts, apOutside, apRaced,
    aqNow, aqSpool, aqNextId, aqLimit, aqRemoving, aqPager, aqSent, aqThroughout, aqShown, aqTwice,
    ovNow, ovIdp, ovCache, ovFetched

----------------------------------------------------------------------------
(* The SMTP session: ann and bob each own one local address, ghost has no  *)
(* mailbox, foreign is in a domain that is not local.                      *)
MCOwns == [ann |-> {"annAddr"}, bob |-> {"bobAddr"}]

(* DNS publishing: every provider, two keys of one selector, a TLSA record *)
(* and a name outside the zone.                                            *)
Record(name, kind, value) == [name |-> name, kind |-> kind, value |-> value]

Dns == INSTANCE DnsPublish WITH
    DpProviders <- {"cloudflare", "digitalocean", "dnsimple", "bunny", "ovh", "porkbun", "gcloud",
                    "namecheap", "spaceship", "desec", "route53", "rfc2136", "manual"},
    DpTasks <- {"rotation", "renewal"},
    DpRecords <- {Record("d", "TXT", <<"k1">>), Record("d", "TXT", <<"k2">>),
                  Record("_25", "TLSA", <<"3", "0", "1", "t">>), Record("far", "TXT", <<"k1">>)},
    DpZoneNames <- {"d", "_25"},
    DpMaxOps <- 3

(* DKIM rotation over two rotations and both retirements, and a            *)
(* certificate for two domains that is renewed once.                       *)
MCPlan == [dkim |-> TRUE, dns |-> TRUE, rsa |-> TRUE, legacy |-> FALSE]
MCCertDomains == <<"a", "b">>

(* Bodies of up to five tokens, header lists with folds and repeats, and   *)
(* messages that take up to four hops.                                     *)
Header(name, value) == [name |-> name, cap |-> FALSE, value |-> value]

Signing == INSTANCE MessageSigning WITH
    SgBodies <- UNION {[1 .. n -> {"x", "sp", "nl"}] : n \in 0 .. 5},
    SgHeaders <- {<<Header("from", <<"x">>)>>,
                  <<Header("from", <<"sp", "x", "sp", "y">>), Header("to", <<"x">>)>>,
                  <<Header("from", <<"x">>), Header("from", <<"y">>)>>,
                  <<Header("to", <<"x">>)>>,
                  <<Header("subject", <<"x", "nl", "sp", "y">>), Header("from", <<"x">>),
                    Header("to", <<"x">>), Header("subject", <<"y">>)>>},
    SgOurDomain <- "us", SgOthers <- {"them"}, SgMaxInstance <- 3, SgMaxHops <- 4

----------------------------------------------------------------------------
(* WebDAV: two requests in flight on two names.                            *)
Dav == INSTANCE WebDav WITH
    DavTasks <- {"t1", "t2"}, DavNames <- {"a", "b"}, DavDepth <- 1, DavMaxWrites <- 1,
    DavMaxRequests <- 3

(* Calendars: events at the ends of months and years, in seconds.          *)
LeapDay == 19782
Midnight(day) == day * 86400
Jan31 == Midnight(19753)
Every(freq, interval, count, until) ==
    {[freq |-> freq, interval |-> interval, count |-> count, until |-> until]}
Event(start, length, rule) == [start |-> start, length |-> length, rule |-> rule]
Calendar == INSTANCE CalDav WITH
    CalYears <- {0, 1, 1899, 1900, 1970, 1999, 2000, 2023, 2024, 2100},
    CalEvents <-
        {Event(Jan31 + 3600, 7200, r) :
            r \in {{}, Every("MONTHLY", 1, {}, {}), Every("DAILY", 2, {5}, {}),
                   Every("WEEKLY", 1, {}, {Midnight(19774)}), Every("MONTHLY", 11, {}, {})}}
        \cup {Event(Midnight(LeapDay), length, Every("YEARLY", 1, {4}, {})) : length \in {0, 100000}}
        \cup {Event(Midnight(19722) + 86000, 3600, Every("DAILY", 1, {}, {}))},
    CalWindows <- {<<Jan31 + 5400, Midnight(LeapDay + 1)>>, <<Midnight(19723), Jan31 + 4000>>,
                   <<Midnight(LeapDay), Midnight(21244)>>},
    CalMax <- 12

(* The API: three guessers; two administrators at the cap of a tenant; one *)
(* client with a scoped key, an expiring key or the static token.          *)
ApiKey(scopes, domains, expires, cidr) ==
    [scopes |-> scopes, domains |-> domains, expires |-> expires, cidr |-> cidr]
Guess == INSTANCE ApiAccess WITH
    ApTasks <- {"t1", "t2", "t3"}, ApKeyTable <- [k \in {} |-> k], ApIps <- {"none"},
    ApTokens <- {"static", "other"}, ApOps <- {"list"}, ApNames <- {"a"},
    ApTenant <- [d1 |-> "t1"], ApCap <- 1, ApMaxFailures <- 2, ApWindow <- 2, ApHorizon <- 3
Admin == INSTANCE ApiAccess WITH
    ApTasks <- {"t1", "t2"}, ApKeyTable <- [k \in {} |-> k], ApIps <- {"none"},
    ApTokens <- {"static"}, ApOps <- {"create", "remove"}, ApNames <- {"a", "b"},
    ApTenant <- [d1 |-> "t1", d2 |-> "t1"], ApCap <- 1, ApMaxFailures <- 2, ApWindow <- 2,
    ApHorizon <- 0
Scoped == INSTANCE ApiAccess WITH
    ApTasks <- {"t1"},
    ApKeyTable <- [k1 |-> ApiKey({"write"}, {"d1"}, 0, "in"), k2 |-> ApiKey({}, {}, 1, "any")],
    ApIps <- {"in", "none"}, ApTokens <- {"k1", "k2", "static"},
    ApOps <- {"mailboxes", "create", "password", "send", "scim", "jmapWrite"},
    ApNames <- {"a"}, ApTenant <- [d1 |-> "t1", d2 |-> "t1"], ApCap <- 1, ApMaxFailures <- 2,
    ApWindow <- 2, ApHorizon <- 1

(* Four sends at two a window; pages of two.                               *)
Queue == INSTANCE ApiQueue WITH
    AqTenants <- {"t1"}, AqPerMin <- 2, AqWindow <- 2, AqPage <- 2, AqMaxIds <- 4, AqHorizon <- 4

(* Documents of up to two keys that share a kid, an algorithm or a use.    *)
Jwk(kty, crv, alg, use, kid, key) ==
    [kty |-> kty, crv |-> crv, alg |-> alg, use |-> use, kid |-> kid, key |-> key, decodes |-> TRUE]
Jwks ==
    {Jwk("RSA", "P-256", alg, use, kid, key) :
        alg \in {"", "RS256"}, use \in {"sig", "enc"}, kid \in {"", "k"}, key \in {"A", "B"}}
    \cup {Jwk("EC", "P-256", "", use, kid, key) :
        use \in {"sig", "enc"}, kid \in {"", "k"}, key \in {"A", "B"}}
    \cup {Jwk("EC", "P-384", "", "sig", "k", "A")}
Other == Jwk("EC", "P-256", "ES256", "sig", "m", "C")
Verifier == INSTANCE OauthVerifier WITH
    OvDocuments <- {<<>>} \cup {<<k>> : k \in Jwks}
                   \cup {<<k, Other>> : k \in Jwks},
    OvTokens <- [parts : {2, 3}, alg : {"RS256", "ES256", "none"}, kid : {"", "k", "m"},
                 signer : {"A", "C"}, exp : {-1, 2}, nbf : {0, 2}, iss : {"I"},
                 aud : {{"U"}, {"U", "W"}, {"W"}}, email : {""}, sub : {"s"}],
    OvIssuer <- "I", OvAudience <- "U", OvDefaultAlg <- "ES256", OvHorizon <- 3

----------------------------------------------------------------------------
(* Zones of two domains: d publishes up to two terms and a redirect, e one *)
(* term and a redirect, so records include and redirect to each other.     *)
V4(n) == [v |-> 4, n |-> n]
Term(q, m, arg, p) == [q |-> q, m |-> m, arg |-> arg, p |-> p]
Answers(seq) == [fail |-> FALSE, is |-> seq]
NoAnswer == [fail |-> TRUE, is |-> <<>>]
Terms == {Term("+", "a", "", 2), Term("-", "all", "", 0), Term("~", "mx", "e", 2),
          Term("+", "include", "e", 0), Term("-", "include", "d", 0), Term("+", "exists", "e", 0),
          Term("?", "ptr", "", 0)}
Literals == {<<Term("+", "ip4", V4(1), 1)>>, <<Term("-", "ip4", V4(2), 2)>>}
Redirects == {<<>>, <<Term("", "redirect", "e", 0)>>, <<Term("", "redirect", "d", 0)>>}
RecordsUpTo(n) ==
    {s \o r : s \in UNION {[1 .. k -> Terms] : k \in 0 .. n}, r \in Redirects} \cup Literals
Published(records) == {Answers(<<>>), NoAnswer} \cup {Answers(<<r>>) : r \in records}
Zone(td, te, ae, me) ==
    [d |-> [txt |-> td, addresses |-> Answers(<<V4(2)>>), mx |-> Answers(<<"d">>)],
     e |-> [txt |-> te, addresses |-> ae, mx |-> me]]
Zones ==
    {Zone(td, te, ae, Answers(<<"d", "e">>)) :
        td \in Published(RecordsUpTo(2) \cup {<<Term("+", "unknown", "", 0)>>}),
        te \in Published(RecordsUpTo(1)), ae \in {Answers(<<V4(1)>>), NoAnswer}}
    \cup {Zone(Answers(<<<<>>, <<>>>>), Answers(<<>>), Answers(<<>>), NoAnswer)}

Policy(p, sp, adkim, aspf, pct) ==
    [tag |-> "ok", p |-> p, sp |-> sp, adkim |-> adkim, aspf |-> aspf, pct |-> pct]
Strict == Policy("none", "none", "strict", "strict", 100)

Sender == INSTANCE SenderPolicy WITH
    SpZones <- Zones, SpClients <- {V4(0), V4(2)}, SpBits <- 2, SpMaxLookups <- 3,
    SpMaxDepth <- 10, SpOrg <- [a |-> "a", sub |-> "a", b |-> "b"],
    SpDmarc <- {NoAnswer, Answers(<<>>), Answers(<<[tag |-> "bad"]>>), Answers(<<Strict, Strict>>),
                Answers(<<[tag |-> "other"], Policy("reject", "none", "strict", "relaxed", 100)>>),
                Answers(<<Policy("none", "quarantine", "relaxed", "strict", 50)>>)}

----------------------------------------------------------------------------
(* One domain with up to two exchangers; relay and fail rules by sender;   *)
(* every kind of TLSA answer and certificate chain.                        *)
Rule(account, kind, host, secured) ==
    [account |-> account, domain |-> <<>>, kind |-> kind, host |-> host, starttls |-> secured,
     auth |-> secured, socks |-> secured]
Exchanger(preference, host) == [preference |-> preference, host |-> host]
Document(patterns) ==
    [badLine |-> FALSE, version |-> "STSv1", mode |-> "Enforce", mx |-> patterns, maxAge |-> 2]
Tlsa(secure, usage, selector, data) ==
    [secure |-> secure, usage |-> usage, selector |-> selector, matching |-> 1,
     association |-> [as |-> 1, of |-> data]]
Leaf == [der |-> "leaf", spki |-> "key"]
Issuer == [der |-> "ca", spki |-> "cakey"]

MCDomains == {<<"d">>}
MCRules == <<Rule("relayed", "Relay", <<"h">>, FALSE), Rule("login", "Relay", <<"h">>, TRUE),
             Rule("nomail", "Fail", <<>>, FALSE)>>
MCDocuments == {Document({[wild |-> TRUE, name |-> <<"d">>]}), Document({})}
MCExchangers == {<<>>, <<Exchanger(20, <<"a", "d">>), Exchanger(10, <<"b", "a", "d">>)>>}
MCTlsa == {{}, {Tlsa(TRUE, 3, 1, "key")}, {Tlsa(TRUE, 3, 1, "cakey")}, {Tlsa(TRUE, 2, 0, "ca")},
           {Tlsa(TRUE, 9, 1, "key"), Tlsa(FALSE, 3, 1, "other")}}
MCPeers == [chain : {<<Leaf, Issuer>>, <<Leaf>>, <<>>}, pkix : BOOLEAN]

----------------------------------------------------------------------------
dnsVars == <<dpProvider, dpZone, dpServed, dpTask, dpOps, dpEdit, dpOverlapped>>
signingVars == <<sgArc, sgContent, sgHops, sgLast>>
davVars == <<davTree, davTask, davAnswer, davWrites, davRequests, davRef, davDisturbed>>
apVars == <<apNow, apFile, apTypo, apLoaded, apLimiter, apReq, apAccounts, apOutside, apRaced>>
aqVars == <<aqNow, aqSpool, aqNextId, aqLimit, aqRemoving, aqPager, aqSent, aqThroughout, aqShown,
            aqTwice>>
ovVars == <<ovNow, ovIdp, ovCache, ovFetched>>
outVars == <<which, vars, dnsVars, dkVars, acVars, signingVars, tpVars, davVars, apVars, aqVars,
             ovVars>>

ApiParts == {"guess", "admin", "scoped"}
Parts == {"session", "dns", "dkim", "certs", "signing", "sender", "transport", "dav", "calendar",
          "queue", "verifier"} \cup ApiParts

OutInit ==
    /\ which \in Parts
    /\ Init /\ Dns!DpInit /\ DkInit /\ AcInit /\ Signing!SgInit /\ TpInit
    /\ Dav!DavInit /\ Queue!AqInit /\ Verifier!OvInit
    /\ CASE which = "admin" -> Admin!ApInit [] which = "scoped" -> Scoped!ApInit
         [] OTHER -> Guess!ApInit
    /\ which = "session" \/ tls = "none"
    /\ which = "dns" \/ dpProvider = "manual"
    /\ which = "verifier" \/ ovIdp = <<Jwk("RSA", "P-256", "RS256", "sig", "k", "A"), Other>>

\* The parts other than those of parts stay as they are.
Only(parts) ==
    /\ which \in parts /\ UNCHANGED which
    /\ IF parts = {"session"} THEN TRUE ELSE UNCHANGED vars
    /\ IF parts = {"dns"} THEN TRUE ELSE UNCHANGED dnsVars
    /\ IF parts = {"dkim"} THEN TRUE ELSE UNCHANGED dkVars
    /\ IF parts = {"certs"} THEN TRUE ELSE UNCHANGED acVars
    /\ IF parts = {"signing"} THEN TRUE ELSE UNCHANGED signingVars
    /\ IF parts = {"transport"} THEN TRUE ELSE UNCHANGED tpVars
    /\ IF parts = {"dav"} THEN TRUE ELSE UNCHANGED davVars
    /\ IF parts = ApiParts THEN TRUE ELSE UNCHANGED apVars
    /\ IF parts = {"queue"} THEN TRUE ELSE UNCHANGED aqVars
    /\ IF parts = {"verifier"} THEN TRUE ELSE UNCHANGED ovVars

OutNext ==
    \/ Only({"session"}) /\ Next
    \/ Only({"dns"}) /\ Dns!DpNext
    \/ Only({"dkim"}) /\ DkNext
    \/ Only({"certs"}) /\ AcNext
    \/ Only({"signing"}) /\ Signing!SgNext
    \/ Only({"transport"}) /\ TpNext
    \/ Only({"dav"}) /\ Dav!DavNext
    \/ Only(ApiParts) /\ \/ which = "guess" /\ Guess!ApNext
                         \/ which = "admin" /\ Admin!ApNext
                         \/ which = "scoped" /\ Scoped!ApNext
    \/ Only({"queue"}) /\ Queue!AqNext
    \/ Only({"verifier"}) /\ Verifier!OvNext

OutSpec == OutInit /\ [][OutNext]_outVars

----------------------------------------------------------------------------
\* What the DNS providers promise: an upsert or a delete that returned Ok is
\* served, records of other names and kinds are left alone, and the records of
\* a deployment are what the check of what is published accepts (dns/*.rs).
DnsCorrect ==
    which = "dns" => Dns!DpTypeOK /\ Dns!OkTakesEffect /\ Dns!ForeignKept /\ Dns!RecordsServed

\* The seal put on at acceptance neither breaks a valid chain nor repairs a
\* broken one, signatures mean what they cover, and canonicalization is stable
\* under what relays may change (arc/*.rs, dkim/*.rs); an SPF evaluation is
\* bounded and justified by the records whatever they include, and a DMARC
\* disposition by alignment and policy (spf/evaluator.rs, dmarc/evaluate.rs);
\* what DATA sends is framed so that it arrives as it was (queue/client.rs).
SenderChecksCorrect ==
    /\ which = "signing" => /\ Signing!SgTypeOK /\ Signing!AcceptSealKeeps
                            /\ Signing!AcceptSealNeverRepairs /\ Signing!SignaturesMean
                            /\ Signing!CanonStable
    /\ which = "sender" => Sender!SpfBounded /\ Sender!SpfJustified /\ Sender!DmarcJustified
    /\ which = "transport" => (TpInit => DataFramed(6))

\* Requests that do not overlap leave the tree RFC 4918 asks for and stay in
\* the account's home; recurring events expand to the dates of the calendar
\* and free/busy reports no time that is not taken (webdav/*.rs).
DavCorrect ==
    /\ which = "dav" => Dav!DavTypeOK /\ Dav!SerialFaithful /\ Dav!Confined
    /\ which = "calendar" => /\ Calendar!CalendarExact /\ Calendar!FormatParses
                             /\ Calendar!ExpandExact /\ Calendar!BusySound

\* Failed credentials are bounded per window, a scoped key changes nothing
\* outside its domains, a tenant's cap holds while no two creations race, the
\* send limit holds and the pages of the queue miss nothing (api/*.rs); a
\* bearer token is accepted exactly when a key the provider last published for
\* signatures signed it for this audience, now (oauth/*.rs).
ApiCorrect ==
    /\ which = "guess" => Guess!ApTypeOK /\ Guess!FailuresBounded
    /\ which = "admin" => Admin!ApTypeOK /\ Admin!ActsConfined /\ Admin!CapKept
    /\ which = "scoped" => /\ Scoped!ApTypeOK /\ Scoped!FailuresBounded /\ Scoped!ActsConfined
                           /\ Scoped!CapKept
    /\ which = "queue" => Queue!AqTypeOK /\ Queue!RateBounded /\ Queue!PagesComplete
    /\ which = "verifier" => /\ Verifier!OvTypeOK /\ Verifier!AcceptedWasPublished
                             /\ Verifier!PublishedIsAccepted
============================================================================

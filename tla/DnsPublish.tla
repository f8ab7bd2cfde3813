------------------------------ MODULE DnsPublish ------------------------------
(***************************************************************************)
(* Record automation: what the thirteen DNS providers of src/dns do to a   *)
(* zone when the DKIM rotator and the certificate renewer publish and      *)
(* remove records through them.                                            *)
(*                                                                         *)
(* A value is the tuple of its presentation fields (an SRV value is        *)
(* <<priority, weight, port, target>>).  What is sent to a provider is     *)
(* [head, content]: the fields the API has of its own and the rest of the  *)
(* value.  The provider's side of every call is external: it applies a     *)
(* request, or loses it, or applies it and loses the answer.               *)
(***************************************************************************)
EXTENDS Naturals, FiniteSets, Sequences

CONSTANTS
    DpProviders,      \* the providers a configuration may name
    DpTasks,          \* the tasks of the server that publish records
    DpRecords,        \* the records they publish: [name, kind, value]
    DpZoneNames,      \* the names inside the zone the token is scoped to
    DpMaxOps          \* bound: operations started

VARIABLES
    dpProvider,       \* the configured provider
    dpZone,           \* what the provider stores: [id, name, kind, value]
    dpServed,         \* what its name servers answer with
    dpTask,           \* per task: the operation it is in
    dpOps,            \* operations started
    dpEdit,           \* the operator's own edit: "no", "quiet" or "during" an operation
    dpOverlapped      \* whether two operations were ever in flight together

dpVars == <<dpProvider, dpZone, dpServed, dpTask, dpOps, dpEdit, dpOverlapped>>

-----------------------------------------------------------------------------
(* The records a deployment publishes and the check of what is published.   *)

RecordKind == {"A", "TXT", "MX", "CNAME", "TLSA", "SRV", "CAA"}
Arity(kind) == CASE kind = "MX" -> 2 [] kind \in {"SRV", "TLSA"} -> 4
                 [] kind = "CAA" -> 3 [] OTHER -> 1

BuildRecords(dkim, tlsa, dav, ca) ==
    {[name |-> n, kind |-> "TXT", value |-> <<v>>] : <<n, v>> \in
        {<<"@", "v=spf1">>, <<"_dmarc", "v=DMARC1">>, <<"_mta-sts", "v=STSv1">>,
         <<"_smtp._tls", "v=TLSRPTv1">>}}
    \union {[name |-> "@", kind |-> "MX", value |-> <<"10", "host">>]}
    \union {[name |-> s \o "._domainkey", kind |-> "TXT", value |-> <<"v=DKIM1">>] : s \in dkim}
    \union {[name |-> n, kind |-> "CNAME", value |-> <<"host">>] :
               n \in {"autoconfig", "autodiscover", "mta-sts"}}
    \union {[name |-> "@", kind |-> "CAA", value |-> <<"0", "issue", c>>] : c \in ca}
    \union {[name |-> s, kind |-> "SRV", value |-> <<"0", "1", s, "host">>] :
               s \in {"_submissions", "_imaps", "_jmap", "_sieve"}
                     \union IF dav THEN {"_caldavs", "_carddavs"} ELSE {}}
    \union {[name |-> "_25._tcp", kind |-> "TLSA", value |-> <<"3", "0", "1", t>>] : t \in tlsa}

CheckDomain(zone, selectors) ==
    LET Txt(n, v) == \E r \in zone : r.name = n /\ r.kind = "TXT" /\ r.value = <<v>>
    IN  /\ \E r \in zone : r.name = "@" /\ r.kind = "MX" /\ r.value[2] = "host"
        /\ Txt("@", "v=spf1") /\ Txt("_dmarc", "v=DMARC1") /\ Txt("_mta-sts", "v=STSv1")
        /\ \A s \in selectors : Txt(s \o "._domainkey", "v=DKIM1")

Authorizes(rec) == rec.name \in DpZoneNames

-----------------------------------------------------------------------------
(* What each provider is sent for a record, and what it lists back.         *)

Split(rec, n) == [head |-> SubSeq(rec.value, 1, n),
                  content |-> SubSeq(rec.value, n + 1, Len(rec.value))]
Whole(rec) == Split(rec, 0)
Structured(rec) == Split(rec, Arity(rec.kind) - 1)
Joined(f) == f.head \o f.content

\* External: the DNS value a provider serves, fields it was not given being 0.
Serves(kind, f) ==
    IF Len(f.content) = Arity(kind) THEN f.content
    ELSE [i \in 1 .. (Arity(kind) - Len(Joined(f))) |-> "0"] \o Joined(f)

CloudflareKinds == RecordKind
CloudflareBody(rec) == Structured(rec)
CloudflareListed(kind, f) == Serves(kind, f)

DigitaloceanKinds == RecordKind
DigitaloceanBody(rec) == IF rec.kind \in {"SRV", "CAA", "MX"} THEN Structured(rec) ELSE Whole(rec)
DigitaloceanListed(kind, f) == IF kind \in {"SRV", "MX"} THEN Joined(f) ELSE f.content

DnsimpleKinds == RecordKind \ {"TLSA"}
DnsimpleBody(rec) == IF rec.kind \in {"SRV", "CAA", "MX"} THEN Structured(rec) ELSE Whole(rec)
DnsimpleListed(kind, f) == IF kind = "SRV" THEN Joined(f) ELSE f.content

BunnyKinds == RecordKind \ {"TLSA", "CAA"}
BunnyBody(rec) == IF rec.kind = "SRV" THEN [head |-> <<>>, content |-> Tail(rec.value)] ELSE Whole(rec)
BunnyListed(kind, f) == IF kind = "SRV" THEN <<"0">> \o f.content ELSE f.content

OvhKinds == RecordKind \ {"TLSA"}
OvhBody(rec) == Whole(rec)
OvhListed(kind, f) == f.content

PorkbunKinds == RecordKind
PorkbunBody(rec) ==
    CASE rec.kind = "SRV" -> [head |-> <<rec.value[1]>>, content |-> rec.value]
      [] rec.kind = "CAA" -> [head |-> <<rec.value[2]>>, content |-> <<rec.value[3]>>]
      [] rec.kind = "MX" -> Structured(rec)
      [] OTHER -> Whole(rec)
PorkbunListed(kind, f) == IF kind = "SRV" THEN <<"0", f.head[1], "0">> \o f.content ELSE f.content

GcloudKinds == RecordKind
GcloudBody(rec) == Whole(rec)
GcloudListed(kind, f) == f.content

NamecheapKinds == RecordKind \ {"TLSA"}
NamecheapBody(rec) == IF rec.kind \in {"MX", "SRV"} THEN Structured(rec) ELSE Whole(rec)
NamecheapListed(kind, f) == IF kind = "CAA" THEN <<>> ELSE Joined(f)

SpaceshipKinds == RecordKind
SpaceshipBody(rec) == IF rec.kind \in {"SRV", "CAA", "MX"} THEN Structured(rec) ELSE Whole(rec)
SpaceshipListed(kind, f) == IF kind \in {"SRV", "MX"} THEN Joined(f) ELSE f.content

DesecKinds == RecordKind
DesecBody(rec) == Whole(rec)
DesecListed(kind, f) == f.content

Route53Kinds == RecordKind
Route53Body(rec) == Whole(rec)
Rfc2136Kinds == RecordKind
Rfc2136Body(rec) == Structured(rec)

Kinds(p) ==
    CASE p = "cloudflare" -> CloudflareKinds [] p = "digitalocean" -> DigitaloceanKinds
      [] p = "dnsimple" -> DnsimpleKinds [] p = "bunny" -> BunnyKinds [] p = "ovh" -> OvhKinds
      [] p = "porkbun" -> PorkbunKinds [] p = "gcloud" -> GcloudKinds
      [] p = "namecheap" -> NamecheapKinds [] p = "spaceship" -> SpaceshipKinds
      [] p = "desec" -> DesecKinds [] p = "route53" -> Route53Kinds
      [] p = "rfc2136" -> Rfc2136Kinds [] OTHER -> {}

Body(p, rec) ==
    CASE p = "cloudflare" -> CloudflareBody(rec) [] p = "digitalocean" -> DigitaloceanBody(rec)
      [] p = "dnsimple" -> DnsimpleBody(rec) [] p = "bunny" -> BunnyBody(rec) [] p = "ovh" -> OvhBody(rec)
      [] p = "porkbun" -> PorkbunBody(rec) [] p = "gcloud" -> GcloudBody(rec)
      [] p = "namecheap" -> NamecheapBody(rec) [] p = "spaceship" -> SpaceshipBody(rec)
      [] p = "desec" -> DesecBody(rec) [] p = "route53" -> Route53Body(rec)
      [] p = "rfc2136" -> Rfc2136Body(rec)

\* The providers the configuration can build (with their credentials present).
Built == {"cloudflare", "dnsimple", "bunny", "spaceship", "desec", "gcloud", "namecheap",
          "ovh", "route53"}

Lists == DpProviders \ {"route53", "rfc2136", "manual"}
Listed(p, kind, f) ==
    CASE p = "cloudflare" -> CloudflareListed(kind, f) [] p = "digitalocean" -> DigitaloceanListed(kind, f)
      [] p = "dnsimple" -> DnsimpleListed(kind, f) [] p = "bunny" -> BunnyListed(kind, f)
      [] p = "ovh" -> OvhListed(kind, f) [] p = "porkbun" -> PorkbunListed(kind, f)
      [] p = "gcloud" -> GcloudListed(kind, f) [] p = "namecheap" -> NamecheapListed(kind, f)
      [] p = "spaceship" -> SpaceshipListed(kind, f) [] p = "desec" -> DesecListed(kind, f)

-----------------------------------------------------------------------------
(* The calls of an operation.  A provider first looks records up (Find,    *)
(* where seen is what it keeps of the answer) and then changes the zone.   *)

Matches(zone, rec) == {r \in zone : r.name = rec.name /\ r.kind = rec.kind}
FirstMatch(zone, rec) ==
    IF Matches(zone, rec) = {} THEN {{}} ELSE {{r} : r \in Matches(zone, rec)}
Made(id, rec) == [id |-> id, name |-> rec.name, kind |-> rec.kind, value |-> rec.value]

\* PUT to the record found (refused when it is gone), or POST a new one.
PutOrPost(zone, seen, rec, id) ==
    IF seen = {} THEN {zone \union {Made(id, rec)}}
    ELSE {(zone \ seen) \union {Made(r.id, rec)} : r \in seen \intersect zone}

CloudflareFind(zone, rec) == FirstMatch(zone, rec)
CloudflareUpsert(zone, seen, rec, id) == PutOrPost(zone, seen, rec, id)
CloudflareDelete(zone, seen) == {zone \ r : r \in {seen} \intersect SUBSET zone}

DigitaloceanFind(zone, rec) == FirstMatch(zone, rec)
DigitaloceanUpsert(zone, seen, rec, id) == PutOrPost(zone, seen, rec, id)
DigitaloceanDelete(zone, seen) == {zone \ r : r \in {seen} \intersect SUBSET zone}

DnsimpleFind(zone, rec) == FirstMatch(zone, rec)
DnsimpleUpsert(zone, seen, rec, id) == PutOrPost(zone, seen, rec, id)
DnsimpleDelete(zone, seen) == {zone \ r : r \in {seen} \intersect SUBSET zone}

BunnyFind(zone, rec) == FirstMatch(zone, rec)
BunnyUpsert(zone, seen, rec, id) == PutOrPost(zone, seen, rec, id)
BunnyDelete(zone, seen) == {zone \ seen}            \* a 404 counts as removed

OvhFind(zone, rec) == FirstMatch(zone, rec)
OvhUpsert(zone, seen, rec, id) == PutOrPost(zone, seen, rec, id)
OvhDelete(zone, seen) == {zone \ r : r \in {seen} \intersect SUBSET zone}

First(seen) == CHOOSE r \in seen : \A q \in seen : r.id <= q.id
PorkbunFindFirst(zone, rec) == FirstMatch(zone, rec)
PorkbunFind(zone, rec) == {Matches(zone, rec)}
\* The first match is edited; the others are removed by later calls.
PorkbunUpsert(zone, seen, rec, id) ==
    IF seen = {} THEN {zone \union {Made(id, rec)}}
    ELSE {(zone \ {r}) \union {Made(r.id, rec)} : r \in {First(seen)} \intersect zone}
PorkbunDelete(zone, seen) == {zone \ {r} : r \in {First(seen)} \intersect zone}

GcloudFind(zone, rec) == {Matches(zone, rec)}
\* One change with the additions and the deletions; it must match what is there.
GcloudUpsert(zone, seen, rec, id) ==
    IF Matches(zone, rec) = seen THEN {(zone \ seen) \union {Made(id, rec)}} ELSE {}
GcloudDelete(zone, seen) == {zone \ r : r \in {seen} \intersect SUBSET zone}

NamecheapFind(zone, rec) == {zone}
NamecheapUpsert(zone, seen, rec, id) == {(seen \ Matches(seen, rec)) \union {Made(id, rec)}}
NamecheapDelete(zone, seen, rec) == {seen \ Matches(seen, rec)}

\* TXT deletes carry the value, to tell same-name records apart.
SpaceshipRemove(zone, rec) ==
    zone \ {r \in Matches(zone, rec) : rec.kind = "TXT" => r.value = rec.value}
SpaceshipUpsert(zone, rec, id) == {zone \union {Made(id, rec)}}

DesecUpsert(zone, rec, id) == {(zone \ Matches(zone, rec)) \union {Made(id, rec)}}
DesecDelete(zone, rec) == {zone \ Matches(zone, rec)}
Route53Change(zone, rec, id) == {(zone \ Matches(zone, rec)) \union {Made(id, rec)}}
\* External: a DELETE must name the record set with its value.
Route53Delete(zone, rec) ==
    {zone \ m : m \in {n \in {Matches(zone, rec)} : n # {} /\ \A r \in n : r.value = rec.value}}
Rfc2136Upsert(zone, rec, id) == {(zone \ Matches(zone, rec)) \union {Made(id, rec)}}
Rfc2136Delete(zone, rec) == {zone \ Matches(zone, rec)}

Finds(p) == p \notin {"spaceship", "desec", "route53", "rfc2136"}
Find(p, zone, rec) ==
    CASE p = "cloudflare" -> CloudflareFind(zone, rec) [] p = "digitalocean" -> DigitaloceanFind(zone, rec)
      [] p = "dnsimple" -> DnsimpleFind(zone, rec) [] p = "bunny" -> BunnyFind(zone, rec)
      [] p = "ovh" -> OvhFind(zone, rec) [] p = "porkbun" -> PorkbunFind(zone, rec)
      [] p = "gcloud" -> GcloudFind(zone, rec) [] p = "namecheap" -> NamecheapFind(zone, rec)

\* The zones a write may leave; none when the provider refuses it.
Upsert(p, zone, seen, rec, id) ==
    CASE p = "cloudflare" -> CloudflareUpsert(zone, seen, rec, id)
      [] p = "digitalocean" -> DigitaloceanUpsert(zone, seen, rec, id)
      [] p = "dnsimple" -> DnsimpleUpsert(zone, seen, rec, id)
      [] p = "bunny" -> BunnyUpsert(zone, seen, rec, id)
      [] p = "ovh" -> OvhUpsert(zone, seen, rec, id)
      [] p = "porkbun" -> PorkbunUpsert(zone, seen, rec, id)
      [] p = "gcloud" -> GcloudUpsert(zone, seen, rec, id)
      [] p = "namecheap" -> NamecheapUpsert(zone, seen, rec, id)
      [] p = "spaceship" -> SpaceshipUpsert(zone, rec, id)
      [] p = "desec" -> DesecUpsert(zone, rec, id)
      [] p = "route53" -> Route53Change(zone, rec, id)
      [] p = "rfc2136" -> Rfc2136Upsert(zone, rec, id)

Delete(p, zone, seen, rec) ==
    CASE p = "cloudflare" -> CloudflareDelete(zone, seen)
      [] p = "digitalocean" -> DigitaloceanDelete(zone, seen)
      [] p = "dnsimple" -> DnsimpleDelete(zone, seen) [] p = "bunny" -> BunnyDelete(zone, seen)
      [] p = "ovh" -> OvhDelete(zone, seen) [] p = "porkbun" -> PorkbunDelete(zone, seen)
      [] p = "gcloud" -> GcloudDelete(zone, seen) [] p = "namecheap" -> NamecheapDelete(zone, seen, rec)
      [] p = "spaceship" -> {SpaceshipRemove(zone, rec)} [] p = "desec" -> DesecDelete(zone, rec)
      [] p = "route53" -> Route53Delete(zone, rec) [] p = "rfc2136" -> Rfc2136Delete(zone, rec)

-----------------------------------------------------------------------------
Idle == [pc |-> "idle", op |-> "none", rec |-> [name |-> "", kind |-> "", value |-> <<"">>],
         seen |-> {}, res |-> "none", alone |-> FALSE, id |-> 0]

\* A record of the operator's that epistle never names, and one added later.
Foreign(n) == [id |-> 100, name |-> n, kind |-> "A", value |-> <<"x">>]

DpInit ==
    /\ dpProvider \in DpProviders
    /\ dpZone = {Foreign("www")}
    /\ dpServed = dpZone
    /\ dpTask = [t \in DpTasks |-> Idle]
    /\ dpOps = 0
    /\ dpEdit = "no"
    /\ dpOverlapped = FALSE

InFlight == {t \in DpTasks : dpTask[t].pc \notin {"idle", "done"}}

\* Rotator and renewer call upsert and delete; a delete names the record with
\* an empty value.  A record out of scope or of an unsupported kind is refused
\* before any call.
Start(t) ==
    /\ dpTask[t].pc \in {"idle", "done"}
    /\ dpOps < DpMaxOps
    /\ \E rec \in DpRecords, op \in {"upsert", "delete"} :
         LET named == IF op = "delete" THEN [rec EXCEPT !.value = <<"">>] ELSE rec
             task == [Idle EXCEPT !.op = op, !.rec = named, !.alone = InFlight = {},
                         !.id = dpOps + 1]
         IN  dpTask' = [dpTask EXCEPT ![t] =
                CASE dpProvider = "manual" -> [task EXCEPT !.pc = "done", !.res = "Unsupported"]
                  [] dpProvider \notin {"manual", "route53"} /\ ~Authorizes(rec) ->
                        [task EXCEPT !.pc = "done", !.res = "Auth"]
                  [] rec.kind \notin Kinds(dpProvider) ->
                        [task EXCEPT !.pc = "done", !.res = "Unsupported"]
                  [] OTHER -> [task EXCEPT !.pc =
                        IF Finds(dpProvider) THEN "find"
                        ELSE IF dpProvider = "spaceship" THEN "remove" ELSE "write"]]
    /\ dpOps' = dpOps + 1
    /\ dpOverlapped' = (dpOverlapped \/ InFlight # {})
    /\ UNCHANGED <<dpProvider, dpZone, dpServed, dpEdit>>

Finished(task, res) == [task EXCEPT !.pc = "done", !.res = res, !.seen = {}]

\* Nothing was found to delete: done, without a further call.
FindReply(t) ==
    LET task == dpTask[t] IN
    /\ task.pc = "find"
    /\ \E seen \in Find(dpProvider, dpZone, task.rec) :
         dpTask' = [dpTask EXCEPT ![t] =
            IF task.op = "delete" /\ Matches(seen, task.rec) = {} THEN Finished(task, "Ok")
            ELSE IF dpProvider = "gcloud" /\ task.op = "upsert" /\ Cardinality(seen) = 1
                    /\ \A r \in seen : r.value = task.rec.value THEN Finished(task, "Ok")
            ELSE [task EXCEPT !.pc = "write", !.seen = seen]]
    /\ UNCHANGED <<dpProvider, dpZone, dpServed, dpOps, dpEdit, dpOverlapped>>

\* OVH answers queries from the zone of the last refresh.
Serving(zone) == IF dpProvider = "ovh" THEN dpServed ELSE zone

\* The call after a write that was applied: OVH refreshes, Porkbun removes the
\* other records it found, spaceship adds after it removed.
AfterWrite(task) ==
    CASE dpProvider = "ovh" -> [task EXCEPT !.pc = "refresh"]
      [] dpProvider = "porkbun" /\ Cardinality(task.seen) > 1 ->
            [task EXCEPT !.pc = "clear", !.seen = @ \ {First(@)}]
      [] OTHER -> Finished(task, "Ok")

\* A write of t reaches the provider; the other operations are not alone any more.
Applied(t, zone, task) ==
    /\ dpZone' = zone
    /\ dpServed' = Serving(zone)
    /\ dpTask' = [u \in DpTasks |-> IF u = t THEN task ELSE [dpTask[u] EXCEPT !.alone = FALSE]]
    /\ UNCHANGED <<dpProvider, dpOps, dpEdit, dpOverlapped>>

\* The zones the write of a task may leave.
After(task) ==
    IF task.op = "upsert" /\ task.pc = "write"
    THEN Upsert(dpProvider, dpZone, task.seen, task.rec, task.id)
    ELSE Delete(dpProvider, dpZone, task.seen, task.rec)

Write(t) ==
    LET task == dpTask[t] IN
        /\ task.pc \in {"write", "clear"}
        /\ \E zone \in After(task) : Applied(t, zone, AfterWrite(task))

Remove(t) ==
    LET task == dpTask[t]
        zone == SpaceshipRemove(dpZone, task.rec)
    IN  /\ task.pc = "remove"
        /\ Applied(t, zone, IF task.op = "delete" THEN Finished(task, "Ok")
                            ELSE [task EXCEPT !.pc = "write"])

Refresh(t) ==
    /\ dpTask[t].pc = "refresh"
    /\ dpServed' = dpZone
    /\ dpTask' = [dpTask EXCEPT ![t] = Finished(@, "Ok")]
    /\ UNCHANGED <<dpProvider, dpZone, dpOps, dpEdit, dpOverlapped>>

\* A call fails: the request is lost or refused, and the operation ends.
CallFails(t) ==
    /\ t \in InFlight
    /\ dpTask' = [dpTask EXCEPT ![t] = Finished(@, "Remote")]
    /\ UNCHANGED <<dpProvider, dpZone, dpServed, dpOps, dpEdit, dpOverlapped>>

\* A write is applied and its answer lost.
AnswerLost(t) ==
    LET task == dpTask[t] IN
        /\ task.pc \in {"write", "clear"}
        /\ \E zone \in After(task) : Applied(t, zone, Finished(task, "Remote"))

\* External: the operator adds a record of his own to the zone.
OperatorEdit ==
    /\ dpEdit = "no"
    /\ dpEdit' = IF InFlight = {} THEN "quiet" ELSE "during"
    /\ dpZone' = dpZone \union {Foreign("ftp")}
    /\ dpServed' = dpServed \union {Foreign("ftp")}
    /\ UNCHANGED <<dpProvider, dpTask, dpOps, dpOverlapped>>

DpNext ==
    \/ \E t \in DpTasks :
         \/ Start(t) \/ FindReply(t) \/ Write(t) \/ Remove(t)
         \/ Refresh(t) \/ CallFails(t) \/ AnswerLost(t)
    \/ OperatorEdit

-----------------------------------------------------------------------------
DpTypeOK ==
    /\ dpProvider \in DpProviders
    /\ \A r \in dpZone \union dpServed : r.kind \in RecordKind /\ r.id \in 0 .. 100
    /\ \A t \in DpTasks : dpTask[t].pc \in {"idle", "find", "remove", "write", "clear", "refresh", "done"}
    /\ dpOps \in 0 .. DpMaxOps /\ dpEdit \in {"no", "quiet", "during"} /\ dpOverlapped \in BOOLEAN

\* The providers that replace or clear a whole record set in one operation.
WholeSet == {"desec", "rfc2136", "gcloud", "namecheap", "porkbun"}

\* An operation that answers Ok had its effect: alone in flight, an upsert
\* leaves exactly the record asked for under its name and kind and a delete
\* leaves none, in what the name servers answer.  Duplicates that two
\* overlapping upserts created are only cleared by the providers that handle
\* the whole record set, and Spaceship's and Route 53's deletes of a TXT
\* record are not among the sound ones (README, table of what does not hold).
OkTakesEffect ==
    \A t \in DpTasks : LET task == dpTask[t] IN
        (task.pc = "done" /\ task.res = "Ok" /\ task.alone
         /\ dpProvider \notin {"spaceship", "ovh"}
         /\ (dpProvider \in WholeSet \union {"route53"} \/ ~dpOverlapped)) =>
           {r.value : r \in Matches(dpServed, task.rec)} =
               IF task.op = "upsert" THEN {task.rec.value} ELSE {}

\* The same of every provider, as the trait states it: "Create or replace",
\* "Remove (idempotent)" (provider.rs).  It does not hold of spaceship and ovh.
OkTakesEffectAlways ==
    \A t \in DpTasks : LET task == dpTask[t] IN
        (task.pc = "done" /\ task.res = "Ok" /\ task.alone /\ ~dpOverlapped) =>
           {r.value : r \in Matches(dpServed, task.rec)} =
               IF task.op = "upsert" THEN {task.rec.value} ELSE {}

\* Every provider written for the configuration's use can be configured ("RFC
\* 2136 uses this for the nameserver", config/dns.rs:56): it does not hold, for
\* digitalocean, porkbun and rfc2136 are never built.
EveryProviderBuilt == DpProviders \ {"manual"} \subseteq Built

\* No operation touches a record of another name or kind: what the operator
\* published stays, except that Namecheap's rewrite of the whole zone drops an
\* edit made while it is under way (the race its module comment warns of).
ForeignKept ==
    /\ Foreign("www") \in dpZone
    /\ dpEdit = "quiet" => Foreign("ftp") \in dpZone
    /\ (dpEdit = "during" /\ dpProvider # "namecheap") => Foreign("ftp") \in dpZone

\* Of the records build_records computes, every provider that takes the kind
\* serves the value asked for, fields it drops included, and the TXT, CNAME
\* and TLSA records come back from its list as they were written; a zone that
\* holds them all passes check_domain, and one without any of those it checks
\* does not.
RecordsServed ==
    LET built == BuildRecords({"s1"}, {"t"}, TRUE, {"ca"}) IN
    /\ \A p \in DpProviders, rec \in built : rec.kind \in Kinds(p) =>
         /\ Serves(rec.kind, Body(p, rec)) = rec.value
         /\ (p \in Lists /\ rec.kind \in {"TXT", "CNAME"}) =>
                Listed(p, rec.kind, Body(p, rec)) = rec.value
    /\ CheckDomain(built, {"s1"})
    /\ \A rec \in built : rec.name \in {"@", "_dmarc", "_mta-sts", "s1._domainkey"} /\ rec.kind # "CAA"
         => ~CheckDomain(built \ {rec}, {"s1"})
=============================================================================

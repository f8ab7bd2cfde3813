---------------------------- MODULE SenderPolicy ----------------------------
(***************************************************************************)
(* SPF and DMARC evaluation: src/src/spf/ and src/src/dmarc/.  The module  *)
(* has no state: check_host and evaluate are functions of what the DNS     *)
(* answers, and the properties quantify over small zones.                  *)
(*                                                                         *)
(* A zone gives each name its TXT strings, its addresses and its mail      *)
(* exchangers, or Temporary for a lookup that fails.  An SPF record is a        *)
(* sequence of terms [q, m, arg, p]; an address is [v, n] with n a number  *)
(* of SpBits bits.                                                         *)
(***************************************************************************)
EXTENDS Integers, Sequences, FiniteSets

CONSTANTS
  SpZones,      \* the zones the properties range over
  SpClients,    \* client addresses
  SpBits,       \* the width of an address (32 and 128 in the code)
  SpMaxLookups, \* MAX_DNS_MECHANISMS
  SpMaxDepth,   \* MAX_DEPTH
  SpOrg,        \* organizational_domain, as the public suffix list gives it
  SpDmarc       \* what the TXT lookup of _dmarc.<domain> may give

(* What a lookup gives: records (none for a name that does not exist), or  *)
(* a temporary failure.                                                    *)
Found(seq) == [fail |-> FALSE, is |-> seq]
Temporary == [fail |-> TRUE, is |-> <<>>]
SpfOutcome == {"None", "Neutral", "Pass", "Fail", "SoftFail", "TempError", "PermError"}

-----------------------------------------------------------------------------
(* parse_prefix has bounded p; a prefix of 0 matches every address of the  *)
(* family.                                                                 *)
InNetwork(ip, net, p) == ip.n \div 2^(SpBits - p) = net.n \div 2^(SpBits - p)
AddressMatches(ip, candidate, p) == ip.v = candidate.v /\ InNetwork(ip, candidate, p)

SpfMechanisms == {"all", "ip4", "ip6", "a", "mx", "include", "exists", "ptr"}

(* parse: an unknown mechanism or a second redirect spoils the record; an  *)
(* unknown modifier is skipped.                                            *)
Redirects(terms) == SelectSeq(terms, LAMBDA t : t.m = "redirect")
ParseSpf(terms) ==
  IF \/ \E i \in DOMAIN terms : terms[i].m = "unknown"
     \/ Len(Redirects(terms)) > 1
  THEN [bad |-> TRUE, directives |-> <<>>, redirect |-> ""]
  ELSE [bad |-> FALSE,
        directives |-> SelectSeq(terms, LAMBDA t : t.m \in SpfMechanisms),
        redirect |-> IF Redirects(terms) = <<>> THEN "" ELSE Redirects(terms)[1].arg]

(* fetch_record: exactly one v=spf1 string.                                *)
FetchRecord(zone, domain) ==
  LET texts == zone[domain].txt.is IN
  IF zone[domain].txt.fail THEN [outcome |-> "TempError", record |-> ParseSpf(<<>>)]
  ELSE IF texts = <<>> THEN [outcome |-> "None", record |-> ParseSpf(<<>>)]
  ELSE IF Len(texts) > 1 \/ ParseSpf(texts[1]).bad
       THEN [outcome |-> "PermError", record |-> ParseSpf(<<>>)]
  ELSE [outcome |-> "", record |-> ParseSpf(texts[1])]

Qualified(q) ==
  CASE q = "+" -> "Pass" [] q = "-" -> "Fail" [] q = "~" -> "SoftFail" [] q = "?" -> "Neutral"

(* expand_macro: "%{d}" is the domain being evaluated; a bad macro fails.  *)
Expand(spec, domain) == IF spec = "%{d}" \/ spec = "" THEN domain ELSE spec

(* The answer of an address term: "yes", "no" or "temp".                   *)
AddressesMatch(zone, ip, name, p) ==
  LET addresses == zone[name].addresses.is IN
  IF zone[name].addresses.fail THEN "temp"
  ELSE IF \E i \in DOMAIN addresses : AddressMatches(ip, addresses[i], p) THEN "yes" ELSE "no"

RECURSIVE ExchangersMatch(_, _, _, _)
(* mx: the exchangers in turn, up to the first match or failed lookup.     *)
ExchangersMatch(zone, ip, names, p) ==
  IF names = <<>> THEN "no"
  ELSE LET first == AddressesMatch(zone, ip, Head(names), p)
       IN IF first = "no" THEN ExchangersMatch(zone, ip, Tail(names), p) ELSE first

Done(outcome, budget, fetched) == [outcome |-> outcome, budget |-> budget, fetched |-> fetched]

Costs(t) == t.m \in {"a", "mx", "include", "exists", "ptr"}

(* A term that costs no recursion.                                         *)
Answer(zone, ip, domain, t) ==
  CASE t.m = "all" -> "yes"
    [] t.m = "ip4" -> IF ip.v = 4 /\ InNetwork(ip, t.arg, t.p) THEN "yes" ELSE "no"
    [] t.m = "ip6" -> IF ip.v = 6 /\ InNetwork(ip, t.arg, t.p) THEN "yes" ELSE "no"
    [] t.m = "a" -> AddressesMatch(zone, ip, Expand(t.arg, domain), t.p)
    [] t.m = "mx" -> IF zone[Expand(t.arg, domain)].mx.fail THEN "temp"
                     ELSE ExchangersMatch(zone, ip, zone[Expand(t.arg, domain)].mx.is, t.p)
    [] t.m = "exists" -> IF zone[t.arg].addresses.fail THEN "temp"
                         ELSE IF zone[t.arg].addresses.is # <<>> THEN "yes" ELSE "no"
    [] t.m = "ptr" -> "no"

RECURSIVE CheckHostInner(_, _, _, _, _), CheckTerms(_, _, _, _, _, _, _)
(* Mutant of CheckHostInner: every record gives a lookup back, so that     *)
(* only the depth of the recursion bounds the evaluation.                  *)
CheckHostInnerShallow(zone, ip, domain, budget, depth) ==
  LET found == FetchRecord(zone, domain) IN
  IF depth >= SpMaxDepth THEN Done("PermError", budget, 0)
  ELSE IF found.outcome # "" THEN Done(found.outcome, budget, 1)
  ELSE CheckTerms(zone, ip, domain, found.record, 1, budget + 1, depth)

(* One record: at most SpMaxDepth deep; `budget` is shared by the whole    *)
(* evaluation and `fetched` counts the records asked for.                  *)
CheckHostInner(zone, ip, domain, budget, depth) ==
  LET found == FetchRecord(zone, domain) IN
  IF depth >= SpMaxDepth THEN Done("PermError", budget, 0)
  ELSE IF found.outcome # "" THEN Done(found.outcome, budget, 1)
  ELSE CheckTerms(zone, ip, domain, found.record, 1, budget, depth)

(* The terms in order, then the redirect, then neutral.  The result adds   *)
(* the fetch of this record to those of the records below it.              *)
CheckTerms(zone, ip, domain, record, i, budget, depth) ==
  IF i > Len(record.directives)
  THEN IF record.redirect = "" THEN Done("Neutral", budget, 1)
       ELSE IF budget = 0 THEN Done("PermError", 0, 1)
       ELSE LET r == CheckHostInner(zone, ip, Expand(record.redirect, domain), budget - 1, depth + 1)
            IN Done(IF r.outcome = "None" THEN "PermError" ELSE r.outcome, r.budget, 1 + r.fetched)
  ELSE LET t == record.directives[i]
           left == IF Costs(t) THEN budget - 1 ELSE budget
           Next(b, more) ==
             LET r == CheckTerms(zone, ip, domain, record, i + 1, b, depth)
             IN Done(r.outcome, r.budget, r.fetched + more)
       IN IF Costs(t) /\ budget = 0 THEN Done("PermError", 0, 1)
          ELSE IF t.m = "include"
          THEN LET r == CheckHostInner(zone, ip, Expand(t.arg, domain), left, depth + 1) IN
               CASE r.outcome = "Pass" -> Done(Qualified(t.q), r.budget, 1 + r.fetched)
                 [] r.outcome \in {"Fail", "SoftFail", "Neutral"} -> Next(r.budget, r.fetched)
                 [] r.outcome = "None" -> Done("PermError", r.budget, 1 + r.fetched)
                 [] OTHER -> Done(r.outcome, r.budget, 1 + r.fetched)
          ELSE LET answer == Answer(zone, ip, domain, t) IN
               CASE answer = "temp" -> Done("TempError", left, 1)
                 [] answer = "yes" -> Done(Qualified(t.q), left, 1)
                 [] OTHER -> Next(left, 0)

CheckHost(zone, ip, domain) == CheckHostInner(zone, ip, domain, SpMaxLookups, 0)

-----------------------------------------------------------------------------
(* DMARC.  A TXT string is a record, text that starts as one and is        *)
(* malformed ("bad"), or something else ("other").                         *)
Policies == {"none", "quarantine", "reject"}
IsDmarc(t) == t.tag # "other"

(* lookup: two records are none at all.                                    *)
DmarcLookup(texts) ==
  LET records == SelectSeq(texts.is, IsDmarc) IN
  IF texts.fail THEN [outcome |-> "TempError"]
  ELSE IF Len(records) # 1 THEN [outcome |-> "None"]
  ELSE IF records[1].tag = "bad" THEN [outcome |-> "PermError"]
  ELSE [outcome |-> "", record |-> records[1]]

(* fetch_record: the domain's own record and its p, else that of the       *)
(* organizational domain and its sp.                                       *)
DmarcRecord(dns, from) ==
  LET own == DmarcLookup(dns[from])
      org == DmarcLookup(dns[SpOrg[from]])
  IN IF own.outcome = "" THEN [outcome |-> "", record |-> own.record, policy |-> own.record.p]
     ELSE IF own.outcome # "None" THEN own
     ELSE IF SpOrg[from] = from THEN own
     ELSE IF org.outcome = "" THEN [outcome |-> "", record |-> org.record, policy |-> org.record.sp]
     ELSE org

Aligned(mode, identifier, from) ==
  IF mode = "strict" THEN identifier = from ELSE SpOrg[identifier] = SpOrg[from]

(* Mutant of DmarcEvaluate: the identifier that passed is not compared.    *)
DmarcEvaluateUnaligned(dns, from, spf, dkim, roll) ==
  LET found == DmarcRecord(dns, from) IN
  IF found.outcome # "" THEN found.outcome
  ELSE IF spf.outcome = "Pass" \/ \E r \in dkim : r.outcome = "Pass" THEN "Pass"
  ELSE IF found.policy = "none" \/ roll > found.record.pct THEN "Fail" ELSE "Reject"

(* evaluate_inner: `spf` and `dkim` are outcomes with the domain each is   *)
(* about; quarantine is reject; the roll spares those above pct.           *)
DmarcEvaluate(dns, from, spf, dkim, roll) ==
  LET found == DmarcRecord(dns, from) IN
  IF found.outcome # "" THEN found.outcome
  ELSE IF \/ \E r \in dkim : r.outcome = "Pass" /\ Aligned(found.record.adkim, r.domain, from)
          \/ spf.outcome = "Pass" /\ Aligned(found.record.aspf, spf.domain, from)
       THEN "Pass"
  ELSE IF found.policy = "none" \/ roll > found.record.pct THEN "Fail" ELSE "Reject"

(* sample_pct: a random byte, folded into 1..100; 0 when none can be had.  *)
SamplePct(byte) == (byte % 100) + 1

(* from_domain: two From headers, or none with an address, are refused.    *)
FromDomain(froms) == IF Len(froms) = 1 THEN froms[1] ELSE ""

-----------------------------------------------------------------------------
(* Reachable(zone, d): the names whose records an evaluation of d may use. *)
RECURSIVE Reach(_, _, _)
Reach(zone, seen, n) ==
  LET Args(d) == IF Len(zone[d].txt.is) # 1 THEN {}
                 ELSE {Expand(zone[d].txt.is[1][i].arg, d) :
                         i \in {j \in DOMAIN zone[d].txt.is[1] :
                                  zone[d].txt.is[1][j].m \in {"include", "redirect"}}}
      more == seen \cup UNION {Args(d) : d \in seen}
  IN IF n = 0 \/ more = seen THEN seen ELSE Reach(zone, more, n - 1)

Listed(zone, ip, d, q) ==
  /\ Len(zone[d].txt.is) = 1
  /\ \E i \in DOMAIN zone[d].txt.is[1] :
       LET t == zone[d].txt.is[1][i] IN
       /\ t.m \in SpfMechanisms \ {"include"} /\ t.q = q
       /\ Answer(zone, ip, d, t) = "yes"

(* Every evaluation ends, whatever records refer to one another, after at  *)
(* most SpMaxLookups + 1 records: the budget is shared down the recursion  *)
(* (evaluator.rs consume).                                                 *)
SpfBounded ==
  \A z \in SpZones, ip \in SpClients, d \in {"d"} :
    LET r == CheckHost(z, ip, d) IN
    /\ r.outcome \in SpfOutcome
    /\ r.fetched <= SpMaxLookups + 1
    /\ r.budget \in 0..SpMaxLookups

(* A sender passes only if some record reached from its domain names its   *)
(* address with a positive term, and fails hard only if the domain's own   *)
(* record, or one it redirects to, denies it or includes by a negative     *)
(* term; a failed lookup never decides either way.                         *)
SpfJustified ==
  \A z \in SpZones, ip \in SpClients :
    LET r == CheckHost(z, ip, "d")
        names == Reach(z, {"d"}, SpMaxDepth)
        Includes(q) == \E n \in names : /\ Len(z[n].txt.is) = 1
                                        /\ \E i \in DOMAIN z[n].txt.is[1] :
                                             z[n].txt.is[1][i].m = "include" /\ z[n].txt.is[1][i].q = q
    IN /\ r.outcome = "Pass" => \E n \in names : Listed(z, ip, n, "+")
       /\ r.outcome = "Fail" => Includes("-") \/ \E n \in names : Listed(z, ip, n, "-")
       /\ r.outcome = "None" <=> z["d"].txt = Found(<<>>)
       /\ r.outcome = "TempError" => \E n \in DOMAIN z :
                                        Temporary \in {z[n].txt, z[n].addresses, z[n].mx}

Rolls == {SamplePct(byte) : byte \in 0..255}
SpfResults == {[outcome |-> o, domain |-> d] : o \in {"Pass", "Fail", "None"}, d \in DOMAIN SpOrg}
DkimResults == {{}} \cup {{[outcome |-> o, domain |-> d]} : o \in {"Pass", "Fail"}, d \in DOMAIN SpOrg}

(* DMARC rejects only what its owner asked to have rejected and nobody     *)
(* vouches for: a rejected message has no passing identifier of the same   *)
(* organization, and the record of the domain, or of its organization,     *)
(* asks for more than none; full coverage spares no failing message.       *)
DmarcJustified ==
  \A dns \in [DOMAIN SpOrg -> SpDmarc], from \in DOMAIN SpOrg,
     spf \in SpfResults, dkim \in DkimResults, roll \in {1, 50, 51, 100} :
    LET outcome == DmarcEvaluate(dns, from, spf, dkim, roll)
        found == DmarcRecord(dns, from)
        vouched == {r \in dkim \cup {spf} : r.outcome = "Pass" /\ SpOrg[r.domain] = SpOrg[from]}
    IN /\ outcome = "Pass" => vouched # {}
       /\ outcome = "Reject" => /\ \A r \in vouched : r.domain # from
                                /\ found.policy # "none"
       /\ found.outcome = "" /\ found.policy # "none" /\ found.record.pct = 100
            => outcome \in {"Pass", "Reject"}
       /\ SpOrg[from] = from /\ found.outcome = "" => found.policy = found.record.p

(* Does not hold: the comment at evaluate.rs:121-122 says that without     *)
(* random bytes "the result is 0, which causes non-sampled treatment"; the *)
(* result is 1, which every pct of 1 or more samples.                      *)
UnrolledIsSpared == \A pct \in 1..99 : SamplePct(0) > pct
=============================================================================

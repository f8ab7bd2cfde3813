--------------------------- MODULE MessageSigning ---------------------------
(***************************************************************************)
(* What is signed and what a signature covers: the canonicalization of     *)
(* src/src/dkim/canon.rs, signing and verification (dkim/sign.rs,          *)
(* dkim/verify.rs), and the ARC chain of src/src/arc/ with the two places  *)
(* that seal it, the SMTP server at acceptance and storage/routing.rs when *)
(* mail is forwarded.                                                      *)
(*                                                                         *)
(* Text is a sequence of tokens: "x" and "y" are words, "sp" a run-free    *)
(* white space, "nl" a CRLF.  A hash is the hashed value itself and a      *)
(* signature the input and the key it was made with, so that it verifies   *)
(* exactly when the verifier arrives at the same input and finds that key. *)
(***************************************************************************)
EXTENDS Integers, Sequences, FiniteSets

CONSTANTS
  SgBodies,       \* message bodies, sequences of tokens
  SgHeaders,      \* header lists, sequences of [name, cap, value]
  SgOurDomain,    \* d= of our sealer
  SgOthers,       \* d= of the other sealers mail may come through
  SgMaxInstance,  \* MAX_INSTANCE
  SgMaxHops       \* bound: hops a message takes

VARIABLES
  sgArc,      \* the ARC headers of a message: a set of [kind, i, d, cv, covers, hop, mark]
  sgContent,  \* the version of its signed headers and body
  sgHops,     \* hops taken
  sgLast      \* the last seal of ours: [by, dns, before, after]

sgVars == <<sgArc, sgContent, sgHops, sgLast>>

-----------------------------------------------------------------------------
(* Canonicalization.                                                       *)

RECURSIVE Collapse(_, _, _)
(* Runs of white space become one; leading and trailing white space goes.  *)
Collapse(s, inSpace, out) ==
  IF s = <<>> THEN out
  ELSE IF Head(s) = "sp" THEN Collapse(Tail(s), TRUE, out)
  ELSE Collapse(Tail(s), FALSE,
                Append(IF inSpace /\ out # <<>> THEN Append(out, "sp") ELSE out, Head(s)))

CanonHeader(canon, h) ==
  IF canon = "simple" THEN h
  ELSE [name |-> h.name, cap |-> FALSE,
        value |-> Collapse(SelectSeq(h.value, LAMBDA t : t # "nl"), FALSE, <<>>)]

RECURSIVE StripBlank(_)
StripBlank(b) ==
  IF Len(b) >= 2 /\ b[Len(b)] = "nl" /\ b[Len(b) - 1] = "nl"
  THEN StripBlank(SubSeq(b, 1, Len(b) - 1)) ELSE b

SimpleBody(b) ==
  LET out == StripBlank(b) IN
  IF out = <<>> THEN <<"nl">>
  ELSE IF out[Len(out)] = "nl" THEN out ELSE Append(out, "nl")

RECURSIVE Lines(_, _)
(* split_inclusive: the lines of a body, without their terminators.        *)
Lines(b, line) ==
  IF b = <<>> THEN IF line = <<>> THEN <<>> ELSE <<line>>
  ELSE IF Head(b) = "nl" THEN <<line>> \o Lines(Tail(b), <<>>)
  ELSE Lines(Tail(b), Append(line, Head(b)))

RECURSIVE Joined(_)
Joined(lines) ==
  IF lines = <<>> THEN <<>> ELSE Append(Head(lines), "nl") \o Joined(Tail(lines))

RelaxedBody(b) ==
  LET lines == Lines(b, <<>>) IN
  StripBlank(Joined([i \in DOMAIN lines |-> Collapse(lines[i], FALSE, <<>>)]))

CanonBody(canon, b) == IF canon = "simple" THEN SimpleBody(b) ELSE RelaxedBody(b)

(* RFC 6376 section 3.4.4: a run of white space within a line is one space,*)
(* at its beginning too, trailing white space and trailing lines go.       *)
Rfc6376Relaxed(b) ==
  LET lines == Lines(b, <<>>)
      Line(l) == IF l # <<>> /\ Head(l) = "sp" /\ Collapse(l, FALSE, <<>>) # <<>>
                 THEN <<"sp">> \o Collapse(l, FALSE, <<>>)
                 ELSE Collapse(l, FALSE, <<>>)
      body == StripBlank(Joined([i \in DOMAIN lines |-> Line(lines[i])]))
  IN IF body = <<"nl">> THEN <<>> ELSE body

-----------------------------------------------------------------------------
(* DKIM.                                                                   *)

SignedHeaders == <<"from", "to", "subject">>

(* The last header of that name not yet taken: 0 for none.                 *)
LowestUnused(headers, used, name) ==
  LET found == {i \in DOMAIN headers : i \notin used /\ headers[i].name = name}
  IN IF found = {} THEN 0 ELSE CHOOSE i \in found : \A j \in found : j <= i

RECURSIVE HeaderInput(_, _, _, _)
(* The listed headers bottom up; an absent one contributes nothing.        *)
HeaderInput(canon, headers, used, names) ==
  IF names = <<>> THEN <<>>
  ELSE LET i == LowestUnused(headers, used, Head(names)) IN
       IF i = 0 THEN HeaderInput(canon, headers, used, Tail(names))
       ELSE <<CanonHeader(canon, headers[i])>>
            \o HeaderInput(canon, headers, used \cup {i}, Tail(names))

(* Signer::sign: a message without From is not signed.                     *)
Sign(key, d, headers, body) ==
  LET names == SelectSeq(SignedHeaders, LAMBDA n : \E i \in DOMAIN headers : headers[i].name = n)
  IN IF \A i \in DOMAIN headers : headers[i].name # "from" THEN {}
     ELSE {[d |-> d, h |-> names, hc |-> "relaxed", bc |-> "relaxed", x |-> 0,
            bh |-> CanonBody("relaxed", body),
            b |-> <<key, HeaderInput("relaxed", headers, {}, names), d>>]}

(* parse: the From header must be covered.                                 *)
ParseSignature(s) == \E i \in DOMAIN s.h : s.h[i] = "from"

(* verify_one.  `keys` is what the TXT lookup of the selector gives: the   *)
(* keys found, or Temporary.  The body is checked before the lookup.       *)
Temporary == {"temporary"}
VerifyOne(s, headers, body, keys, now) ==
  IF ~ParseSignature(s) THEN "PermError"
  ELSE IF s.x # 0 /\ now > s.x THEN "Fail"
  ELSE IF CanonBody(s.bc, body) # s.bh THEN "Fail"
  ELSE IF keys = Temporary THEN "TempError"
  ELSE IF keys = {} THEN "PermError"
  ELSE IF s.b = <<CHOOSE k \in keys : TRUE,
                  HeaderInput(s.hc, headers, {}, s.h), s.d>> THEN "Pass"
  ELSE "Fail"

(* What a relay may do to a message that relaxed canonicalization ignores, *)
(* and one thing that it may not.                                          *)
Transit(headers, body) ==
  {<<headers, Append(body, "nl")>> : x \in {b \in {body} : b # <<>> /\ b[Len(b)] = "nl"}} \cup
  {<<(<<[name |-> "received", cap |-> TRUE, value |-> <<"x">>]>>) \o headers, body>>} \cup
  {<<[headers EXCEPT ![i].value = <<"sp">> \o @ \o <<"sp">>], body>> : i \in DOMAIN headers} \cup
  {<<[headers EXCEPT ![i].cap = ~@], body>> : i \in DOMAIN headers}

Tampered(headers, body) ==
  {<<headers, <<"y">> \o body>>} \cup
  {<<[headers EXCEPT ![i].value = Append(@, "y")], body>> :
       i \in {j \in DOMAIN headers : headers[j].name = "from" /\
                \A k \in DOMAIN headers : headers[k].name = "from" => k <= j}}

-----------------------------------------------------------------------------
(* ARC.                                                                    *)

Kinds == {"AAR", "AMS", "AS"}
(* The headers of a kind and instance; `hop` tells two made alike apart.   *)
Of(set, kind, i) == {h \in set : h.kind = kind /\ h.i = i}
Highest(set) == IF set = {} THEN 0 ELSE CHOOSE n \in {h.i : h \in set} : \A h \in set : h.i <= n

(* extract: no headers; an instance out of range; a header twice; one      *)
(* instance missing; one incomplete; or the chain.  "ok" carries no value: *)
(* the instances are those of the set.                                     *)
Extract(set) ==
  IF set = {} THEN "none"
  ELSE IF Highest(set) > SgMaxInstance THEN "BadInstance"
  ELSE IF \E k \in Kinds, i \in 1..Highest(set) : Cardinality(Of(set, k, i)) > 1 THEN "Duplicate"
  ELSE IF \E i \in 1..Highest(set) : \A k \in Kinds : Of(set, k, i) = {} THEN "NonContiguous"
  ELSE IF \E i \in 1..Highest(set), k \in Kinds : Of(set, k, i) = {} THEN "Incomplete"
  ELSE "ok"

Prior(set) == IF Extract(set) = "ok" THEN set ELSE {}

(* Each seal says none on the first instance and pass on the later ones.   *)
CvValuesConsistent(set) ==
  \A h \in set : h.kind = "AS" => h.cv = IF h.i = 1 THEN "none" ELSE "pass"

(* A seal verifies over the headers it was made over, itself unmodified.   *)
Covered(set, i) == {<<h.kind, h.i, h.mark>> : h \in {g \in set : g.i <= i}}
SealVerifies(set, h) == h.covers = Covered(set, h.i)

(* The AMS verifies over the message as it was when it was made.           *)
MessageSignatureVerifies(h, content) == h.covers = {<<"content", content, h.mark>>}

(* validate: the newest message signature against the message, then every  *)
(* seal.  A lookup that fails counts as a failure.                         *)
Validate(set, content, dns) ==
  IF Extract(set) = "none" THEN "none"
  ELSE IF Extract(set) # "ok" THEN "fail"
  ELSE IF /\ CvValuesConsistent(set)
          /\ dns
          /\ \A h \in Of(set, "AMS", Highest(set)) : MessageSignatureVerifies(h, content)
          /\ \A h \in set : h.kind = "AS" => SealVerifies(set, h)
       THEN "pass" ELSE "fail"

(* The AMS names the message it signs, the seal the headers so far.        *)
MessageSignatureMade(i, d, cv, content) ==
  [kind |-> "AMS", i |-> i, d |-> d, cv |-> cv, covers |-> {<<"content", content, 0>>},
   hop |-> sgHops, mark |-> 0]
SealMade(prior, i, d, cv) ==
  [kind |-> "AS", i |-> i, d |-> d, cv |-> cv, hop |-> sgHops, mark |-> 0,
   covers |-> Covered(prior, i) \cup {<<"AAR", i, 0>>, <<"AMS", i, 0>>, <<"AS", i, 0>>}]

NextInstance(prior) == Highest(prior) + 1

(* The three headers of ArcSealer::seal; none when the chain is full.      *)
ArcHeaders(prior, content, d, cv) ==
  LET i == NextInstance(prior)
      aar == [kind |-> "AAR", i |-> i, d |-> d, cv |-> cv, covers |-> {},
              hop |-> sgHops, mark |-> 0]
  IN IF i > SgMaxInstance THEN {}
     ELSE {aar, MessageSignatureMade(i, d, cv, content), SealMade(prior, i, d, cv)}

SgInit == sgArc = {} /\ sgContent = 0 /\ sgHops = 0
          /\ sgLast = [by |-> "none", dns |-> TRUE, before |-> "none", after |-> "none"]

Hop(by, dns, headers) ==
  /\ sgHops < SgMaxHops /\ sgHops' = sgHops + 1
  /\ sgArc' = sgArc \cup headers
  /\ sgLast' = [by |-> IF headers = {} THEN "none" ELSE by, dns |-> dns,
                before |-> Validate(sgArc, sgContent, TRUE),
                after |-> Validate(sgArc \cup headers, sgContent, TRUE)]
  /\ UNCHANGED sgContent

(* Mutant of AcceptSeal: the chain is not validated first.                 *)
AcceptSealUnchecked ==
  \E dns \in BOOLEAN :
    Hop("accept", dns, ArcHeaders(Prior(sgArc), sgContent, SgOurDomain, "none"))

(* The server at acceptance: cv is what validation gives, with the lookups *)
(* it could make.                                                          *)
AcceptSeal ==
  \E dns \in BOOLEAN :
    Hop("accept", dns, ArcHeaders(Prior(sgArc), sgContent, SgOurDomain,
                                  Validate(sgArc, sgContent, dns)))

(* A forwarded copy: not sealed twice in a row; cv is the one the previous *)
(* seal recorded, with no validation.                                      *)
ForwardSeal ==
  LET prior == Prior(sgArc)
      top == Of(prior, "AS", Highest(prior))
      cv == IF prior = {} THEN "none" ELSE (CHOOSE h \in top : TRUE).cv
  IN IF \E h \in top : h.d = SgOurDomain THEN Hop("forward", TRUE, {})
     ELSE Hop("forward", TRUE, ArcHeaders(prior, sgContent, SgOurDomain, cv))

(* Another sealer, by the RFC: it seals what validates.                    *)
OtherSeal ==
  \E d \in SgOthers :
    /\ Validate(sgArc, sgContent, TRUE) \in {"none", "pass"}
    /\ Hop("other", TRUE, ArcHeaders(sgArc, sgContent, d, Validate(sgArc, sgContent, TRUE)))

(* A relay that rewrites the message, loses an ARC header or changes one.  *)
Rewrite ==
  /\ sgHops < SgMaxHops /\ sgHops' = sgHops + 1
  /\ \/ sgContent' = sgContent + 1 /\ UNCHANGED sgArc
     \/ \E h \in sgArc : sgArc' = sgArc \ {h} /\ UNCHANGED sgContent
     \/ \E h \in sgArc : sgArc' = (sgArc \ {h}) \cup {[h EXCEPT !.mark = 1]} /\ UNCHANGED sgContent
  /\ sgLast' = [by |-> "none", dns |-> TRUE, before |-> "none", after |-> "none"]

SgNext == AcceptSeal \/ ForwardSeal \/ OtherSeal \/ Rewrite

SgSpec == SgInit /\ [][SgNext]_sgVars

-----------------------------------------------------------------------------
SgTypeOK ==
  /\ \A h \in sgArc : h.kind \in Kinds /\ h.i \in 1..SgMaxInstance /\ h.mark \in 0..1
  /\ sgHops \in 0..SgMaxHops

(* A seal the server adds at acceptance to an intact chain leaves a chain  *)
(* the next validator accepts, as long as its own lookups worked: sealing  *)
(* never breaks what it received (arc/sealer.rs, arc/validate.rs).         *)
AcceptSealKeeps ==
  sgLast.by = "accept" /\ sgLast.dns /\ sgLast.before \in {"none", "pass"}
    => sgLast.after = "pass"

(* Nor does it ever make a chain whole again that was broken.              *)
AcceptSealNeverRepairs ==
  sgLast.by = "accept" /\ sgLast.before = "fail" => sgLast.after = "fail"

(* A signature of ours survives what relaxed canonicalization is for and   *)
(* nothing that changes a signed header or the body, for every message of  *)
(* the instance; an unsigned From is never signed.                         *)
SignaturesMean ==
  \A hs \in SgHeaders, b \in SgBodies : \A s \in Sign("k", SgOurDomain, hs, b) :
    /\ VerifyOne(s, hs, b, {"k"}, 0) = "Pass"
    /\ \A m \in Transit(hs, b) : VerifyOne(s, m[1], m[2], {"k"}, 0) = "Pass"
    /\ \A m \in Tampered(hs, b) : VerifyOne(s, m[1], m[2], {"k"}, 0) = "Fail"
    /\ VerifyOne(s, hs, b, {"other"}, 0) = "Fail"

(* Canonicalizing twice is canonicalizing once, and what simple finds      *)
(* equal relaxed does too.                                                 *)
CanonStable ==
  \A b \in SgBodies :
    /\ SimpleBody(SimpleBody(b)) = SimpleBody(b)
    /\ RelaxedBody(RelaxedBody(b)) = RelaxedBody(b)
    /\ b # <<>> => RelaxedBody(SimpleBody(b)) = RelaxedBody(b)

(* Does not hold: relaxed_body drops white space at the beginning of a     *)
(* line, where the section canon.rs:1 names keeps one space.               *)
RelaxedIsRfc6376 == \A b \in SgBodies : RelaxedBody(b) = Rfc6376Relaxed(b)

(* Does not hold: "seals as a fresh chain - never an invalid set"          *)
(* (storage/routing.rs:133).  A first instance records cv=none, which the  *)
(* forwarder copies into the second, where only pass is valid.             *)
ForwardSealKeeps ==
  sgLast.by = "forward" /\ sgLast.before \in {"none", "pass"} => sgLast.after = "pass"

(* Does not hold either: copying cv=pass without validating, the forwarder *)
(* puts a valid instance on top of a chain the message no longer matches.  *)
ForwardSealNeverRepairs ==
  sgLast.by = "forward" /\ sgLast.before = "fail" => sgLast.after = "fail"
=============================================================================

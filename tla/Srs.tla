--------------------------------- MODULE Srs ---------------------------------
(***************************************************************************)
(* The Sender Rewriting Scheme of forwarded mail (queue/srs.rs) and its    *)
(* use by the router (storage/routing.rs): the envelope sender of what is  *)
(* forwarded becomes an address at this host that carries the original, a  *)
(* day and a signature; a bounce to it is sent on to the original for      *)
(* SrMaxAge days.                                                          *)
(*                                                                         *)
(* A text is a sequence of characters.  The signature is four characters   *)
(* of an HMAC over the folded text; it is modelled without collisions, as  *)
(* a text that repeats what it signs in characters of its own for the      *)
(* secret and the = sign.                                                  *)
(***************************************************************************)
EXTENDS Integers, Sequences, FiniteSets

CONSTANTS
    SrLower,      \* to_ascii_lowercase of each character
    SrAlphabet,   \* BASE32: the characters of its 32 digits, in order
    SrModulus,    \* TS_MODULUS: the timestamp wraps
    SrMaxAge,     \* SRS_MAX_AGE_DAYS
    SrHost,       \* the domain rewritten senders are at
    SrSecret,     \* the character that stands for the secret
    SrSenders,    \* the senders whose mail is forwarded
    SrDays,       \* the days on which something happens
    SrMaxCopies   \* the bound on the copies in flight

VARIABLES
    day,          \* today, in days since the epoch
    forwarded     \* what was forwarded: its sender, the rewritten one and the day

srVars == <<day, forwarded>>

SrFold(text) == [i \in 1 .. Len(text) |-> SrLower[text[i]]]

----------------------------------------------------------------------------
\* Mutant: the signature leaves the domain out.
HashLocal(ts, domain, local) == SrFold(ts \o local)

\* Srs::hash.
HashChars == {SrSecret, "~"}
Hash(ts, domain, local) ==
    LET data == SrFold(ts \o <<"=">> \o domain \o <<"=">> \o local)
    IN <<SrSecret>> \o [i \in 1 .. Len(data) |-> IF data[i] = "=" THEN "~" ELSE data[i]]

\* encode_timestamp, decode_timestamp and base32_value.
EncodeTimestamp(days) ==
    LET value == days % SrModulus
    IN <<SrAlphabet[((value \div 32) % 32) + 1], SrAlphabet[(value % 32) + 1]>>
Base32Value(c) ==
    {i - 1 : i \in {j \in 1 .. Len(SrAlphabet) : SrLower[SrAlphabet[j]] = SrLower[c]}}
DecodeTimestamp(ts) ==
    IF Len(ts) # 2 THEN {}
    ELSE {hi * 32 + lo : hi \in Base32Value(ts[1]), lo \in Base32Value(ts[2])}

\* Mutant: the difference is not taken back into the cycle.
TimestampAgeUnwrapped(stamp, now) == (now % SrModulus) + SrModulus - stamp

\* timestamp_age: a stamp from the future is nearly a cycle old.
TimestampAge(stamp, now) == ((now % SrModulus) + SrModulus - stamp) % SrModulus

Prefix == <<"S", "R", "S", "0", "=">>
Forward(local, domain, now) ==
    LET ts == EncodeTimestamp(now)
    IN Prefix \o Hash(ts, domain, local) \o <<"=">> \o ts \o <<"=">> \o domain \o <<"=">> \o local

\* splitn(4, '='): the first three separators, when there are three.
Separators(text) == {i \in 1 .. Len(text) : text[i] = "="}
Cuts(text) ==
    {cut \in Separators(text) \X Separators(text) \X Separators(text) :
        /\ cut[1] < cut[2] /\ cut[2] < cut[3]
        /\ \A i \in Separators(text) : i <= cut[3] => i \in {cut[1], cut[2], cut[3]}}

\* Srs::reverse, with strip_prefix_ci: the original sender, an Option.
ReversePath(text, now) ==
    LET rest == SubSeq(text, Len(Prefix) + 1, Len(text))
        Part(from, to) == SubSeq(rest, from + 1, to - 1)
        Accepted(cut) ==
            LET ts == Part(cut[1], cut[2])
                domain == Part(cut[2], cut[3])
                local == Part(cut[3], Len(rest) + 1)
            IN /\ domain # <<>> /\ local # <<>>
               /\ Hash(ts, domain, local) = Part(0, cut[1])
               /\ \E stamp \in DecodeTimestamp(ts) : TimestampAge(stamp, now) <= SrMaxAge
    IN IF Len(text) < Len(Prefix) \/ SrFold(SubSeq(text, 1, Len(Prefix))) # SrFold(Prefix)
       THEN {}
       ELSE {[local |-> Part(cut[3], Len(rest) + 1), domain |-> Part(cut[2], cut[3])] :
                cut \in {c \in Cuts(rest) : Accepted(c)}}

----------------------------------------------------------------------------
(* The router.  A sender is an address, or the null sender of a bounce.    *)

NullSender == [local |-> <<>>, domain |-> <<>>]

\* SplitDelivery::forward_sender, with SRS enabled.
ForwardSender(original, now) ==
    IF original = NullSender THEN NullSender
    ELSE [local |-> Forward(original.local, original.domain, now), domain |-> SrHost]

\* SplitDelivery::srs_return.
SrsReturn(recipient, now) ==
    IF SrFold(recipient.domain) # SrFold(SrHost) THEN {} ELSE ReversePath(recipient.local, now)

SrInit == day \in SrDays /\ forwarded = {}

\* A copy is forwarded (routing.rs, a redirect or a forward of the account).
ForwardCopy(original) ==
    /\ Cardinality(forwarded) < SrMaxCopies
    /\ forwarded' = forwarded \cup {[original |-> original, sender |-> ForwardSender(original, day), on |-> day]}
    /\ UNCHANGED day

\* external: time passes.
PassDays == \E later \in SrDays : day < later /\ day' = later /\ UNCHANGED forwarded

SrNext == PassDays \/ \E original \in SrSenders : ForwardCopy(original)

SrSpec == SrInit /\ [][SrNext]_srVars

----------------------------------------------------------------------------
\* The bounce of a forwarded copy goes to the sender of the original, all of
\* it, for as long as the signature lasts and not after, and so again in each
\* cycle of the timestamp; what was sent by no one is bounced to no one
\* (srs.rs, reverse: "where local may itself contain '='").
BouncesReturn ==
    \A copy \in forwarded :
        SrsReturn(copy.sender, day) =
            IF copy.original # NullSender /\ (day - copy.on) % SrModulus <= SrMaxAge
            THEN {copy.original} ELSE {}

\* A rewritten sender with one character replaced by another returns to no
\* one else than the original, whatever the case of its letters (srs.rs,
\* hash: "HMAC over the lowercased").
AlteredReturnNowhere ==
    \A copy \in forwarded : \A i \in 1 .. Len(copy.sender.local) : \A c \in DOMAIN SrLower \ HashChars :
        \A original \in ReversePath([copy.sender.local EXCEPT ![i] = c], day) :
            /\ SrFold(original.local) = SrFold(copy.original.local)
            /\ SrFold(original.domain) = SrFold(copy.original.domain)

\* A rewritten sender returns to its original and to no one else (srs.rs).
SrsCorrect == BouncesReturn /\ AlteredReturnNowhere
=============================================================================

----------------------------- MODULE ImapSearch -----------------------------
(***************************************************************************)
(* What SEARCH, SORT, THREAD and ESEARCH compute (imap/session/commands.rs, *)
(* helpers.rs, sort.rs, thread.rs) and how their criteria are parsed        *)
(* (imap/command/search.rs), each against a definition of what is meant.    *)
(*                                                                          *)
(* A message has a uid, flags, a day, a size, a modseq, an age in seconds   *)
(* and a subject: a sequence of words, which are numbers; 0 is a reply      *)
(* prefix.                                                                  *)
(***************************************************************************)
EXTENDS Integers, Sequences, FiniteSets, SequencesExt

CONSTANTS
    SrDays,         \* days since the epoch the calendar is checked for
    SrMailboxes,    \* mailboxes: sequences of messages
    SrAtoms,        \* search keys without parts
    SrSets,         \* sequence sets
    SrSortKeys      \* lists of sort keys

----------------------------------------------------------------------------
(* Dates *)

\* epoch_to_ymd
EpochToYmd(days) ==
    LET z == days + 719468
        era == z \div 146097
        doe == z % 146097
        yoe == (doe - doe \div 1460 + doe \div 36524 - doe \div 146096) \div 365
        doy == doe - (365 * yoe + yoe \div 4 - yoe \div 100)
        mp == (5 * doy + 2) \div 153
        d == doy - (153 * mp + 2) \div 5 + 1
        m == IF mp < 10 THEN mp + 3 ELSE mp - 9
        y == yoe + era * 400
    IN  <<IF m <= 2 THEN y + 1 ELSE y, m, d>>

\* mutant: the year is not counted from March
DateToEpochDayJanuary(year, month, day) ==
    LET y == year
        era == y \div 400
        yoe == y - era * 400
        doy == (153 * (IF month > 2 THEN month - 3 ELSE month + 9) + 2) \div 5 + day - 1
    IN  era * 146097 + yoe * 365 + yoe \div 4 - yoe \div 100 + doy - 719468

\* date_to_epoch_day
DateToEpochDay(year, month, day) ==
    LET y == year - (IF month <= 2 THEN 1 ELSE 0)
        era == y \div 400
        yoe == y - era * 400
        doy == (153 * (IF month > 2 THEN month - 3 ELSE month + 9) + 2) \div 5 + day - 1
    IN  era * 146097 + yoe * 365 + yoe \div 4 - yoe \div 100 + doy - 719468

----------------------------------------------------------------------------
(* Sequence sets: pairs of numbers, 0 for *, equal for a single one *)

\* SequenceSet::contains
SetContains(set, value, max) ==
    \E i \in DOMAIN set :
        LET a == set[i][1]
            b == set[i][2]
            low == IF a = 0 THEN max ELSE IF b = 0 THEN Min({a, max}) ELSE Min({a, b})
            high == IF a = 0 \/ b = 0 THEN max ELSE Max({a, b})
        IN  low <= value /\ value <= high

----------------------------------------------------------------------------
(* Search keys: atoms [op, arg], [op |-> "not", key], [op |-> "or", a, b] and  *)
(* [op |-> "and", keys]; tokens are atoms, Open, Close, Or and Not             *)

Open == [op |-> "("]
Close == [op |-> ")"]
Or == [op |-> "OR"]
Not == [op |-> "NOT"]

\* find_close_paren: where the parenthesis that opens s is closed, or 0
FindCloseParen(s) ==
    LET Count(t, i) == Cardinality({j \in 1..i : s[j] = t})
        closed == {i \in DOMAIN s : s[i] = Close /\ Count(Close, i) >= Count(Open, i)}
    IN  IF closed = {} \/ Count(Open, Min(closed)) # Count(Close, Min(closed)) THEN 0 ELSE Min(closed)

RECURSIVE ParseSearchKey(_), ParseSearch(_)

Failed == [ok |-> FALSE, key |-> <<>>, rest |-> <<>>]
Parsed(key, rest) == [ok |-> TRUE, key |-> key, rest |-> rest]

\* parse_search_key: one key from the start of s
ParseSearchKey(s) ==
    IF s = <<>> \/ s[1] = Close THEN Failed
    ELSE CASE s[1] = Open ->
                LET close == FindCloseParen(s)
                    inner == ParseSearch(SubSeq(s, 2, close - 1))
                IN  IF close = 0 \/ ~inner.ok THEN Failed
                    ELSE Parsed([op |-> "and", keys |-> inner.key], SubSeq(s, close + 1, Len(s)))
           [] s[1] = Not ->
                LET k == ParseSearchKey(Tail(s))
                IN  IF k.ok THEN Parsed([op |-> "not", key |-> k.key], k.rest) ELSE Failed
           [] s[1] = Or ->
                LET a == ParseSearchKey(Tail(s))
                    b == ParseSearchKey(a.rest)
                IN  IF a.ok /\ b.ok THEN Parsed([op |-> "or", a |-> a.key, b |-> b.key], b.rest) ELSE Failed
           [] OTHER -> Parsed(s[1], Tail(s))

\* parse_search: keys up to the end
ParseSearch(s) ==
    IF s = <<>> THEN Parsed(<<>>, <<>>)
    ELSE LET k == ParseSearchKey(s)
             more == ParseSearch(k.rest)
         IN  IF k.ok /\ more.ok THEN Parsed(<<k.key>> \o more.key, <<>>) ELSE Failed

RECURSIVE SearchMatches(_, _, _, _)

\* search_matches
SearchMatches(key, message, seqno, total) ==
    CASE key.op = "all" -> TRUE
      [] key.op = "flag" -> (key.arg.flag \in message.flags) = key.arg.wanted
      [] key.op = "sequence" -> SetContains(key.arg, seqno, total)
      [] key.op = "before" -> message.day < DateToEpochDay(key.arg[1], key.arg[2], key.arg[3])
      [] key.op = "since" -> message.day >= DateToEpochDay(key.arg[1], key.arg[2], key.arg[3])
      [] key.op = "on" -> message.day = DateToEpochDay(key.arg[1], key.arg[2], key.arg[3])
      [] key.op = "larger" -> message.size > key.arg
      [] key.op = "smaller" -> message.size < key.arg
      [] key.op = "modseq" -> message.modseq >= key.arg
      [] key.op = "younger" -> message.age <= key.arg
      [] key.op = "older" -> message.age > key.arg
      [] key.op = "or" -> SearchMatches(key.a, message, seqno, total) \/ SearchMatches(key.b, message, seqno, total)
      [] key.op = "not" -> ~SearchMatches(key.key, message, seqno, total)
      [] key.op = "and" -> \A i \in DOMAIN key.keys : SearchMatches(key.keys[i], message, seqno, total)

\* matching_uids: ESEARCH and UID SEARCH
MatchingUids(mailbox, criteria) ==
    LET hit == {i \in DOMAIN mailbox :
                    \A k \in DOMAIN criteria : SearchMatches(criteria[k], mailbox[i], i, Len(mailbox))}
    IN  [n \in 1..Cardinality(hit) |-> mailbox[SetToSortSeq(hit, <)[n]].uid]

----------------------------------------------------------------------------
(* SORT and THREAD *)

\* re:, fwd: or fw: at the start of a subject
ReplyPrefix == 0

\* normalized_subject and base_subject: without the run of reply prefixes
BaseSubject(subject) ==
    LET kept == {i \in DOMAIN subject : subject[i] # ReplyPrefix}
    IN  IF kept = {} THEN <<>> ELSE SubSeq(subject, Min(kept), Len(subject))

\* strings are compared by their words, which are numbers here
TextBefore(s, t) ==
    \E i \in 0..Len(s) :
        /\ i <= Len(t) /\ SubSeq(s, 1, i) = SubSeq(t, 1, i)
        /\ IF i = Len(s) THEN i < Len(t) ELSE i < Len(t) /\ s[i + 1] < t[i + 1]

\* sort_value; DATE is the arrival as well
SortValue(key, message) ==
    CASE key \in {"arrival", "date"} -> <<message.day>>
      [] key = "size" -> <<message.size>>
      [] key = "subject" -> BaseSubject(message.subject)

\* the comparison of sort: the first key that differs, then the position
SortBefore(keys, mailbox, i, j) ==
    LET Less(k) == TextBefore(SortValue(keys[k].key, mailbox[IF keys[k].reverse THEN j ELSE i]),
                              SortValue(keys[k].key, mailbox[IF keys[k].reverse THEN i ELSE j]))
        Equal(k) == SortValue(keys[k].key, mailbox[i]) = SortValue(keys[k].key, mailbox[j])
        differ == {k \in DOMAIN keys : ~Equal(k)}
    IN  IF differ = {} THEN i < j ELSE Less(Min(differ))

\* sort, as positions
Sort(keys, mailbox) == SetToSortSeq(DOMAIN mailbox, LAMBDA i, j : SortBefore(keys, mailbox, i, j))

\* group_by_subject: threads by their first arrival, then by subject
GroupBySubject(mailbox) ==
    LET Subject(i) == BaseSubject(mailbox[i].subject)
        Earlier(i, j) == mailbox[i].day < mailbox[j].day \/ (mailbox[i].day = mailbox[j].day /\ i < j)
        Members(s) == SetToSortSeq({i \in DOMAIN mailbox : Subject(i) = s}, Earlier)
        First(s) == mailbox[Members(s)[1]].day
        order == SetToSortSeq({Subject(i) : i \in DOMAIN mailbox},
                              LAMBDA s, t : First(s) < First(t) \/ (First(s) = First(t) /\ TextBefore(s, t)))
    IN  [n \in DOMAIN order |-> Members(order[n])]

----------------------------------------------------------------------------
(* Properties: the computation against what is meant *)

DaysIn(y, m) ==
    CASE m \in {4, 6, 9, 11} -> 30
      [] m = 2 -> IF y % 4 = 0 /\ (y % 100 # 0 \/ y % 400 = 0) THEN 29 ELSE 28
      [] OTHER -> 31

NextDay(date) ==
    LET y == date[1]
        m == date[2]
    IN  IF date[3] < DaysIn(y, m) THEN <<y, m, date[3] + 1>>
        ELSE IF m < 12 THEN <<y, m + 1, 1>> ELSE <<y + 1, 1, 1>>

\* The two conversions are inverse to each other and walk the calendar: the day
\* after a day is the next date, over month ends, leap years and centuries.
CalendarSound ==
    /\ EpochToYmd(0) = <<1970, 1, 1>>
    /\ \A d \in SrDays :
          LET date == EpochToYmd(d) IN
          /\ DateToEpochDay(date[1], date[2], date[3]) = d
          /\ EpochToYmd(d + 1) = NextDay(date)

\* Keys of two levels
Compound(keys) ==
    [op : {"not"}, key : keys] \cup [op : {"or"}, a : keys, b : keys]
    \cup [op : {"and"}, keys : {<<>>} \cup {<<k>> : k \in keys} \cup (keys \X keys)]

RECURSIVE Tokens(_)
Tokens(key) ==
    CASE key.op = "not" -> <<Not>> \o Tokens(key.key)
      [] key.op = "or" -> <<Or>> \o Tokens(key.a) \o Tokens(key.b)
      [] key.op = "and" -> <<Open>> \o FoldLeft(LAMBDA s, k : s \o Tokens(k), <<>>, key.keys) \o <<Close>>
      [] OTHER -> <<key>>

SrSome == {CHOOSE a \in SrAtoms : TRUE} \cup {CHOOSE a \in SrAtoms : a.op = "before"}
SrTrees == SrAtoms \cup Compound(SrSome \cup Compound(SrSome))

\* A criterion is parsed as it was meant, however OR, NOT and parentheses are
\* nested, and nothing that follows it is lost.
KeysParseBack ==
    \A key \in SrTrees : ParseSearch(Tokens(key) \o Tokens(key)) = Parsed(<<key, key>>, <<>>)

\* What a sequence set names among max messages
Named(set, max) ==
    LET n(x) == IF x = 0 THEN max ELSE x
    IN  UNION {Min({n(r[1]), n(r[2])})..Max({n(r[1]), n(r[2])}) : r \in Range(set)}

\* Sequence sets name what RFC 9051 says, also when a number is beyond the last
\* message.  A range that begins with * is excepted: the code takes *:n for *.
SetsNameMessages ==
    \A set \in SrSets : (\A i \in DOMAIN set : set[i][1] = 0 => set[i][2] = 0) =>
        \A max \in 1..4 : {v \in 1..max : SetContains(set, v, max)} = Named(set, max) \cap 1..max

\* The search keys have the meaning of the set algebra: a mailbox is split by
\* every date into BEFORE, ON and the rest of SINCE, by every age into YOUNGER
\* and OLDER; NOT, OR and parentheses are complement, union and intersection,
\* and the result is in mailbox order.
SearchMeans ==
    \A box \in SrMailboxes :
        LET Hits(key) == {i \in DOMAIN box : SearchMatches(key, box[i], i, Len(box))} IN
        /\ \A a \in SrAtoms :
              /\ Hits([op |-> "not", key |-> a]) = DOMAIN box \ Hits(a)
              /\ a.op = "before" =>
                    LET next == NextDay(a.arg) IN
                    /\ Hits([a EXCEPT !.op = "since"]) = DOMAIN box \ Hits(a)
                    /\ Hits([a EXCEPT !.op = "on"])
                         = Hits([a EXCEPT !.op = "since"]) \cap Hits([a EXCEPT !.arg = next])
              /\ a.op = "younger" => Hits([a EXCEPT !.op = "older"]) = DOMAIN box \ Hits(a)
        /\ \A a, b \in SrSome :
              /\ Hits([op |-> "or", a |-> a, b |-> b]) = Hits(a) \cup Hits(b)
              /\ LET uids == MatchingUids(box, <<a, b>>)
                 IN  /\ Range(uids) = {box[i].uid : i \in Hits(a) \cap Hits(b)}
                     /\ \A i, j \in DOMAIN uids : i < j => uids[i] < uids[j]

\* SORT lists every message once; of two messages the earlier one is not greater
\* in the first key that differs, greater if that key is reversed, and ties stay
\* in mailbox order.
SortOrders ==
    \A box \in SrMailboxes, keys \in SrSortKeys :
        LET result == Sort(keys, box) IN
        /\ Len(result) = Len(box) /\ Range(result) = DOMAIN box
        /\ \A p, q \in DOMAIN result : p < q =>
              LET Value(k, n) == SortValue(keys[k].key, box[result[n]])
                  first == {k \in DOMAIN keys :
                              Value(k, p) # Value(k, q) /\ \A l \in 1..k - 1 : Value(l, p) = Value(l, q)}
              IN  /\ first = {} => result[p] < result[q]
                  /\ \A k \in first : TextBefore(Value(k, p), Value(k, q)) = ~keys[k].reverse

\* THREAD puts every message into one thread, together with exactly those that
\* share its base subject, oldest first; threads are ordered by their oldest.
ThreadsPartition ==
    \A box \in SrMailboxes :
        LET threads == GroupBySubject(box) IN
        /\ UNION {Range(threads[t]) : t \in DOMAIN threads} = DOMAIN box
        /\ \A t, u \in DOMAIN threads : \A i \in Range(threads[t]), j \in Range(threads[u]) :
              (t = u) = (BaseSubject(box[i].subject) = BaseSubject(box[j].subject))
        /\ \A t \in DOMAIN threads : \A m, n \in DOMAIN threads[t] :
              m < n => box[threads[t][m]].day <= box[threads[t][n]].day
        /\ \A t, u \in DOMAIN threads : t < u => box[threads[t][1]].day <= box[threads[u][1]].day

============================================================================

------------------------------- MODULE CalDav -------------------------------
(***************************************************************************)
(* Free-busy times: webdav/rrule.rs (the calendar and the recurrence       *)
(* expander) and the part of webdav/caldav.rs that turns calendars into    *)
(* busy periods.  Times are seconds since 1970 as in the code; a date-time *)
(* as written is a record of its fields; a content line is a record of its *)
(* name and its value.                                                     *)
(***************************************************************************)
EXTENDS Integers, Sequences, FiniteSets, SequencesExt

CONSTANTS
    CalYears,      \* years the calendar is checked for
    CalEvents,     \* events the expansion is checked for
    CalWindows,    \* windows asked for
    CalMax         \* MAX, the cap on the occurrences considered

Day == 86400

----------------------------------------------------------------------------
(* The calendar *)

\* division as the code does it, towards zero
Quot(a, b) == IF a >= 0 THEN a \div b ELSE -((-a) \div b)

DaysFromCivil(year, month, day) ==
    LET y == IF month <= 2 THEN year - 1 ELSE year
        era == Quot(IF y >= 0 THEN y ELSE y - 399, 400)
        yoe == y - era * 400
        doy == (153 * (IF month > 2 THEN month - 3 ELSE month + 9) + 2) \div 5 + day - 1
        doe == yoe * 365 + yoe \div 4 - yoe \div 100 + doy
    IN  era * 146097 + doe - 719468

\* civil_from_secs, civil_from_days: the day of an era of 400 years gives the
\* year, the day of the year (from March) the month and the day
YearOfEra(doe) == (doe - doe \div 1460 + doe \div 36524 - doe \div 146096) \div 365
DayOfYear(doe, yoe) == doe - (365 * yoe + yoe \div 4 - yoe \div 100)
MonthAndDay(year, doy) ==
    LET mp == (5 * doy + 2) \div 153
        month == IF mp < 10 THEN mp + 3 ELSE mp - 9
    IN  [y |-> year + (IF month <= 2 THEN 1 ELSE 0), m |-> month,
         d |-> doy - (153 * mp + 2) \div 5 + 1]
CivilInEra(era, doe) ==
    MonthAndDay(YearOfEra(doe) + era * 400, DayOfYear(doe, YearOfEra(doe)))

CivilFromDays(days) ==
    LET z == days + 719468
        era == Quot(IF z >= 0 THEN z ELSE z - 146096, 146097)
    IN  CivilInEra(era, z - era * 146097)

CivilFromSecs(secs) == CivilFromDays(secs \div Day)

IsLeap(year) == (year % 4 = 0 /\ year % 100 # 0) \/ year % 400 = 0

DaysInMonth(year, month) ==
    IF month \in {1, 3, 5, 7, 8, 10, 12} THEN 31
    ELSE IF month # 2 THEN 30 ELSE IF IsLeap(year) THEN 29 ELSE 28

\* parse_datetime: the fields of the text; a date alone is midnight; what
\* follows the seconds (Z or nothing) is not looked at
ParseDatetime(v) ==
    IF v.m \notin 1..12 \/ v.d \notin 1..31 THEN {}
    ELSE IF ~v.time THEN {DaysFromCivil(v.y, v.m, v.d) * Day}
    ELSE IF v.h > 23 \/ v.mi > 59 \/ v.s > 60 THEN {}
    ELSE {DaysFromCivil(v.y, v.m, v.d) * Day + v.h * 3600 + v.mi * 60 + v.s}

\* format_datetime
FormatDatetime(secs) ==
    LET c == CivilFromSecs(secs)
        rem == secs % Day
    IN  [y |-> c.y, m |-> c.m, d |-> c.d, time |-> TRUE,
         h |-> rem \div 3600, mi |-> (rem % 3600) \div 60, s |-> rem % 60]

----------------------------------------------------------------------------
(* Recurrence *)

Freqs == {"DAILY", "WEEKLY", "MONTHLY", "YEARLY"}

\* parse_rule: no rule without a known FREQ, and none when a part has no "=";
\* an INTERVAL below 1 or unreadable is 1
ParseRule(parts) ==
    LET Of(key) == SelectSeq(parts, LAMBDA p : p.key = key)
        freq == Of("FREQ") interval == Of("INTERVAL") count == Of("COUNT") until == Of("UNTIL")
    IN  IF \E i \in DOMAIN parts : ~parts[i].equals THEN {}
        ELSE IF freq = <<>> \/ \E i \in DOMAIN freq : freq[i].word \notin Freqs THEN {}
        ELSE {[freq |-> Last(freq).word,
               interval |-> IF interval # <<>> /\ Last(interval).num >= 1 THEN Last(interval).num ELSE 1,
               count |-> IF count = <<>> THEN {} ELSE {Last(count).num},
               until |-> IF until = <<>> THEN {} ELSE ParseDatetime(Last(until).at)]}

\* the months and years of occurrence_at: the day is clamped into the month
ClampedDay(y, m, d) ==
    DaysFromCivil(y, m, IF d < DaysInMonth(y, m) THEN d ELSE DaysInMonth(y, m))
MonthsLater(c, step) ==
    ClampedDay(c.y + ((c.m - 1 + step) \div 12), ((c.m - 1 + step) % 12) + 1, c.d)
YearsLater(c, step) == ClampedDay(c.y + step, c.m, c.d)

\* Mutant: a month is stepped from the clamped day of the month before
OccurrenceAtDrift(dtstart, freq, interval, n) ==
    LET c == CivilFromSecs(dtstart)
        month == (c.m - 1) + interval * n
    IN  IF freq = "MONTHLY" /\ n > 1
        THEN DaysFromCivil(c.y + (month \div 12), (month % 12) + 1, IF c.d > 28 THEN 28 ELSE c.d) * Day
             + (dtstart % Day)
        ELSE dtstart + interval * n * Day

OccurrenceAt(dtstart, freq, interval, n) ==
    LET step == interval * n
        time == dtstart % Day
    IN  CASE freq = "DAILY" -> dtstart + step * Day
          [] freq = "WEEKLY" -> dtstart + step * 7 * Day
          [] freq = "YEARLY" -> YearsLater(CivilFromSecs(dtstart), step) * Day + time
          [] OTHER -> MonthsLater(CivilFromSecs(dtstart), step) * Day + time

\* expand: walk forward until COUNT, UNTIL, the end of the window or the cap
Occurrences(dtstart, r) == [n \in 0..CalMax |-> OccurrenceAt(dtstart, r.freq, r.interval, n)]
Walk(at, r, from, to) ==
    LET stops(n) == \/ \E c \in r.count : n >= c
                    \/ \E u \in r.until : at[n] > u
                    \/ at[n] >= to
        walk[n \in 0..CalMax] ==
            IF n = CalMax \/ stops(n) THEN <<>>
            ELSE (IF at[n] >= from THEN <<at[n]>> ELSE <<>>) \o walk[n + 1]
    IN  walk[0]
Expand(dtstart, rule, from, to) ==
    IF rule = {} THEN IF dtstart >= from /\ dtstart < to THEN <<dtstart>> ELSE <<>>
    ELSE LET r == CHOOSE x \in rule : TRUE IN Walk(Occurrences(dtstart, r), r, from, to)

----------------------------------------------------------------------------
(* Calendars *)

\* unfold: a line that begins with white space continues the line before (the
\* value is with the piece that completes it)
Unfold(lines) ==
    LET Step(acc, l) == IF l.folded /\ acc # <<>>
                        THEN [acc EXCEPT ![Len(acc)].value = @ \cup l.value]
                        ELSE Append(acc, [name |-> l.name, value |-> l.value])
    IN  FoldLeft(Step, <<>>, lines)

\* vevents, apply_property: DTSTART, DTEND and RRULE of every VEVENT, the last
\* of each; a block that is not ended is dropped, one begun anew starts afresh
NoEvent == [dtstart |-> {}, dtend |-> {}, rrule |-> {}]
Vevents(lines) ==
    LET Step(acc, l) ==
            CASE l.name = "BEGIN:VEVENT" -> [acc EXCEPT !.open = {NoEvent}]
              [] l.name = "END:VEVENT" -> [out |-> acc.out \o SetToSeq(acc.open), open |-> {}]
              [] l.name \in {"dtstart", "dtend", "rrule"} ->
                    [acc EXCEPT !.open = {[e EXCEPT ![l.name] = l.value] : e \in acc.open}]
              [] OTHER -> acc
    IN  FoldLeft(Step, [out |-> <<>>, open |-> {}], Unfold(lines)).out

\* VEvent::duration, no less than zero
Duration(e) == IF e.dtend = {} THEN 0
               ELSE LET d == (CHOOSE x \in e.dtend : TRUE) - (CHOOSE x \in e.dtstart : TRUE)
                    IN  IF d > 0 THEN d ELSE 0

\* collect_busy: the occurrences that begin in the window, cut at its end; an
\* RRULE that does not parse counts as no RRULE
Clip(occs, duration, from, to) ==
    [i \in DOMAIN occs |->
       [s |-> IF occs[i] > from THEN occs[i] ELSE from,
        e |-> IF occs[i] + duration < to THEN occs[i] + duration ELSE to]]
EventPeriods(event, from, to) ==
    LET start == CHOOSE x \in event.dtstart : TRUE
    IN  SelectSeq(Clip(Expand(start, event.rrule, from, to), Duration(event), from, to),
                  LAMBDA p : p.e > p.s)
CollectBusy(lines, from, to) ==
    LET periods(events) == [i \in DOMAIN events |-> EventPeriods(events[i], from, to)]
    IN  FlattenSeq(periods(SelectSeq(Vevents(lines), LAMBDA e : e.dtstart # {})))

\* busy_periods: those of every calendar, in order
Before(p, q) == p.s < q.s \/ (p.s = q.s /\ p.e < q.e)
BusyPeriods(calendars, from, to) ==
    SortSeq(FlattenSeq([i \in DOMAIN calendars |-> CollectBusy(calendars[i], from, to)]), Before)

\* vfreebusy: the window and the periods, written out
Vfreebusy(from, to, periods) ==
    [dtstart |-> FormatDatetime(from), dtend |-> FormatDatetime(to),
     busy |-> [i \in DOMAIN periods |-> <<FormatDatetime(periods[i].s), FormatDatetime(periods[i].e)>>]]

\* time_range, itip_range: both ends, and the end after the start
RangeOf(start, end) == IF start # {} /\ end # {} /\ (CHOOSE x \in end : TRUE) > (CHOOSE x \in start : TRUE)
                       THEN {<<CHOOSE x \in start : TRUE, CHOOSE x \in end : TRUE>>} ELSE {}

\* free_busy_report: the periods of the target; nothing (400) without a range
FreeBusyReport(calendar, start, end) ==
    LET range == RangeOf(start, end)
    IN  {[status |-> 200, body |-> Vfreebusy(w[1], w[2], BusyPeriods(<<calendar>>, w[1], w[2]))] : w \in range}

\* outbox_post, calendar_dirs: those of the root and its children that are calendars
OutboxPost(collections, start, end) ==
    LET range == RangeOf(start, end)
        calendars == SelectSeq(collections, LAMBDA c : c.marked /\ c.depth <= 1)
        lines == [i \in DOMAIN calendars |-> calendars[i].lines]
    IN  {[status |-> 200, body |-> Vfreebusy(w[1], w[2], BusyPeriods(lines, w[1], w[2]))] : w \in range}

----------------------------------------------------------------------------
(* Properties *)

\* DaysFromCivil counts days: the day after the last of a month is the first of
\* the next, and CivilFromDays takes every day back to its date
\* (rrule.rs 84-113).
CalendarExact ==
    \A y \in CalYears, m \in 1..12 :
        /\ DaysFromCivil(y, m, DaysInMonth(y, m)) + 1
             = IF m = 12 THEN DaysFromCivil(y + 1, 1, 1) ELSE DaysFromCivil(y, m + 1, 1)
        /\ \A d \in 1..DaysInMonth(y, m) :
              CivilFromDays(DaysFromCivil(y, m, d)) = [y |-> y, m |-> m, d |-> d]

\* What format_datetime writes, parse_datetime reads back (caldav.rs 383, rrule.rs 54).
FormatParses ==
    \A y \in CalYears \cap 1902..2037, m \in 1..12, d \in {1, 28}, s \in {0, 1, 3599, 3600, 86399} :
        LET t == DaysFromCivil(y, m, d) * Day + s IN ParseDatetime(FormatDatetime(t)) = {t}

\* Occurrences increase, so that expand may stop at the first one past a bound,
\* and it returns exactly the occurrences of the window that COUNT and UNTIL
\* allow; a monthly or yearly series keeps the day of DTSTART in every month that
\* has it (rrule.rs 150-232).
ExpandExact ==
    \A e \in CalEvents, w \in CalWindows : \A r \in e.rule :
      \A at \in {Occurrences(e.start, r)}, first \in {CivilFromSecs(e.start)} :
        LET wanted(n) == /\ \A c \in r.count : n < c
                         /\ \A u \in r.until : at[n] <= u
                         /\ at[n] >= w[1] /\ at[n] < w[2]
        IN  /\ \A n \in 0..CalMax - 1 : at[n] < at[n + 1]
            /\ ToSet(Expand(e.start, e.rule, w[1], w[2])) = {at[n] : n \in {m \in 0..CalMax - 1 : wanted(m)}}
            /\ r.freq \in {"MONTHLY", "YEARLY"} =>
                 \A n \in 0..CalMax - 1 : \A c \in {CivilFromSecs(at[n])} :
                    /\ c.d = IF first.d <= DaysInMonth(c.y, c.m) THEN first.d
                             ELSE DaysInMonth(c.y, c.m)
                    /\ (c.y * 12 + c.m) - (first.y * 12 + first.m)
                         = n * r.interval * (IF r.freq = "YEARLY" THEN 12 ELSE 1)

LinesOf(e) == <<[name |-> "BEGIN:VEVENT", value |-> {}, folded |-> FALSE],
                [name |-> "dtstart", value |-> {e.start}, folded |-> FALSE],
                [name |-> "dtend", value |-> {e.start + e.length}, folded |-> FALSE],
                [name |-> "rrule", value |-> e.rule, folded |-> FALSE],
                [name |-> "END:VEVENT", value |-> {}, folded |-> FALSE]>>

\* A free-busy answer is sorted, stays in the window, and names no time that is
\* not inside an instance of an event (caldav.rs 204-247); a report on a calendar
\* and the Outbox's answer for all of them say the same, and read back as meant.
BusySound ==
    \A e \in CalEvents, f \in CalEvents, w \in CalWindows :
      LET read(p) == [s |-> CHOOSE x \in ParseDatetime(p[1]) : TRUE,
                      e |-> CHOOSE x \in ParseDatetime(p[2]) : TRUE]
          inside(x, p) == \E o \in ToSet(Expand(x.start, x.rule, w[1], w[2])) :
                             p.s >= o /\ p.e <= o + x.length
          collection(depth, marked, x) == [marked |-> marked, depth |-> depth, lines |-> LinesOf(x)]
      IN  \A busy \in {BusyPeriods(<<LinesOf(e), LinesOf(f)>>, w[1], w[2])},
             asked \in {FreeBusyReport(LinesOf(e) \o LinesOf(f), {w[1]}, {w[2]})},
             told \in {OutboxPost(<<collection(1, TRUE, e), collection(1, FALSE, f),
                                    collection(0, TRUE, f)>>, {w[1]}, {w[2]})} :
            /\ \A answer \in asked \cup told :
                  [i \in DOMAIN answer.body.busy |-> read(answer.body.busy[i])] = busy
            /\ asked # {} /\ told # {} /\ FreeBusyReport(LinesOf(e), {w[2]}, {w[1]}) = {}
            /\ \A i \in 1..Len(busy) - 1 : ~Before(busy[i + 1], busy[i])
            /\ \A i \in DOMAIN busy : /\ w[1] <= busy[i].s /\ busy[i].s < busy[i].e /\ busy[i].e <= w[2]
                                      /\ inside(e, busy[i]) \/ inside(f, busy[i])

\* Does not hold: an event under way when the window opens is not reported, since
\* expand wants the start in the window (caldav.rs 238 clamps to it).
BusyComplete ==
    \A e \in CalEvents, w \in CalWindows :
        (e.rule = {} /\ e.start < w[1] /\ e.start + e.length > w[1])
            => BusyPeriods(<<LinesOf(e)>>, w[1], w[2]) # <<>>
=============================================================================

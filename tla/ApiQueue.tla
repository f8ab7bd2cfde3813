------------------------------ MODULE ApiQueue ------------------------------
(***************************************************************************)
(* Sending and looking at the queue over the API: POST /send with the      *)
(* tenant's submission rate (api/v1/send.rs, api/tenant_limits.rs,         *)
(* smtp/ratelimit.rs), the pages of GET /queue (api/v1/queue.rs; those of  *)
(* GET /suppression follow the same cursor, api/v1/suppression.rs) and     *)
(* DELETE /queue/{id}, while the worker delivers what is queued.           *)
(*                                                                         *)
(* Queue ids are numbers: a UUIDv7 sorts by the time it was made.          *)
(***************************************************************************)
EXTENDS Integers, Sequences, FiniteSets, SequencesExt

CONSTANTS
    AqTenants,      \* tenants, by the domain of the sender
    AqPerMin,       \* submission_rate_limit_per_min; 0 never limits
    AqWindow,       \* window_secs of the SendLimiter
    AqPage,         \* the page size asked for, at least 1
    AqMaxIds,       \* bound: messages sent
    AqHorizon       \* bound: clock

VARIABLES
    aqNow,          \* epoch seconds
    aqSpool,        \* ids in the spool
    aqNextId,       \* the id the next message gets
    aqLimit,        \* tenant -> [start, count], start 0 before the first send
    aqRemoving,     \* the id a DELETE has found, 0 for none
    aqPager,        \* the client that follows the cursor
    \* history
    aqSent,         \* the sends accepted: <<tenant, time>>
    aqThroughout,   \* ids queued since the first page was asked for
    aqShown,        \* ids the pages held
    aqTwice         \* an id was shown twice

aqVars == <<aqNow, aqSpool, aqNextId, aqLimit, aqRemoving, aqPager, aqSent, aqThroughout,
            aqShown, aqTwice>>

AqStart == [at |-> "first", cursor |-> 0, page |-> <<>>, more |-> FALSE]

AqInit ==
    /\ aqNow = 1 /\ aqSpool = {} /\ aqNextId = 1
    /\ aqLimit = [t \in AqTenants |-> [start |-> 0, count |-> 0]]
    /\ aqRemoving = 0 /\ aqPager = AqStart
    /\ aqSent = <<>> /\ aqThroughout = {} /\ aqShown = {} /\ aqTwice = FALSE

----------------------------------------------------------------------------
(* The rate *)

\* mutant: the window is taken to be over a second early
LimiterEntryEarly(t) ==
    IF aqLimit[t].start = 0 \/ aqNow - aqLimit[t].start >= AqWindow - 1
    THEN [start |-> aqNow, count |-> 0] ELSE aqLimit[t]

\* SendLimiter::check: the entry, after the window has been restarted where it is over
LimiterEntry(t) ==
    IF aqLimit[t].start = 0 \/ aqNow - aqLimit[t].start >= AqWindow
    THEN [start |-> aqNow, count |-> 0] ELSE aqLimit[t]

\* check_aggregate_rate, for the one tenant of the sender's address
CheckAggregateRate(t) == AqPerMin = 0 \/ LimiterEntry(t).count < AqPerMin

\* send: the rate is consumed before the message is stored, and the store may fail
SendMessage(t) ==
    /\ aqNextId <= AqMaxIds
    /\ CheckAggregateRate(t)
    /\ aqLimit' = [aqLimit EXCEPT ![t] =
            IF AqPerMin = 0 THEN @ ELSE [LimiterEntry(t) EXCEPT !.count = @ + 1]]
    /\ \/ /\ aqSpool' = aqSpool \cup {aqNextId} /\ aqNextId' = aqNextId + 1
          /\ aqSent' = Append(aqSent, <<t, aqNow>>)
       \/ UNCHANGED <<aqSpool, aqNextId, aqSent>>
    /\ UNCHANGED <<aqNow, aqRemoving, aqPager, aqThroughout, aqShown, aqTwice>>

\* send: 429, the restarted window being kept
SendRefused(t) ==
    /\ ~CheckAggregateRate(t)
    /\ aqLimit' = [aqLimit EXCEPT ![t] = LimiterEntry(t)]
    /\ UNCHANGED <<aqNow, aqSpool, aqNextId, aqRemoving, aqPager, aqSent, aqThroughout, aqShown,
                   aqTwice>>

----------------------------------------------------------------------------
(* The queue *)

\* external: the worker delivers an entry and removes it
DeliverEntry(id) ==
    /\ id \in aqSpool /\ aqSpool' = aqSpool \ {id}
    /\ aqThroughout' = aqThroughout \ {id}
    /\ UNCHANGED <<aqNow, aqNextId, aqLimit, aqRemoving, aqPager, aqSent, aqShown, aqTwice>>

\* queue::remove loads the entry first: 404
RemoveFinds(id) ==
    /\ aqRemoving = 0 /\ id \in aqSpool /\ aqRemoving' = id
    /\ UNCHANGED <<aqNow, aqSpool, aqNextId, aqLimit, aqPager, aqSent, aqThroughout, aqShown, aqTwice>>

\* and removes it then: an entry gone by now answers 500
RemoveEntry ==
    /\ aqRemoving # 0 /\ aqRemoving' = 0
    /\ aqSpool' = aqSpool \ {aqRemoving}
    /\ aqThroughout' = aqThroughout \ {aqRemoving}
    /\ UNCHANGED <<aqNow, aqNextId, aqLimit, aqPager, aqSent, aqShown, aqTwice>>

\* mutant: the cursor is the first id of the next page, and the page starts after it
PageAfterNext(ids, cursor, limit) ==
    LET start == Cardinality({i \in DOMAIN ids : ids[i] <= cursor})
        page  == SubSeq(ids, start + 1, IF start + limit < Len(ids) THEN start + limit ELSE Len(ids))
    IN  [page   |-> page,
         more   |-> start + Len(page) < Len(ids),
         cursor |-> IF start + Len(page) < Len(ids) THEN ids[start + Len(page) + 1] ELSE 0]

\* the page of queue::list and suppression::list: partition_point, skip, take, next_cursor
PageAfter(ids, cursor, limit) ==
    LET start == Cardinality({i \in DOMAIN ids : ids[i] <= cursor})
        page  == SubSeq(ids, start + 1, IF start + limit < Len(ids) THEN start + limit ELSE Len(ids))
        more  == start + Len(page) < Len(ids)
    IN  [page |-> page, more |-> more, cursor |-> IF more THEN page[Len(page)] ELSE 0]

\* queue::list: the ids of the spool, and which of them make the page
ListPage ==
    /\ aqPager.at \in {"first", "next"}
    /\ LET p == PageAfter(SetToSortSeq(aqSpool, <), aqPager.cursor, AqPage)
       IN  aqPager' = [at |-> "load", cursor |-> p.cursor, page |-> p.page, more |-> p.more]
    /\ aqThroughout' = IF aqPager.at = "first" THEN aqSpool ELSE aqThroughout
    /\ UNCHANGED <<aqNow, aqSpool, aqNextId, aqLimit, aqRemoving, aqSent, aqShown, aqTwice>>

\* queue::list: each of them is loaded, one that has vanished left out
LoadPage ==
    /\ aqPager.at = "load"
    /\ LET entries == {aqPager.page[i] : i \in DOMAIN aqPager.page} \cap aqSpool
       IN  /\ aqShown' = aqShown \cup entries
           /\ aqTwice' = (aqTwice \/ entries \cap aqShown # {})
    /\ aqPager' = [aqPager EXCEPT !.at = IF aqPager.more THEN "next" ELSE "done", !.page = <<>>]
    /\ UNCHANGED <<aqNow, aqSpool, aqNextId, aqLimit, aqRemoving, aqSent, aqThroughout>>

AqTick ==
    /\ aqNow < AqHorizon /\ aqNow' = aqNow + 1
    /\ UNCHANGED <<aqSpool, aqNextId, aqLimit, aqRemoving, aqPager, aqSent, aqThroughout, aqShown,
                   aqTwice>>

AqNext ==
    \/ \E t \in AqTenants : SendMessage(t) \/ SendRefused(t)
    \/ \E id \in aqSpool : DeliverEntry(id) \/ RemoveFinds(id)
    \/ RemoveEntry \/ ListPage \/ LoadPage \/ AqTick

----------------------------------------------------------------------------
(* Properties *)

AqTypeOK ==
    /\ aqSpool \subseteq 1..AqMaxIds /\ aqNextId \in 1..AqMaxIds + 1
    /\ aqPager.at \in {"first", "load", "next", "done"}
    /\ \A t \in AqTenants : aqLimit[t].start \in 0..AqHorizon /\ aqLimit[t].count \in 0..AqMaxIds

SentSince(t, from) ==
    Cardinality({i \in DOMAIN aqSent : aqSent[i][1] = t /\ aqSent[i][2] >= from
                                       /\ aqSent[i][2] < from + AqWindow})

\* A tenant never sends twice its limit within the length of a window.  The window restarts at
\* the first send after it is over (ratelimit.rs:49), so more than the limit is possible.
RateBounded ==
    AqPerMin > 0 => \A t \in AqTenants, from \in 1..aqNow : SentSince(t, from) <= 2 * AqPerMin - 1

\* ratelimit.rs:24 calls the window sliding.  (Violated: it is not.)
RateSlides ==
    AqPerMin > 0 => \A t \in AqTenants, from \in 1..aqNow : SentSince(t, from) <= AqPerMin

\* A client that follows the cursor to its end has seen every entry that was queued from its
\* first page to its last, whatever was sent, delivered or removed in between, and none twice.
PagesComplete == (aqPager.at = "done" => aqThroughout \subseteq aqShown) /\ ~aqTwice

AqSpec == AqInit /\ [][AqNext]_aqVars
=============================================================================

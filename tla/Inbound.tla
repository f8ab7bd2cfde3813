------------------------------ MODULE Inbound ------------------------------
(***************************************************************************)
(* What becomes of a message after its last octet: the Deliver arm of      *)
(* smtp/server/run.rs (screening), SplitDelivery of storage/routing.rs     *)
(* (local, remote and returned recipients) and LocalDelivery of            *)
(* storage/delivery.rs (one account after the other, each with its Sieve   *)
(* filter, forwarding and vacation), up to the reply; and the sending      *)
(* client, which tries again after a 4xx or a lost connection.             *)
(*                                                                         *)
(* Every copy written to a mailbox and every message stored in the spool   *)
(* is a step of its own that may fail, and the process may die between     *)
(* any two.  DNS, the scanner, the LLM, the reputation and the corpus are  *)
(* verdicts chosen freely; what the corpus, the reputation and the DMARC   *)
(* reports learn only feeds those verdicts and is left out.                *)
(***************************************************************************)
EXTENDS Integers, Sequences, FiniteSets

CONSTANTS
    Conns,          \* connections; each carries one message, all from one client
    Mails,          \* Mails[c]: the messages they may carry
    NullSender,     \* the empty reverse-path
    Accounts,       \* accounts, ordered as the BTreeSet of their names is
    Members,        \* Members[r]: accounts the directory gives for recipient r
    Aliases,        \* recipients that are multi-target aliases
    Lists,          \* aliases with a list id
    Remote,         \* recipients of other domains
    SrsReturns,     \* recipients that are SRS-return addresses of ours
    Scripts,        \* Scripts[a]: what a's filter may do with a message
    NoFilter,       \* no filter, or one that does not parse
    Forwarding,     \* Forwarding[a]: "none", "also" (keep_local) or "only"
    SafeNames,      \* mailbox names is_safe_mailbox accepts
    HopLimit,       \* RECEIVED_HOP_LIMIT
    MaxForwardHops, \* MAX_FORWARD_HOPS
    GreylistDelay,  \* greylist_delay_secs; 0 disables greylisting
    GreylistAge,    \* the age from which prune drops a triplet
    VacationDays,   \* days between two autoresponses to one sender
    MaxFaults,      \* bound: failed writes, lost replies and crashes
    Removable,      \* bound: accounts that may be removed
    MaxAttempts,    \* bound: attempts per message
    MaxTime         \* bound

ASSUME InboundAssumption ==
    /\ Accounts \subseteq Nat \ {0}
    /\ \A r \in DOMAIN Members : Members[r] \subseteq Accounts
    /\ Forwarding \in [Accounts -> {"none", "also", "only"}]
    /\ {HopLimit, MaxForwardHops, GreylistDelay, GreylistAge, VacationDays} \subseteq Nat
    /\ {MaxFaults, MaxTime} \subseteq Nat /\ MaxAttempts \in [Conns -> Nat]
    /\ Removable \subseteq Accounts
    /\ "Rejects" \in SafeNames
ASSUME MailsAssumption ==
    \A c \in Conns : \A m \in Mails[c] :
        /\ m.rcpts \in Seq(DOMAIN Members) \ {<<>>}
        /\ m.hops \in Nat /\ m.auth \in BOOLEAN
        \* only an authenticated client may relay
        /\ (\E i \in DOMAIN m.rcpts : m.rcpts[i] \in Remote) => m.auth
\* What a filter executes: commands, their argument and whether they say :copy.
ASSUME ScriptsAssumption ==
    \A a \in Accounts : Scripts[a] \subseteq Seq([do : STRING, to : STRING, copy : BOOLEAN])

VARIABLES
    pc, mail,       \* where the handler of a connection is; its message
    box,            \* message.mailbox: "none", or where screening or a rule put it
    left,           \* accounts still to be served
    boxes,          \* copies still to be written for the account in hand: <<place, mailbox>>
    plan,           \* Delivered: what the accounts served so far ask for
    todo,           \* messages still to be stored in the spool
    answer,         \* "none", "250", "4xx", "5xx", or "cut": no reply
    live,           \* accounts the directory knows
    firstSeen,      \* MemoryGreylist: triplet -> time
    marker,         \* .vacation markers: <<account, sender>> -> time of the last reply
    clock,
    made,           \* made[c][t]: files t written because of c's message, ever
    attempts, faults,   \* for the bounds
    \* history
    served,         \* accounts the attempt in hand resolved the recipients to
    suspect,        \* connections whose attempt was quarantined
    spread,         \* the files the attempt in hand has written
    asked,          \* <<"reject" or "waive", account>>: what filters asked for
    firstTry,       \* triplet -> time of the first attempt ever
    answered,       \* <<account, sender>> -> times autoresponses were decided
    raced           \* deliveries read one marker at once, or one was not written

request == <<mail, attempts>>
progress == <<box, left, boxes, plan, todo>>
world == <<live, firstSeen, marker, clock>>
effects == <<made, spread>>
history == <<served, suspect, asked, firstTry, answered, raced>>
vars == <<pc, answer, request, progress, world, effects, history, faults>>

Boxes == {"INBOX"} \cup SafeNames
Messages == UNION {Mails[c] : c \in Conns}
Senders == {m.from : m \in Messages}
Keys == Senders \X DOMAIN Members
Correspondents == Accounts \X Senders
NoAccount == 0
\* A copy in a mailbox, or a message in the spool, with the account behind it.
Copies == Boxes \X Accounts
Things == Copies \cup ({"redirect", "forward", "reply"} \X Accounts)
                 \cup ({"bounce", "return", "relay"} \X {NoAccount})
Plans == [redirects : Seq({"redirect", "forward"} \X Accounts), reject : BOOLEAN,
          vacation : BOOLEAN, replies : Seq({"reply"} \X Accounts)]
Nothing == [redirects |-> <<>>, reject |-> FALSE, vacation |-> FALSE, replies |-> <<>>]
Never == -1

Key(m) == <<m.from, m.rcpts[1]>>
Rcpts(m) == {m.rcpts[i] : i \in DOMAIN m.rcpts}
InHand(c) == CHOOSE a \in left[c] : \A b \in left[c] : a <= b
Who(c) == <<InHand(c), mail[c].from>>
FirstBox(c) == CHOOSE b \in boxes[c] : \A d \in boxes[c] : b[1] <= d[1]

Goto(c, p) == pc' = [pc EXCEPT ![c] = p] /\ UNCHANGED answer
Reply(c, code) ==
    /\ pc' = [pc EXCEPT ![c] = "done"]
    /\ answer' = [answer EXCEPT ![c] = code]
Fault == faults < MaxFaults /\ faults' = faults + 1

(***************************************************************************)
(* Screening.                                                              *)
(***************************************************************************)

\* An attempt begins: the client has sent the whole message.
Begin(c) ==
    /\ pc[c] = "idle" /\ attempts[c] < MaxAttempts[c]
    /\ pc' = [pc EXCEPT ![c] = "hops"]
    /\ answer' = [answer EXCEPT ![c] = "none"]
    /\ box' = [box EXCEPT ![c] = "none"]
    /\ left' = [left EXCEPT ![c] = {}]
    /\ boxes' = [boxes EXCEPT ![c] = {}]
    /\ plan' = [plan EXCEPT ![c] = Nothing]
    /\ todo' = [todo EXCEPT ![c] = <<>>]
    /\ attempts' = [attempts EXCEPT ![c] = @ + 1]
    /\ spread' = [spread EXCEPT ![c] = {}]
    /\ asked' = [asked EXCEPT ![c] = {}]
    /\ served' = [served EXCEPT ![c] = {}]
    /\ suspect' = suspect \ {c}
    /\ firstTry' = [firstTry EXCEPT ![Key(mail[c])] = IF @ = Never THEN clock ELSE @]
    /\ UNCHANGED <<mail, world, made, answered, raced, faults>>

\* A screening step that only decides where to go.
Screening == UNCHANGED <<request, left, boxes, plan, todo, world, effects,
                         served, asked, firstTry, answered, raced, faults>>
NotPlaced == UNCHANGED <<box, suspect>>
Quarantine(c) == box' = [box EXCEPT ![c] = "Rejects"] /\ suspect' = suspect \cup {c}

\* The loop guard; an authenticated client is screened no further.
Hops(c) ==
    /\ pc[c] = "hops"
    /\ IF mail[c].hops >= HopLimit
         THEN Reply(c, "5xx")
         ELSE Goto(c, IF mail[c].auth THEN "route" ELSE "dnsbl")
    /\ NotPlaced /\ Screening

\* Listed on a blocklist, or not (no zone configured, no answer).
Dnsbl(c) ==
    /\ pc[c] = "dnsbl"
    /\ Reply(c, "5xx") \/ Goto(c, "greylist")
    /\ NotPlaced /\ Screening

\* Mutant: a triplet seen before is accepted at once.
DecideNoDelay(seen, now) == seen # Never

\* Whether a triplet first seen at the given time is let through.
Decide(seen, now) == seen # Never /\ now - seen >= GreylistDelay

\* The triplet is the client, the sender and the first recipient only.
Greylist(c) ==
    /\ pc[c] = "greylist"
    /\ LET key == Key(mail[c]) IN
       IF GreylistDelay = 0 \/ Decide(firstSeen[key], clock)
         THEN Goto(c, "authenticate") /\ UNCHANGED firstSeen
         ELSE /\ Reply(c, "4xx")
              /\ firstSeen' = [firstSeen EXCEPT ![key] = IF @ = Never THEN clock ELSE @]
    /\ UNCHANGED <<request, progress, live, marker, clock, effects, history, faults>>

\* SPF, DKIM and DMARC: refused, deferred, or stamped and passed on.
Authenticate(c) ==
    /\ pc[c] = "authenticate"
    /\ Reply(c, "5xx") \/ Reply(c, "4xx") \/ Goto(c, "reputation")
    /\ NotPlaced /\ Screening

\* A sender domain of poor reputation is quarantined; a null sender has none.
Reputation(c) ==
    /\ pc[c] = "reputation"
    /\ Goto(c, "hook")
    /\ NotPlaced \/ (mail[c].from # NullSender /\ Quarantine(c))
    /\ Screening

\* The scanner rejects, quarantines or accepts (also when it fails).
Hook(c) ==
    /\ pc[c] = "hook"
    /\ \/ Reply(c, "5xx") /\ NotPlaced
       \/ Goto(c, "llm") /\ (NotPlaced \/ Quarantine(c))
    /\ Screening

\* The LLM may quarantine, never reject.
Llm(c) ==
    /\ pc[c] = "llm"
    /\ Goto(c, "route")
    /\ NotPlaced \/ Quarantine(c)
    /\ Screening

(***************************************************************************)
(* Routing.                                                                *)
(***************************************************************************)

\* An alias keeps the members that still exist; an address needs its account.
Resolves(r) == r \in Remote \cup SrsReturns \cup Aliases \/ Members[r] \subseteq live
Local(m) == Rcpts(m) \ (Remote \cup SrsReturns)
AccountsFor(m) == UNION {Members[r] \cap live : r \in Local(m)}

\* Mutant: a rule is applied to mail that screening has placed.
TargetRuleFirst(m, b) == IF m.rule # "none" THEN m.rule ELSE b

\* The rules apply only to mail that screening did not place.
Target(m, b) == IF b = "none" THEN m.rule ELSE b

\* Mutant: the name of the mailbox is not checked.
UnroutableAnyName(m, b) ==
    \/ \E r \in Rcpts(m) : ~Resolves(r)
    \/ Local(m) # {} /\ AccountsFor(m) = {}

\* A recipient is gone, an alias has nobody left, or the mailbox is no path segment.
Unroutable(m, b) ==
    \/ \E r \in Rcpts(m) : ~Resolves(r)
    \/ Local(m) # {} /\ (b \notin SafeNames \cup {"none"} \/ AccountsFor(m) = {})

\* Every recipient is sorted, and every local one resolved, before anything
\* is written.
Route(c) ==
    LET m == mail[c]
        b == Target(m, box[c])
    IN  /\ pc[c] = "route"
        /\ IF Unroutable(m, b)
             THEN Reply(c, "4xx") /\ UNCHANGED <<box, left, served>>
             ELSE /\ Goto(c, "local")
                  /\ box' = [box EXCEPT ![c] = b]
                  /\ left' = [left EXCEPT ![c] = AccountsFor(m)]
                  /\ served' = [served EXCEPT ![c] = AccountsFor(m)]
        /\ UNCHANGED <<request, boxes, plan, todo, world, effects, suspect, asked,
                        firstTry, answered, raced, faults>>

(***************************************************************************)
(* Local delivery, one account after the other.                            *)
(***************************************************************************)

Does(script, verb) == {i \in DOMAIN script : script[i].do = verb}

\* discard and reject cancel the implicit keep, and so does a copy or redirect
\* without :copy.
Cancels(script) ==
    \E i \in DOMAIN script :
        \/ script[i].do \in {"discard", "reject"}
        \/ script[i].do \in {"fileinto", "redirect"} /\ ~script[i].copy

\* Mutant: a redirect is pushed, and pushed again where :copy is looked at.
EvaluateRedirectTwice(script) ==
    [keep |-> Does(script, "keep") # {} \/ ~Cancels(script),
     folders |-> {<<i, script[i].to>> : i \in Does(script, "fileinto")},
     redirects |-> Cardinality(Does(script, "redirect"))
                   + Cardinality({i \in Does(script, "redirect") : script[i].copy}),
     reject |-> Does(script, "reject") # {}, vacation |-> Does(script, "vacation") # {},
     discarded |-> Does(script, "discard") # {}]

\* The commands a script executes up to its end or a stop, as an outcome: the
\* implicit keep applies unless a command cancelled it.
Evaluate(script) ==
    [keep |-> Does(script, "keep") # {} \/ ~Cancels(script),
     folders |-> {<<i, script[i].to>> : i \in Does(script, "fileinto")},
     redirects |-> Cardinality(Does(script, "redirect")),
     reject |-> Does(script, "reject") # {}, vacation |-> Does(script, "vacation") # {},
     discarded |-> Does(script, "discard") # {}]

\* Mutant: bounces are forwarded too.
ForwardsBounces(m, a) ==
    IF a \in live /\ Forwarding[a] # "none" /\ m.hops + 1 <= MaxForwardHops
      THEN <<<<"forward", a>>>> ELSE <<>>

\* account_forwards: none for a null sender or after too many hops (our own
\* Received header is already on the message).
Forwards(m, a) ==
    IF /\ a \in live /\ Forwarding[a] # "none"
       /\ m.from # NullSender /\ m.hops + 1 <= MaxForwardHops
      THEN <<<<"forward", a>>>> ELSE <<>>

KeepLocal(a) == a \notin live \/ Forwarding[a] # "only"

\* The copy in INBOX is written before those a filter files.
Inbox == <<0, "INBOX">>

\* Mutant: pure forwarding keeps no copy even when nothing is forwarded.
WithoutFilterNoCopy(m, a) ==
    [copies |-> IF KeepLocal(a) THEN {Inbox} ELSE {},
     redirects |-> Forwards(m, a), reject |-> FALSE, vacation |-> FALSE, asked |-> {}]

\* What deliver_for_account does for an account without a filter.
WithoutFilter(m, a) ==
    [copies |-> IF KeepLocal(a) \/ Forwards(m, a) = <<>> THEN {Inbox} ELSE {},
     redirects |-> Forwards(m, a), reject |-> FALSE, vacation |-> FALSE, asked |-> {}]

\* And with one: the copies to write, then redirects, a rejection or a vacation
\* reply.  A folder whose name is not safe is skipped.
Filtered(m, a, script) ==
    LET o == Evaluate(script)
        null == m.from = NullSender
    IN  IF o.reject
          THEN [copies |-> {}, redirects |-> <<>>, reject |-> ~null, vacation |-> FALSE,
                asked |-> {<<IF null THEN "waive" ELSE "reject", a>>}]
          ELSE [copies |-> (IF o.keep THEN {Inbox} ELSE {})
                             \cup {f \in o.folders : f[2] \in SafeNames},
                redirects |-> (IF null THEN <<>> ELSE [i \in 1 .. o.redirects |-> <<"redirect", a>>])
                             \o Forwards(m, a),
                reject |-> FALSE, vacation |-> o.vacation,
                asked |-> IF o.discarded \/ (null /\ o.redirects > 0)
                            THEN {<<"waive", a>>} ELSE {}]

\* An admin rule or a quarantine decides alone.
Hinted(a, b) ==
    [copies |-> {<<0, b>>}, redirects |-> <<>>, reject |-> FALSE, vacation |-> FALSE, asked |-> {}]

ForAccount(m, a, hint, script) ==
    IF hint # "none" THEN Hinted(a, hint)
    ELSE IF script = NoFilter THEN WithoutFilter(m, a)
    ELSE Filtered(m, a, script)

Serve(c) ==
    /\ pc[c] = "local" /\ left[c] # {}
    /\ Goto(c, "copy")
    /\ \E script \in Scripts[InHand(c)] :
         LET one == ForAccount(mail[c], InHand(c), box[c], script)
         IN  /\ boxes' = [boxes EXCEPT ![c] = one.copies]
             /\ plan' = [plan EXCEPT ![c] =
                   [redirects |-> @.redirects \o one.redirects, reject |-> @.reject \/ one.reject,
                    vacation |-> one.vacation, replies |-> @.replies]]
             /\ asked' = [asked EXCEPT ![c] = @ \cup one.asked]
    /\ UNCHANGED <<request, box, left, todo, world, effects, served, suspect, firstTry,
                    answered, raced, faults>>

\* A file is written: a copy in a mailbox, or a message in the spool.
Make(c, t) ==
    /\ made' = [made EXCEPT ![c][t] = @ + 1]
    /\ spread' = [spread EXCEPT ![c] = @ \cup {t}]

\* The rename that makes a copy visible.
WriteCopy(c) ==
    /\ pc[c] = "copy" /\ boxes[c] # {}
    /\ Make(c, <<FirstBox(c)[2], InHand(c)>>)
    /\ boxes' = [boxes EXCEPT ![c] = @ \ {FirstBox(c)}]
    /\ UNCHANGED <<pc, answer, request, box, left, plan, todo, world, history, faults>>

\* An I/O error on the way to it: the remaining accounts are not served.
WriteFails(c) ==
    /\ pc[c] = "copy" /\ boxes[c] # {}
    /\ Fault /\ Reply(c, "4xx")
    /\ UNCHANGED <<request, progress, world, effects, history>>

NextAccount(c) == Goto(c, "local") /\ left' = [left EXCEPT ![c] = @ \ {InHand(c)}]

CopiesDone(c) ==
    /\ pc[c] = "copy" /\ boxes[c] = {}
    /\ IF plan[c].vacation THEN Goto(c, "vacation") /\ UNCHANGED left ELSE NextAccount(c)
    /\ UNCHANGED <<request, box, boxes, plan, todo, world, effects, history, faults>>

\* No autoresponse to bounces, automated mail and lists: every copy carries the
\* List-* headers if any recipient is a list.
Suppressed(m) == m.from = NullSender \/ m.automated \/ Local(m) \cap Lists # {}

\* Mutant: the age of the marker is not looked at.
DueAlways(seen) == seen = Never \/ clock >= seen

\* vacation_should_reply: no reply within the last days.
Due(seen) == seen = Never \/ clock - seen >= VacationDays

VacationCheck(c) ==
    /\ pc[c] = "vacation"
    /\ IF ~Suppressed(mail[c]) /\ Due(marker[Who(c)])
         THEN /\ Goto(c, "mark") /\ UNCHANGED left
              /\ raced' = (raced \/ \E d \in Conns : pc[d] = "mark" /\ Who(d) = Who(c))
         ELSE NextAccount(c) /\ UNCHANGED raced
    /\ UNCHANGED <<request, box, boxes, plan, todo, world, effects, served, suspect, asked,
                    firstTry, answered, faults>>

\* The marker is touched (a failure is ignored) and the reply built.
VacationMark(c) ==
    /\ pc[c] = "mark"
    /\ \/ /\ marker' = [marker EXCEPT ![Who(c)] = clock]
          /\ UNCHANGED <<raced, faults>>
       \/ /\ Fault /\ raced' = TRUE
          /\ UNCHANGED marker
    /\ answered' = [answered EXCEPT ![Who(c)] = Append(@, clock)]
    /\ plan' = [plan EXCEPT ![c].replies = Append(@, <<"reply", InHand(c)>>)]
    /\ NextAccount(c)
    /\ UNCHANGED <<request, box, boxes, todo, live, firstSeen, clock, effects, served, suspect,
                    asked, firstTry>>

(***************************************************************************)
(* The spool, and the reply.                                               *)
(***************************************************************************)

\* One bounce for all local recipients that want one, whoever rejected.
Bounce(m, p) ==
    IF p.reject /\ ~(Local(m) \subseteq m.noDsn) THEN <<<<"bounce", NoAccount>>>> ELSE <<>>
Returns(m) ==
    [i \in 1 .. Cardinality({j \in DOMAIN m.rcpts : m.rcpts[j] \in SrsReturns})
        |-> <<"return", NoAccount>>]
Relay(m) == IF Rcpts(m) \cap Remote # {} THEN <<<<"relay", NoAccount>>>> ELSE <<>>

Queued(m, p) == Bounce(m, p) \o p.redirects \o p.replies \o Returns(m) \o Relay(m)

Enqueue(c) ==
    /\ pc[c] = "local" /\ left[c] = {}
    /\ Goto(c, "spool")
    /\ todo' = [todo EXCEPT ![c] = Queued(mail[c], plan[c])]
    /\ UNCHANGED <<request, box, left, boxes, plan, world, effects, history, faults>>

StoreNext(c) ==
    /\ pc[c] = "spool" /\ todo[c] # <<>>
    /\ Make(c, Head(todo[c]))
    /\ todo' = [todo EXCEPT ![c] = Tail(@)]
    /\ UNCHANGED <<pc, answer, request, box, left, boxes, plan, world, history, faults>>

StoreFails(c) ==
    /\ pc[c] = "spool" /\ todo[c] # <<>>
    /\ Fault /\ Reply(c, "4xx")
    /\ UNCHANGED <<request, progress, world, effects, history>>

\* The reply, which may not reach the client.
Accept(c) ==
    /\ pc[c] = "spool" /\ todo[c] = <<>>
    /\ \/ Reply(c, "250") /\ UNCHANGED faults
       \/ Reply(c, "cut") /\ Fault
    /\ UNCHANGED <<request, progress, world, effects, history>>

(***************************************************************************)
(* The client, the directory, the clock and the process.                   *)
(***************************************************************************)
Retry(c) ==
    /\ pc[c] = "done" /\ answer[c] \in {"4xx", "cut"}
    /\ Goto(c, "idle")
    /\ UNCHANGED <<request, progress, world, effects, history, faults>>

RemoveAccount(a) ==
    /\ a \in live \cap Removable
    /\ live' = live \ {a}
    /\ UNCHANGED <<pc, answer, request, progress, firstSeen, marker, clock, effects, history, faults>>

\* The hourly prune of the greylist.
Prune ==
    /\ \E k \in Keys : firstSeen[k] # Never /\ clock - firstSeen[k] >= GreylistAge
    /\ firstSeen' = [k \in Keys |-> IF clock - firstSeen[k] >= GreylistAge
                                     THEN Never ELSE firstSeen[k]]
    /\ UNCHANGED <<pc, answer, request, progress, live, marker, clock, effects, history, faults>>

\* The process dies: no connection gets an answer, the greylist is forgotten.
Crash ==
    LET open == {c \in Conns : pc[c] \notin {"idle", "done"}}
    IN  /\ Fault
        /\ open # {}
        /\ pc' = [c \in Conns |-> IF c \in open THEN "done" ELSE pc[c]]
        /\ answer' = [c \in Conns |-> IF c \in open THEN "cut" ELSE answer[c]]
        /\ firstSeen' = [k \in Keys |-> Never]
        /\ UNCHANGED <<request, progress, live, marker, clock, effects, history>>

Tick ==
    /\ clock < MaxTime
    /\ clock' = clock + 1
    /\ UNCHANGED <<pc, answer, request, progress, live, firstSeen, marker, effects, history, faults>>

Init ==
    /\ pc = [c \in Conns |-> "idle"]
    /\ answer = [c \in Conns |-> "none"]
    /\ mail \in {f \in [Conns -> Messages] : \A c \in Conns : f[c] \in Mails[c]}
    /\ attempts = [c \in Conns |-> 0]
    /\ box = [c \in Conns |-> "none"]
    /\ left = [c \in Conns |-> {}]
    /\ boxes = [c \in Conns |-> {}]
    /\ plan = [c \in Conns |-> Nothing]
    /\ todo = [c \in Conns |-> <<>>]
    /\ live = Accounts
    /\ firstSeen = [k \in Keys |-> Never]
    /\ marker = [w \in Correspondents |-> Never]
    /\ clock = 0
    /\ made = [c \in Conns |-> [t \in Things |-> 0]]
    /\ spread = [c \in Conns |-> {}]
    /\ served = [c \in Conns |-> {}]
    /\ suspect = {}
    /\ asked = [c \in Conns |-> {}]
    /\ firstTry = [k \in Keys |-> Never]
    /\ answered = [w \in Correspondents |-> <<>>]
    /\ raced = FALSE
    /\ faults = 0

Screen(c) == Hops(c) \/ Dnsbl(c) \/ Greylist(c) \/ Authenticate(c) \/ Reputation(c) \/ Hook(c) \/ Llm(c)
Deliver(c) ==
    \/ Route(c) \/ Serve(c) \/ WriteCopy(c) \/ WriteFails(c) \/ CopiesDone(c)
    \/ VacationCheck(c) \/ VacationMark(c)
    \/ Enqueue(c) \/ StoreNext(c) \/ StoreFails(c) \/ Accept(c)
Next ==
    \/ \E c \in Conns : Begin(c) \/ Screen(c) \/ Deliver(c) \/ Retry(c)
    \/ \E a \in Accounts : RemoveAccount(a)
    \/ Prune \/ Crash \/ Tick

Spec == Init /\ [][Next]_vars

(***************************************************************************)
(* Properties.                                                             *)
(***************************************************************************)
Stages == {"idle", "hops", "dnsbl", "greylist", "authenticate", "reputation", "hook", "llm",
           "route", "local", "copy", "vacation", "mark", "spool", "done"}
Times == 0 .. MaxTime

\* Type invariant: the values the handlers of run.rs, routing.rs and
\* delivery.rs keep, and that an account is in hand at every step that needs
\* one.
TypeOK ==
    /\ pc \in [Conns -> Stages]
    /\ answer \in [Conns -> {"none", "250", "4xx", "5xx", "cut"}]
    /\ mail \in [Conns -> Messages] /\ \A c \in Conns : mail[c] \in Mails[c]
    /\ left \in [Conns -> SUBSET Accounts] /\ served \in [Conns -> SUBSET Accounts]
    /\ boxes \in [Conns -> SUBSET (Nat \X Boxes)]
    /\ plan \in [Conns -> Plans]
    /\ todo \in [Conns -> Seq(Things)]
    /\ DOMAIN box = Conns
    /\ \A c \in Conns : left[c] # {} => box[c] \in SafeNames \cup {"none"}
    /\ \A c \in Conns : pc[c] \in {"copy", "vacation", "mark"} => left[c] # {}
    /\ live \subseteq Accounts
    /\ firstSeen \in [Keys -> Times \cup {Never}] /\ firstTry \in [Keys -> Times \cup {Never}]
    /\ marker \in [Correspondents -> Times \cup {Never}]
    /\ answered \in [Correspondents -> Seq(Times)]
    /\ made \in [Conns -> [Things -> Nat]]
    /\ spread \in [Conns -> SUBSET Things]
    /\ asked \in [Conns -> SUBSET ({"reject", "waive"} \X Accounts)]
    /\ suspect \subseteq Conns /\ raced \in BOOLEAN
    /\ attempts \in [Conns -> Nat] /\ faults \in 0 .. MaxFaults /\ clock \in Times

\* The sender learns of a rejection unless it asked for no notice.
Told(c) == <<"bounce", NoAccount>> \in spread[c] \/ Local(mail[c]) \subseteq mail[c].noDsn

\* Once the client has its 250, every account the recipients resolved to has a
\* copy, or the message is on its way elsewhere, or the sender was told, or the
\* account's filter gave it up: a deliver that returns Ok has dropped nothing
\* (storage/delivery.rs, storage/routing.rs).
NothingDropped ==
    \A c \in Conns : answer[c] = "250" => \A a \in served[c] :
        \/ \E b \in Boxes : <<b, a>> \in spread[c]
        \/ {<<"redirect", a>>, <<"forward", a>>} \cap spread[c] # {}
        \/ <<"reject", a>> \in asked[c] /\ Told(c)
        \/ <<"waive", a>> \in asked[c]

\* However often the client retries, a mailbox or a correspondent gets a second
\* copy only because a write failed, a reply was lost or the process died: the
\* recipients are resolved before the first copy is written (routing.rs, the
\* loop over recipients), so a directory that changes causes no duplicates.
OneCopyEach == \A c \in Conns : \A t \in Things : made[c][t] <= 1 + faults

\* A quarantined message stays in Rejects: no filter, rule, forward, bounce or
\* autoresponse takes it elsewhere (the hint of deliver_for_account).
QuarantineContained ==
    \A c \in suspect : spread[c] \subseteq {"Rejects"} \X Accounts \cup {<<"return", NoAccount>>}

\* A bounce (null sender) is never bounced, redirected, forwarded or answered.
NoBackscatter ==
    \A c \in Conns : mail[c].from = NullSender =>
        spread[c] \subseteq Copies \cup ({"return", "relay"} \X {NoAccount})

\* Two autoresponses of an account to one sender are at least VacationDays
\* apart, over restarts too, unless two deliveries looked at the marker together
\* or it could not be written (vacation_should_reply).
VacationOnce ==
    raced \/ \A w \in Correspondents : \A i, j \in DOMAIN answered[w] :
        i < j => answered[w][j] - answered[w][i] >= VacationDays

\* Nothing of an unauthenticated message is written before the greylisting
\* delay has passed since the client's first attempt, whatever the prune and
\* restarts do to the table (antispam/greylist.rs decide).
GreylistHeld ==
    \A c \in Conns : ~mail[c].auth /\ spread[c] # {} =>
        clock - firstTry[Key(mail[c])] >= GreylistDelay

\* What is sent back or held back because of a message: no backscatter, one
\* autoresponse per correspondent and period, and the greylisting delay
\* (routing.rs, vacation.rs, greylist.rs).
RepliesRight == NoBackscatter /\ VacationOnce /\ GreylistHeld
============================================================================

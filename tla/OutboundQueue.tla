--------------------------- MODULE OutboundQueue ---------------------------
(***************************************************************************)
(* The outbound queue: the worker of queue/worker.rs draining the spool,   *)
(* the suppression list of queue/suppression.rs, and the operator requests *)
(* that remove entries or suppressions while the worker runs.              *)
(*                                                                         *)
(* The worker is one sequential task; wpc is its program counter.  Its     *)
(* file-system calls, its calls of the bounce sink and its conversations   *)
(* with remote exchangers are separate steps.  A conversation is not       *)
(* followed on the wire: it ends in one of the results client::deliver     *)
(* returns, or never ends when the remote is silent.                       *)
(***************************************************************************)
EXTENDS Spool

CONSTANTS
    Domains,        \* recipient domains, ordered as the BTreeMap keys are
    DomainOf,       \* DomainOf[r]: the domain of recipient r
    Unparseable,    \* recipients Address::parse refuses
    FailDomains,    \* domains a "fail" transport rule matches
    RelayDomains,   \* domains routed to a smarthost, perhaps through a proxy
    BackoffBase, BackoffCap,   \* BACKOFF_BASE_SECS, BACKOFF_CAP_SECS
    MaxAge, WarnAge,           \* give-up window, DELAY_WARNING_SECS
    Removable,      \* ids an operator may remove while they are queued
    Clearable,      \* recipients whose suppressions the operator may clear meanwhile
    MaxFaults       \* bound: crashes and I/O errors together

ASSUME DomainsAssumption == Domains \subseteq Nat /\ DomainOf \in [Recipients -> Domains]
ASSUME TimesAssumption == {BackoffBase, BackoffCap, MaxAge, WarnAge} \subseteq Nat

VARIABLES
    wpc,            \* where the worker is
    passNow,        \* the time the pass sampled when it began
    todo,           \* listed ids the pass has still to visit
    cur,            \* the entry being processed
    pending,        \* domains of cur still to be contacted
    verdict,        \* the Outcome of deliver_entry
    suppressed,     \* the global suppression list
    suppressedFor,  \* the per-account lists, as <<account, recipient>>
    opStage,        \* opStage[id]: an operator's remove of id in progress
    \* what the world has seen, for the properties
    copies,         \* copies[id][r]: times an exchanger took id for r
    skipped,        \* skipped[id]: recipients suppressed at the last attempt
    reported,       \* reported[id]: recipients named in a failure notice
    bounces,        \* bounces[id]: failure notices handed to the bounce sink
    warnings,       \* warnings[id]: delay warnings handed to the bounce sink
    dsnLost,        \* ids whose failure notice the sink refused
    cancelled,      \* ids an operator removed
    refused,        \* recipients some exchanger refused with a 5xx
    faults          \* crashes and I/O errors so far

workerVars == <<wpc, passNow, todo, cur, pending, verdict>>
listVars == <<suppressed, suppressedFor>>
worldVars == <<copies, skipped, reported, bounces, warnings, dsnLost, cancelled, refused>>
vars == <<spoolVars, workerVars, listVars, opStage, worldVars, faults>>

WorkerStates == {"idle", "scan", "resolve", "talk", "bounce", "suppress", "record",
                 "rename", "aged", "warn", "mark", "markRename", "unlinkEnv", "unlinkEml"}
Verdicts == {"none", "delivered", "dropped", "retry", "suppressed"}

TypeOK ==
    /\ SpoolTypeOK
    /\ wpc \in WorkerStates
    /\ passNow \in Nat
    /\ todo \subseteq Ids
    /\ cur \in Ids
    /\ pending \subseteq Domains
    /\ verdict \in Verdicts
    /\ suppressed \subseteq Recipients
    /\ suppressedFor \subseteq Senders \X Recipients
    /\ opStage \in [Ids -> {"none", "env", "eml"}]
    /\ copies \in [Ids -> [Recipients -> Nat]]
    /\ skipped \in [Ids -> SUBSET Recipients]
    /\ reported \in [Ids -> SUBSET Recipients]
    /\ bounces \in [Ids -> Nat]
    /\ warnings \in [Ids -> Nat]
    /\ dsnLost \subseteq Ids
    /\ cancelled \subseteq Ids
    /\ refused \subseteq Recipients
    /\ faults \in Nat

Init ==
    /\ SpoolInit
    /\ wpc = "idle" /\ passNow = 0 /\ todo = {} /\ cur \in Ids
    /\ pending = {} /\ verdict = "none"
    /\ \A id \in Ids : cur <= id
    /\ suppressed = {} /\ suppressedFor = {}
    /\ opStage = [id \in Ids |-> "none"]
    /\ copies = [id \in Ids |-> [r \in Recipients |-> 0]]
    /\ skipped = [id \in Ids |-> {}]
    /\ reported = [id \in Ids |-> {}]
    /\ bounces = [id \in Ids |-> 0]
    /\ warnings = [id \in Ids |-> 0]
    /\ dsnLost = {} /\ cancelled = {} /\ refused = {} /\ faults = 0

(***************************************************************************)
(* Helpers.                                                                *)
(***************************************************************************)

\* backoff_until: base * 2^min(attempts, 16), capped, after the given time.
BackoffUntil(from, n) ==
    LET doubled == BackoffBase * 2^(IF n < 16 THEN n ELSE 16)
    IN  from + (IF doubled \in 0 .. BackoffCap THEN doubled ELSE BackoffCap)

\* Mutant: the operands of the subtraction swapped.
AgeSwapped(id) == IF born[id] > passNow THEN born[id] - passNow ELSE 0

\* message_age: the pass's now minus the creation time in the id, saturating.
Age(id) == IF passNow > born[id] THEN passNow - born[id] ELSE 0

\* Suppressed at either scope, as the filter of deliver_entry reads it.
SuppressedFor(m) ==
    {r \in m.rcpts : r \in suppressed \/ <<m.from, r>> \in suppressedFor}

\* The recipients a notice names: those that did not ask for NOTIFY=NEVER.
DsnRecipients(m) == m.rcpts \ m.noDsn

\* bounce::build returns None for a bounce, and no notice names nobody.
BuildsDsn(m) == DsnRecipients(m) # {} /\ m.from # NullSender

\* The recipients of one conversation: those of the domain not filtered out.
Conversation(id, d) == {r \in msg[id].rcpts \ skipped[id] : DomainOf[r] = d}

Oldest(id, S) == id \in S /\ \A other \in S : id <= other

Goto(state) == wpc' = state

(***************************************************************************)
(* pass: list the spool, visit the entries oldest first.                   *)
(***************************************************************************)
PassBegin ==
    /\ wpc = "idle"
    /\ Goto("scan")
    /\ passNow' = clock
    /\ todo' = Listed
    /\ UNCHANGED <<spoolVars, cur, pending, verdict, listVars, opStage, worldVars, faults>>

PassEnd ==
    /\ wpc = "scan" /\ todo = {}
    /\ Goto("idle")
    /\ UNCHANGED <<spoolVars, passNow, todo, cur, pending, verdict, listVars, opStage,
                   worldVars, faults>>

\* The backoff of the oldest entry left has not elapsed: continue.
SkipEntry(id) ==
    /\ wpc = "scan" /\ Oldest(id, todo)
    /\ Loads(id) /\ nextAttempt[id] > passNow
    /\ todo' = todo \ {id}
    /\ UNCHANGED <<spoolVars, wpc, passNow, cur, pending, verdict, listVars, opStage,
                   worldVars, faults>>

\* An entry that vanished or cannot be read is classified Retry.
UnreadableEntry(id) ==
    /\ wpc = "scan" /\ Oldest(id, todo)
    /\ ~Loads(id)
    /\ todo' = todo \ {id}
    /\ cur' = id
    /\ verdict' = "retry"
    /\ Goto("record")
    /\ UNCHANGED <<spoolVars, passNow, pending, listVars, opStage, worldVars, faults>>

\* deliver_entry up to its loop: filter the suppressed recipients, group the
\* others by domain.
LoadEntry(id) ==
    /\ wpc = "scan" /\ Oldest(id, todo)
    /\ Loads(id) /\ nextAttempt[id] <= passNow
    /\ todo' = todo \ {id}
    /\ cur' = id
    /\ skipped' = [skipped EXCEPT ![id] = SuppressedFor(msg[id])]
    /\ LET wanted == msg[id].rcpts \ SuppressedFor(msg[id])
       IN  \/ /\ wanted = {}
              /\ verdict' = "suppressed" /\ pending' = {} /\ Goto("unlinkEnv")
           \/ /\ wanted \cap Unparseable # {}
              /\ verdict' = "dropped" /\ pending' = {} /\ Goto("bounce")
           \/ /\ wanted # {} /\ wanted \cap Unparseable = {}
              /\ verdict' = "none" /\ pending' = {DomainOf[r] : r \in wanted}
              /\ Goto("resolve")
    /\ UNCHANGED <<spoolVars, passNow, listVars, opStage, copies, reported, bounces, warnings,
                   dsnLost, cancelled, refused, faults>>

(***************************************************************************)
(* deliver_entry: one conversation per domain, in key order.               *)
(***************************************************************************)

\* The MTA-STS policy, the MX or TLSA lookup or the connection is temporarily
\* unavailable.
ResolveDefers ==
    /\ wpc = "resolve"
    /\ verdict' = "retry"
    /\ Goto("record")
    /\ UNCHANGED <<spoolVars, passNow, todo, cur, pending, listVars, opStage, worldVars, faults>>

\* A transport rule of kind "fail" rejects the domain, or the proxy in front of
\* the smarthost speaks no SOCKS5 we accept: Dropped either way.
ResolveRejects(d) ==
    /\ wpc = "resolve" /\ Oldest(d, pending) /\ d \in FailDomains \cup RelayDomains
    /\ verdict' = "dropped"
    /\ Goto("bounce")
    /\ UNCHANGED <<spoolVars, passNow, todo, cur, pending, listVars, opStage, worldVars, faults>>

Connect(d) ==
    /\ wpc = "resolve" /\ Oldest(d, pending) /\ d \notin FailDomains
    /\ Goto("talk")
    /\ UNCHANGED <<spoolVars, passNow, todo, cur, pending, verdict, listVars, opStage,
                   worldVars, faults>>

\* What the exchanger's acceptance does: one more copy for each recipient.
OneMoreCopy(d) ==
    copies' = [copies EXCEPT ![cur] =
                  [r \in Recipients |-> IF r \in Conversation(cur, d) THEN @[r] + 1 ELSE @[r]]]

\* Mutant: a delivered entry is left in the spool.
RemoteAcceptsKeepsEntry(d) ==
    /\ wpc = "talk" /\ Oldest(d, pending)
    /\ OneMoreCopy(d)
    /\ pending' = pending \ {d}
    /\ Goto(IF pending = {d} THEN "scan" ELSE "resolve")
    /\ UNCHANGED <<spoolVars, passNow, todo, cur, verdict, listVars, opStage, skipped, reported,
                   bounces, warnings, dsnLost, cancelled, refused, faults>>

\* 250 after the data: this domain is done; the next one, or Delivered.
RemoteAccepts(d) ==
    /\ wpc = "talk" /\ Oldest(d, pending)
    /\ OneMoreCopy(d)
    /\ pending' = pending \ {d}
    /\ IF pending = {d} THEN verdict' = "delivered" /\ Goto("unlinkEnv")
                        ELSE verdict' = verdict /\ Goto("resolve")
    /\ UNCHANGED <<spoolVars, passNow, todo, cur, listVars, opStage, skipped, reported,
                   bounces, warnings, dsnLost, cancelled, refused, faults>>

\* A 4xx, a failed handshake or a broken connection.  taken says whether the
\* exchanger had already accepted the data when its reply was lost.
RemoteDefers(d, taken) ==
    /\ wpc = "talk" /\ Oldest(d, pending)
    /\ IF taken THEN OneMoreCopy(d) ELSE UNCHANGED copies
    /\ verdict' = "retry"
    /\ Goto("record")
    /\ UNCHANGED <<spoolVars, passNow, todo, cur, pending, listVars, opStage, skipped, reported,
                   bounces, warnings, dsnLost, cancelled, refused, faults>>

\* A 5xx, to any command of the conversation.
RemoteRefuses(d) ==
    /\ wpc = "talk" /\ Oldest(d, pending)
    /\ refused' = refused \cup Conversation(cur, d)
    /\ verdict' = "dropped"
    /\ Goto("bounce")
    /\ UNCHANGED <<spoolVars, passNow, todo, cur, pending, listVars, opStage, copies, skipped,
                   reported, bounces, warnings, dsnLost, cancelled, faults>>

(***************************************************************************)
(* The arms of pass's match on the outcome.                                *)
(***************************************************************************)

\* bounce(): reload the entry, build the notice, hand it to the sink.  A sink
\* error is logged and nothing else.  sinkOk is the sink's answer.
Bounce(sinkOk) ==
    /\ wpc = "bounce"
    /\ IF Loads(cur) /\ BuildsDsn(msg[cur])
         THEN IF sinkOk
                THEN /\ reported' = [reported EXCEPT ![cur] = @ \cup DsnRecipients(msg[cur])]
                     /\ bounces' = [bounces EXCEPT ![cur] = @ + 1]
                     /\ UNCHANGED dsnLost
                ELSE dsnLost' = dsnLost \cup {cur} /\ UNCHANGED <<reported, bounces>>
         ELSE sinkOk /\ UNCHANGED <<reported, bounces, dsnLost>>
    /\ Goto(IF verdict = "dropped" THEN "suppress" ELSE "unlinkEnv")
    /\ UNCHANGED <<spoolVars, passNow, todo, cur, pending, verdict, listVars, opStage, copies,
                   skipped, warnings, cancelled, refused, faults>>

\* Mutant: the account and the recipient of suppress_for swapped.
SuppressEntrySwapped ==
    /\ wpc = "suppress"
    /\ suppressed' = suppressed \cup msg[cur].rcpts
    /\ suppressedFor' = suppressedFor \cup (msg[cur].rcpts \X {msg[cur].from})
    /\ Goto("unlinkEnv")
    /\ UNCHANGED <<spoolVars, passNow, todo, cur, pending, verdict, opStage, worldVars, faults>>

\* suppress_entry: every recipient of the envelope, at both scopes.
SuppressEntry ==
    /\ wpc = "suppress"
    /\ IF Loads(cur)
         THEN /\ suppressed' = suppressed \cup msg[cur].rcpts
              /\ suppressedFor' = IF msg[cur].from = NullSender THEN suppressedFor
                                  ELSE suppressedFor \cup ({msg[cur].from} \X msg[cur].rcpts)
         ELSE UNCHANGED listVars
    /\ Goto("unlinkEnv")
    /\ UNCHANGED <<spoolVars, passNow, todo, cur, pending, verdict, opStage, worldVars, faults>>

\* remove(): a missing file is an error, and the error ends the pass.
RemoveEnvelope ==
    /\ wpc = "unlinkEnv"
    /\ UnlinkEnv(cur)
    /\ Goto("unlinkEml")
    /\ UNCHANGED <<passNow, todo, cur, pending, verdict, listVars, opStage, worldVars, faults>>

RemoveMessage ==
    /\ wpc = "unlinkEml"
    /\ UnlinkEml(cur)
    /\ Goto("scan")
    /\ UNCHANGED <<passNow, todo, cur, pending, verdict, listVars, opStage, worldVars, faults>>

RemoveFails ==
    /\ \/ wpc = "unlinkEnv" /\ cur \notin envFile
       \/ wpc = "unlinkEml" /\ cur \notin emlFile
    /\ Goto("idle")
    /\ UNCHANGED <<spoolVars, passNow, todo, cur, pending, verdict, listVars, opStage,
                   worldVars, faults>>

\* record_attempt: load, then rewrite.  Its error is ignored.
RecordLoad ==
    /\ wpc = "record"
    /\ Goto(IF Loads(cur) THEN "rename" ELSE "aged")
    /\ UNCHANGED <<spoolVars, passNow, todo, cur, pending, verdict, listVars, opStage,
                   worldVars, faults>>

RecordRename ==
    /\ wpc = "rename"
    /\ RenameAttempt(cur, BackoffUntil(passNow, attempts[cur] + 1))
    /\ Goto("aged")
    /\ UNCHANGED <<passNow, todo, cur, pending, verdict, listVars, opStage, worldVars, faults>>

\* Mutant: an expired entry is removed without a failure notice.
JudgeAgeNoBounce ==
    /\ wpc = "aged"
    /\ \/ Age(cur) >= MaxAge /\ Goto("unlinkEnv")
       \/ Age(cur) < MaxAge /\ Age(cur) >= WarnAge /\ Goto("warn")
       \/ Age(cur) < MaxAge /\ Age(cur) < WarnAge /\ Goto("scan")
    /\ UNCHANGED <<spoolVars, passNow, todo, cur, pending, verdict, listVars, opStage,
                   worldVars, faults>>

\* Give up by age, warn by age, or leave the entry for a later pass.
JudgeAge ==
    /\ wpc = "aged"
    /\ \/ Age(cur) >= MaxAge /\ Goto("bounce")
       \/ Age(cur) < MaxAge /\ Age(cur) >= WarnAge /\ Goto("warn")
       \/ Age(cur) < MaxAge /\ Age(cur) < WarnAge /\ Goto("scan")
    /\ UNCHANGED <<spoolVars, passNow, todo, cur, pending, verdict, listVars, opStage,
                   worldVars, faults>>

\* warn_delayed: the notice is sent before the envelope remembers it.
WarnDelayed(sinkOk) ==
    /\ wpc = "warn"
    /\ IF Loads(cur) /\ ~delayWarned[cur]
         THEN /\ IF BuildsDsn(msg[cur]) /\ sinkOk
                   THEN warnings' = [warnings EXCEPT ![cur] = @ + 1]
                   ELSE UNCHANGED warnings
              /\ Goto("mark")
         ELSE sinkOk /\ UNCHANGED warnings /\ Goto("scan")
    /\ UNCHANGED <<spoolVars, passNow, todo, cur, pending, verdict, listVars, opStage, copies,
                   skipped, reported, bounces, dsnLost, cancelled, refused, faults>>

MarkLoad ==
    /\ wpc = "mark"
    /\ Goto(IF Loads(cur) THEN "markRename" ELSE "scan")
    /\ UNCHANGED <<spoolVars, passNow, todo, cur, pending, verdict, listVars, opStage,
                   worldVars, faults>>

\* Mutant: the envelope does not remember the warning.
MarkRenameForgets ==
    /\ wpc = "markRename"
    /\ Goto("scan")
    /\ UNCHANGED <<spoolVars, passNow, todo, cur, pending, verdict, listVars, opStage,
                   worldVars, faults>>

MarkRename ==
    /\ wpc = "markRename"
    /\ RenameWarned(cur)
    /\ Goto("scan")
    /\ UNCHANGED <<passNow, todo, cur, pending, verdict, listVars, opStage, worldVars, faults>>

(***************************************************************************)
(* The storing connections, the operator, the clock, the faults.           *)
(***************************************************************************)
Storing(id) ==
    /\ \/ StoreTmp(id) \/ StoreRenameEml(id) \/ StoreRenameEnv(id) \/ StoreAck(id)
    /\ UNCHANGED <<workerVars, listVars, opStage, worldVars, faults>>

\* DELETE /queue/{id}, or the discarding account removal reaching id: the
\* entry must load, then its two files are unlinked.
OperatorLoad(id) ==
    /\ id \in Removable /\ opStage[id] = "none" /\ Loads(id)
    /\ opStage' = [opStage EXCEPT ![id] = "env"]
    /\ UNCHANGED <<spoolVars, workerVars, listVars, worldVars, faults>>

OperatorUnlinkEnv(id) ==
    /\ opStage[id] = "env"
    /\ UnlinkEnv(id)
    /\ opStage' = [opStage EXCEPT ![id] = "eml"]
    /\ cancelled' = cancelled \cup {id}
    /\ UNCHANGED <<workerVars, listVars, copies, skipped, reported, bounces, warnings, dsnLost,
                   refused, faults>>

OperatorUnlinkEml(id) ==
    /\ opStage[id] = "eml"
    /\ UnlinkEml(id)
    /\ opStage' = [opStage EXCEPT ![id] = "none"]
    /\ UNCHANGED <<workerVars, listVars, worldVars, faults>>

OperatorFails(id) ==
    /\ \/ opStage[id] = "env" /\ id \notin envFile
       \/ opStage[id] = "eml" /\ id \notin emlFile
    /\ opStage' = [opStage EXCEPT ![id] = "none"]
    /\ UNCHANGED <<spoolVars, workerVars, listVars, worldVars, faults>>

\* SuppressionList::remove, and remove_for / remove_all_for on one account.
Unsuppress(r) ==
    /\ r \in Clearable \cap suppressed
    /\ suppressed' = suppressed \ {r}
    /\ UNCHANGED <<spoolVars, workerVars, suppressedFor, opStage, worldVars, faults>>

UnsuppressFor(account, S) ==
    /\ suppressedFor \cap ({account} \X (S \cap Clearable)) # {}
    /\ suppressedFor' = suppressedFor \ ({account} \X S)
    /\ UNCHANGED <<spoolVars, workerVars, suppressed, opStage, worldVars, faults>>

TimePasses == Tick /\ UNCHANGED <<workerVars, listVars, opStage, worldVars, faults>>

OneFault == faults < MaxFaults /\ faults' = faults + 1

\* The process dies and restarts: the files stay, everything else is gone.
Crash ==
    /\ OneFault
    /\ wpc' = "idle" /\ todo' = {} /\ pending' = {} /\ verdict' = "none"
    /\ st' = StoreCrashed
    /\ opStage' = [id \in Ids |-> "none"]
    /\ UNCHANGED <<clock, born, msg, emlFile, envFile, attempts, nextAttempt, delayWarned,
                   passNow, cur, listVars, worldVars>>

StoreError(id) ==
    /\ OneFault
    /\ StoreFails(id)
    /\ UNCHANGED <<workerVars, listVars, opStage, worldVars>>

\* An I/O error of the worker's rewrite (ignored) or unlink (ends the pass).
WorkerError ==
    /\ OneFault
    /\ \/ wpc = "rename" /\ Goto("aged")
       \/ wpc = "markRename" /\ Goto("scan")
       \/ wpc \in {"unlinkEnv", "unlinkEml"} /\ Goto("idle")
    /\ UNCHANGED <<spoolVars, passNow, todo, cur, pending, verdict, listVars, opStage, worldVars>>

(***************************************************************************)
(* The specification.                                                      *)
(***************************************************************************)

\* Steps the worker takes on its own, and those it awaits from a remote.
WorkerStep ==
    \/ PassBegin \/ PassEnd
    \/ \E id \in Ids : SkipEntry(id) \/ UnreadableEntry(id) \/ LoadEntry(id)
    \/ ResolveDefers
    \/ \E d \in Domains : ResolveRejects(d) \/ Connect(d)
    \/ \E ok \in BOOLEAN : Bounce(ok) \/ WarnDelayed(ok)
    \/ SuppressEntry \/ RemoveEnvelope \/ RemoveMessage \/ RemoveFails
    \/ RecordLoad \/ RecordRename \/ JudgeAge \/ MarkLoad \/ MarkRename

RemoteAnswers ==
    \E d \in Domains :
        \/ RemoteAccepts(d)
        \/ \E taken \in BOOLEAN : RemoteDefers(d, taken)
        \/ RemoteRefuses(d)

Operator ==
    \/ \E id \in Ids : \/ OperatorLoad(id) \/ OperatorUnlinkEnv(id)
                       \/ OperatorUnlinkEml(id) \/ OperatorFails(id)
    \/ \E r \in Recipients : Unsuppress(r)
    \/ \E account \in Senders :
           \/ \E r \in Recipients : UnsuppressFor(account, {r})
           \/ UnsuppressFor(account, Recipients)

Fault == Crash \/ WorkerError \/ \E id \in Ids : StoreError(id)

Next ==
    \/ WorkerStep \/ RemoteAnswers \/ Operator \/ Fault \/ TimePasses
    \/ \E id \in Ids : Storing(id)

Spec == Init /\ [][Next]_vars

\* The worker task is always rescheduled and time goes on; nothing is assumed
\* of a remote exchanger, because client::deliver has no timeout.
LocalFairness ==
    /\ WF_vars(WorkerStep)
    /\ WF_vars(TimePasses)
    /\ \A id \in Ids : WF_vars(Storing(id))

FairSpec == Spec /\ LocalFairness /\ WF_vars(RemoteAnswers)
SilentRemoteSpec == Spec /\ LocalFairness

(***************************************************************************)
(* Properties.                                                             *)
(***************************************************************************)

\* A recipient of an entry that left the queue got the message, or was on the
\* suppression list when it was last tried, or is named in a failure notice,
\* or no notice is owed: NOTIFY=NEVER, a null sender, a sink that refused it.
AccountedFor(id, r) ==
    \/ copies[id][r] > 0
    \/ r \in skipped[id]
    \/ r \in reported[id]
    \/ r \in msg[id].noDsn
    \/ msg[id].from = NullSender
    \/ id \in dsnLost

\* No silent loss: an accepted message that is no longer loadable from the
\* spool was removed by an operator, or every recipient is accounted for,
\* whatever crashes and I/O errors happened between the steps of the worker.
NoSilentLoss ==
    \A id \in Ids :
        st[id] = "acked" /\ ~Loads(id) /\ id \notin cancelled
            => \A r \in msg[id].rcpts : AccountedFor(id, r)

\* A visible envelope guarantees a complete message file next to it
\* (the promise in the comment on FsSpool::store).
VisibleComplete == envFile \subseteq emlFile

\* A sender gets one failure notice and one delay warning for a message, plus
\* at most one more of each per crash or I/O error: the notice is handed over
\* before the entry is removed or marked.
NoticesOnce ==
    \A id \in Ids : bounces[id] <= 1 + faults /\ warnings[id] <= 1 + faults

\* An entry that can fail for good: an exchanger refused one of its recipients,
\* or a fail rule, a relay's proxy or the parser can.
FailedForGood(m) ==
    \/ m.rcpts \cap (refused \cup Unparseable) # {}
    \/ \E r \in m.rcpts : DomainOf[r] \in FailDomains \cup RelayDomains

\* A recipient is suppressed only with an entry that failed for good, never
\* because one grew too old while exchangers deferred it (the arms of pass).
SuppressedOnFailure ==
    \A r \in suppressed : \E id \in Ids : r \in msg[id].rcpts /\ FailedForGood(msg[id])

\* What a failed delivery entails: bounded notices, and suppressions only for
\* permanent failures (queue/worker.rs, pass).
FailureHandled == NoticesOnce /\ SuppressedOnFailure

\* A recipient never gets more copies than attempts were made: one for each
\* recorded failure, one for the last attempt, one for each fault.
CopiesBounded ==
    \A id \in Ids, r \in Recipients : copies[id][r] <= attempts[id] + 1 + faults

\* A recipient is on the suppression list only because an exchanger refused
\* it with a permanent 5xx (the module comment of queue/suppression.rs).
SuppressedHardBounced == suppressed \subseteq refused

\* Every accepted message eventually leaves the spool.
Drained == \A id \in Ids : st[id] = "acked" ~> id \notin envFile

(***************************************************************************)
(* The queue keeps custody of what it accepts.  A message is taken when    *)
(* its envelope is visible and held while it loads; excused are those who  *)
(* were suppressed at the last attempt or to whom no notice is owed.       *)
(***************************************************************************)
Excused(id) ==
    IF msg[id].from = NullSender \/ id \in dsnLost THEN Recipients
    ELSE (skipped[id] \cup msg[id].noDsn) \cap Recipients

Taken == {id \in Ids : Spooled(id)}
Confirmed == {id \in Ids : st[id] = "acked"}
Held == {id \in Ids : Spooled(id) /\ Loads(id)}
Addressed == [id \in Ids |-> msg[id].rcpts]
Got == [id \in Ids |-> {r \in Recipients : copies[id][r] > 0}]
ExcusedOf == [id \in Ids |-> Excused(id)]

Custody == INSTANCE MailCustody WITH
    taken <- Taken, confirmed <- Confirmed, held <- Held, withdrawn <- cancelled,
    addressed <- Addressed, got <- Got, told <- reported, excused <- ExcusedOf

\* Every step of the worker, the stores, the operator and the faults is a step
\* of the custody MailCustody describes, or invisible there (storage/spool.rs,
\* queue/worker.rs): no 250 before custody, no custody given up for nothing.
KeepsCustody == Custody!Spec
=============================================================================

------------------------------ MODULE Mailbox ------------------------------
(***************************************************************************)
(* One IMAP mailbox of one account as src/src/imap keeps it on disk: the   *)
(* .eml files with their .flags/.uid/.modseq sidecars, the .uidnext and    *)
(* .modseqctr counters, the .vanished log, the .index cache and the        *)
(* account's .archive.  There is no lock anywhere: every connection works  *)
(* on a snapshot it took at SELECT and on the files directly, one system   *)
(* call after the other, while the delivery agent, POP3, JMAP, the archive *)
(* sweeper and an operator's restore touch the same directory.  A step is  *)
(* one access to the disk (adjacent accesses that no other step separates  *)
(* are one).                                                               *)
(*                                                                         *)
(* Message ids are UUIDv7: numbers, in the order the scan sorts them.  A   *)
(* delivery picks its id before its rename makes it visible, so ids become *)
(* visible in any order.  A connection opened by EXAMINE does what a       *)
(* SELECTed one does without STORE, EXPUNGE and REPLACE, so it needs no    *)
(* state of its own.  UIDVALIDITY is written once and never changes while  *)
(* the mailbox exists, and the mailbox exists throughout.                  *)
(***************************************************************************)
EXTENDS Integers, FiniteSets, FiniteSetsExt

CONSTANTS
    Messages,      \* ids the mailbox may see
    Sessions,      \* IMAP connections, or JMAP requests
    Retention,     \* deleted_retention_days; 0 deletes at once
    Encrypted,     \* whether messages are encrypted at rest
    SessionSpan,   \* bound: how long a connection keeps one snapshot
    Commands,      \* bound: the commands given, and whether mail arrives
    Mishaps,       \* bound: what may get in the way; a crash or a fault, once
    MaxTime, MaxModseq    \* bounds

ASSUME MailboxAssumption ==
    /\ Messages \subseteq Nat /\ IsFiniteSet(Messages) /\ IsFiniteSet(Sessions)
    /\ Encrypted \in BOOLEAN
    /\ {Retention, SessionSpan, MaxTime, MaxModseq} \subseteq Nat
    /\ Mishaps \subseteq {"overlap", "pop3", "crash", "fault"}

VARIABLES
    eml, flags, uid, modseq,    \* <id>.eml, and <id>.flags/.uid/.modseq (absent: {}, 0, 1)
    uidnext, modseqctr,         \* the counters (absent: 0 and 1)
    vanished,                   \* lines <<uid, modseq>> of .vanished
    index,                      \* .index: its stamp and its records
    archived, deletedAt,        \* .archive: bodies, and <id>.deleted (absent: -1)
    op,                         \* what each connection is in the middle of
    snap,                       \* its selected snapshot
    cache,                      \* what its client remembers across connections
    filing,                     \* deliveries whose Sieve flags are still to be written
    sweep, restoring,           \* the sweeper's and the restore's work list
    clock,
    used, issued, leftAt, erased, disturbed      \* history

disk == <<eml, flags, uid, modseq, uidnext, modseqctr, vanished, index>>
archive == <<archived, deletedAt>>
others == <<filing, sweep, restoring, clock>>
history == <<used, issued, leftAt, erased>>
vars == <<disk, archive, op, snap, cache, others, history, disturbed>>

Flags == {"Deleted"}
Sizes == {"plaintext", "envelope"}
Refs == [uid : Nat \ {0}, flags : SUBSET Flags, modseq : Nat, size : Sizes]
NoMessages == [m \in {} |-> 0]
NoSnapshot == [open |-> FALSE, messages |-> NoMessages, highest |-> 1, now |-> 0]
NoIndex == [gen |-> <<0, 0>>, messages |-> NoMessages]
Idle == [pc |-> "idle", why |-> "none", snap |-> NoSnapshot, gen |-> <<0, 0>>,
         ids |-> {}, initial |-> 0, counter |-> 0, new |-> 0, source |-> 0, seq |-> 0,
         since |-> 0, flags |-> {}, gone |-> {}]

With(f, m, ref) == [k \in DOMAIN f \union {m} |-> IF k = m THEN ref ELSE f[k]]
Without(f, m) == [k \in DOMAIN f \ {m} |-> f[k]]
Uids(f) == {f[m].uid : m \in DOMAIN f}

(* by_sequence and sequence_of: the snapshot is sorted by id.              *)
SequenceOf(f, m) == Cardinality({k \in DOMAIN f : k <= m})
BySequence(f, n) == {m \in DOMAIN f : SequenceOf(f, m) = n}

(* SequenceSet::contains for the range start:*, given the value of *; UID  *)
(* FETCH, UID STORE and UID COPY pass the number of messages for it.       *)
Contains(value, start, max) == value >= Min({start, max}) /\ value <= max
UidAddressed(f, start) ==
    {m \in DOMAIN f : Contains(f[m].uid, start, Cardinality(DOMAIN f))}

(***************************************************************************)
(* A connection steps: `disturbed' remembers what the checked properties   *)
(* have to exclude.  "overlap": a handler took a step while another        *)
(* connection's handler, or a delivery with flags, was under way.          *)
(***************************************************************************)
Busy(s) == op[s].pc \notin {"idle", "literal"}
Overlap(rest) == IF \E t \in rest : Busy(t) THEN {"overlap"} ELSE {}
Step(s, next) ==
    /\ op' = [op EXCEPT ![s] = next]
    /\ LET overlap == Overlap(Sessions \ {s}) \union (IF filing = {} THEN {} ELSE {"overlap"}) IN
       /\ overlap \subseteq Mishaps
       /\ disturbed' = disturbed \union overlap
Begin(s, command) == op[s].pc = "idle" /\ command \in Commands
At(s, pc) == op[s].pc = pc

(***************************************************************************)
(* Snapshot::open_at.  `why' is the handler that opens, `now' is sampled   *)
(* once, here.                                                             *)
(***************************************************************************)
Generation == <<modseqctr, Cardinality(eml)>>

OpenBegin(s) ==
    /\ At(s, "open")
    /\ Step(s, [op[s] EXCEPT !.pc = "load", !.gen = Generation,
                             !.snap = [NoSnapshot EXCEPT !.now = clock]])
    /\ UNCHANGED <<disk, archive, snap, cache, others, history>>

(* mutant: the stamp's mod-sequence is not compared *)
IndexFreshByCount(gen) ==
    index.gen[2] = gen[2] /\ Cardinality(DOMAIN index.messages) = gen[2]

IndexFresh(gen) == index.gen = gen /\ Cardinality(DOMAIN index.messages) = gen[2]

OpenFromIndex(s) ==
    LET o == op[s] IN
    /\ At(s, "load")
    /\ IndexFresh(o.gen)
    /\ Step(s, [o EXCEPT !.pc = "opened", !.snap.open = TRUE,
                         !.snap.messages = index.messages, !.snap.highest = o.gen[1]])
    /\ UNCHANGED <<disk, archive, snap, cache, others, history>>

(* scan_mailbox: the directory listing and the counter, ...                *)
ScanList(s) ==
    LET o == op[s] IN
    /\ At(s, "load")
    /\ ~ IndexFresh(o.gen)
    /\ Step(s, [o EXCEPT !.pc = "scan", !.ids = eml, !.initial = uidnext, !.counter = uidnext])
    /\ UNCHANGED <<disk, archive, snap, cache, others, history>>

(* mutant: the UID handed out is the counter before it is advanced *)
AssignOrReadCurrent(m, counter) == IF uid[m] > 0 THEN uid[m] ELSE counter

AssignOrRead(m, counter) == IF uid[m] > 0 THEN uid[m] ELSE counter + 1

(* RFC822.SIZE: appenduid and the JMAP destroy open without the key, and   *)
(* stored_plaintext_len then takes the file for plaintext.                 *)
Keyless == {"append", "replace", "destroy"}
SizeSeen(why) == IF Encrypted /\ why \in Keyless THEN "envelope" ELSE "plaintext"

(* ... then each id in order: assign_or_read, flags and mod-sequence, ...  *)
ScanMessage(s) ==
    LET o == op[s]
        m == Min(o.ids)
        u == AssignOrRead(m, o.counter)
        ref == [uid |-> u, flags |-> flags[m], modseq |-> modseq[m], size |-> SizeSeen(o.why)]
    IN
    /\ At(s, "scan") /\ o.ids # {}
    /\ Step(s, [o EXCEPT !.ids = @ \ {m}, !.counter = IF uid[m] > 0 THEN @ ELSE @ + 1,
                         !.snap.messages = With(@, m, ref)])
    /\ uid' = [uid EXCEPT ![m] = u]
    /\ UNCHANGED <<eml, flags, modseq, uidnext, modseqctr, vanished, index>>
    /\ UNCHANGED <<archive, snap, cache, others, history>>

(* mutant: positional UIDs *)
GrownCounterLen(o) == Cardinality(DOMAIN o.snap.messages)

(* ... and the counter, only if it grew.                                   *)
GrownCounter(o) == IF o.counter > o.initial THEN o.counter ELSE uidnext

ScanCounter(s) ==
    LET o == op[s] IN
    /\ At(s, "scan") /\ o.ids = {}
    /\ uidnext' = GrownCounter(o)
    /\ Step(s, [o EXCEPT !.pc = "index"])
    /\ UNCHANGED <<eml, flags, uid, modseq, modseqctr, vanished, index>>
    /\ UNCHANGED <<archive, snap, cache, others, history>>

HighestModseq(messages) == Max({modseqctr} \union {messages[m].modseq : m \in DOMAIN messages})

(* The index is stamped with the generation read before the scan.          *)
WriteIndex(s) ==
    LET o == op[s] IN
    /\ At(s, "index")
    /\ index' = [gen |-> o.gen, messages |-> o.snap.messages]
    /\ Step(s, [o EXCEPT !.pc = "opened", !.snap.open = TRUE,
                         !.snap.highest = HighestModseq(o.snap.messages)])
    /\ UNCHANGED <<eml, flags, uid, modseq, uidnext, modseqctr, vanished>>
    /\ UNCHANGED <<archive, snap, cache, others, history>>

(***************************************************************************)
(* SELECT, the IDLE (and NOTIFY) poll, and CLOSE, UNSELECT or a hang-up.   *)
(***************************************************************************)
Start(s, why) == Step(s, [Idle EXCEPT !.pc = "open", !.why = why])
Done(s) == Step(s, Idle)
Issue(messages) == issued \union {<<messages[m].uid, m>> : m \in DOMAIN messages}

Select(s) ==
    /\ Begin(s, "select")
    /\ Start(s, "select")
    /\ UNCHANGED <<disk, archive, snap, cache, others, history>>

(* vanished_since: what VANISHED (EARLIER) lists.                          *)
Since(n) == {line[1] : line \in {l \in vanished : l[2] > n}}

SelectDone(s) ==
    LET o == op[s] IN
    /\ At(s, "opened") /\ o.why = "select"
    /\ Done(s)
    /\ snap' = [snap EXCEPT ![s] = o.snap]
    /\ cache' = [cache EXCEPT ![s] =
                    [uids |-> Uids(o.snap.messages), modseq |-> o.snap.highest]]
    /\ issued' = Issue(o.snap.messages)
    /\ UNCHANGED <<disk, archive, others, used, leftAt, erased>>

CheckIdle(s) ==
    /\ Begin(s, "idle")
    /\ snap[s].open
    /\ Start(s, "idle")
    /\ UNCHANGED <<disk, archive, snap, cache, others, history>>

(* Only a change of the message count is noticed.                          *)
CheckIdleDone(s) ==
    LET o == op[s]
        changed == Cardinality(DOMAIN o.snap.messages) # Cardinality(DOMAIN snap[s].messages)
    IN
    /\ At(s, "opened") /\ o.why = "idle"
    /\ Done(s)
    /\ snap' = IF changed THEN [snap EXCEPT ![s] = o.snap] ELSE snap
    /\ issued' = IF changed THEN Issue(o.snap.messages) ELSE issued
    /\ UNCHANGED <<disk, archive, cache, others, used, leftAt, erased>>

Close(s) ==
    /\ op[s].pc \in {"idle", "literal"}
    /\ snap[s].open
    /\ Done(s)
    /\ snap' = [snap EXCEPT ![s] = NoSnapshot]
    /\ UNCHANGED <<disk, archive, cache, others, history>>

(***************************************************************************)
(* STORE on one message of the set.  Both the flags it starts from and the *)
(* mod-sequence UNCHANGEDSINCE is compared with come from the snapshot.    *)
(***************************************************************************)
Modes == {"Set", "Add", "Remove"}
Updated(mode, existing, given) ==
    CASE mode = "Set" -> given
      [] mode = "Add" -> existing \union given
      [] mode = "Remove" -> existing \ given

(* since = 0: no UNCHANGEDSINCE; else the mod-sequence its client knows.   *)
Store(s, m, mode, given, since) ==
    LET ref == snap[s].messages[m]
        new == Updated(mode, ref.flags, given)
    IN
    /\ Begin(s, "store") /\ snap[s].open /\ m \in DOMAIN snap[s].messages
    /\ modseqctr < MaxModseq
    /\ since > 0 => ref.modseq <= since
    /\ new # ref.flags
    /\ flags' = [flags EXCEPT ![m] = new]
    /\ Step(s, [Idle EXCEPT !.pc = "bump", !.why = "store", !.new = m, !.flags = new,
                            !.since = since, !.snap = snap[s]])
    /\ UNCHANGED <<eml, uid, modseq, uidnext, modseqctr, vanished, index>>
    /\ UNCHANGED <<archive, snap, cache, others, history>>

(* next_counter                                                            *)
StoreBump(s) ==
    /\ At(s, "bump") /\ op[s].why = "store"
    /\ modseqctr' = modseqctr + 1
    /\ Step(s, [op[s] EXCEPT !.pc = "stamp", !.counter = modseqctr + 1])
    /\ UNCHANGED <<eml, flags, uid, modseq, uidnext, vanished, index>>
    /\ UNCHANGED <<archive, snap, cache, others, history>>

StoreStamp(s) ==
    LET o == op[s]
        ref == [snap[s].messages[o.new] EXCEPT !.flags = o.flags, !.modseq = o.counter]
    IN
    /\ At(s, "stamp")
    /\ modseq' = [modseq EXCEPT ![o.new] = o.counter]
    /\ snap' = [snap EXCEPT ![s].messages = With(@, o.new, ref),
                            ![s].highest = Max({@, o.counter})]
    /\ Done(s)
    /\ UNCHANGED <<eml, flags, uid, uidnext, modseqctr, vanished, index>>
    /\ UNCHANGED <<archive, cache, others, history>>

(***************************************************************************)
(* Removal: EXPUNGE and UID EXPUNGE (`ids': \Deleted in the snapshot and   *)
(* in the UID set), the source of a REPLACE and a JMAP destroy.            *)
(***************************************************************************)
Expunge(s, ids) ==
    /\ Begin(s, "expunge") /\ snap[s].open
    /\ modseqctr < MaxModseq
    /\ ids # {}
    /\ ids \subseteq {m \in DOMAIN snap[s].messages : "Deleted" \in snap[s].messages[m].flags}
    /\ Step(s, [Idle EXCEPT !.pc = "remove", !.why = "expunge", !.ids = ids, !.snap = snap[s]])
    /\ UNCHANGED <<disk, archive, snap, cache, others, history>>

Removed(o, m) ==
    [o EXCEPT !.pc = "remove", !.ids = @ \ {m}, !.gone = @ \union {o.snap.messages[m].uid},
              !.snap.messages = Without(@, m)]

Archives(o) == Retention > 0 /\ o.why # "destroy"

(* remove_files without retention                                          *)
RemoveFiles(s) ==
    LET o == op[s]
        m == Min(o.ids)
    IN
    /\ At(s, "remove") /\ o.ids # {} /\ ~ Archives(o)
    /\ eml' = eml \ {m}
    /\ flags' = [flags EXCEPT ![m] = {}]
    /\ uid' = [uid EXCEPT ![m] = 0]
    /\ erased' = erased \union {m}
    /\ Step(s, Removed(o, m))
    /\ UNCHANGED <<modseq, uidnext, modseqctr, vanished, index>>
    /\ UNCHANGED <<archive, snap, cache, others, used, issued, leftAt>>

(* archive_message: the .deleted sidecar, stamped with the snapshot's now, *)
ArchiveSidecar(s) ==
    LET o == op[s] IN
    /\ At(s, "remove") /\ o.ids # {} /\ Archives(o)
    /\ deletedAt' = [deletedAt EXCEPT ![Min(o.ids)] = o.snap.now]
    /\ Step(s, [o EXCEPT !.pc = "move"])
    /\ UNCHANGED <<disk, archived, snap, cache, others, history>>

(* then .flags and .uid,                                                   *)
ArchiveSidecars(s) ==
    LET m == Min(op[s].ids) IN
    /\ At(s, "move")
    /\ flags' = [flags EXCEPT ![m] = {}]
    /\ uid' = [uid EXCEPT ![m] = 0]
    /\ Step(s, [op[s] EXCEPT !.pc = "body"])
    /\ UNCHANGED <<eml, modseq, uidnext, modseqctr, vanished, index>>
    /\ UNCHANGED <<archive, snap, cache, others, history>>

(* and the body last; a body that is already gone is no error.             *)
ArchiveBody(s) ==
    LET o == op[s]
        m == Min(o.ids)
    IN
    /\ At(s, "body")
    /\ eml' = eml \ {m}
    /\ archived' = archived \union ({m} \intersect eml)
    /\ leftAt' = IF m \in eml THEN [leftAt EXCEPT ![m] = clock] ELSE leftAt
    /\ Step(s, Removed(o, m))
    /\ UNCHANGED <<flags, uid, modseq, uidnext, modseqctr, vanished, index, deletedAt>>
    /\ UNCHANGED <<snap, cache, others, used, issued, erased>>

(* A step of archive_message fails: the files stay where they are, and the *)
(* message still leaves the snapshot and is still reported as vanished.    *)
ArchiveFails(s) ==
    LET o == op[s] IN
    /\ o.pc \in {"remove", "move", "body"} /\ o.ids # {} /\ Archives(o)
    /\ "fault" \in Mishaps \ disturbed
    /\ op' = [op EXCEPT ![s] = Removed(o, Min(o.ids))]
    /\ disturbed' = disturbed \union {"fault"}
    /\ UNCHANGED <<disk, archive, snap, cache, others, history>>

(* record_advancing: the counter, ...                                      *)
VanishedBump(s) ==
    LET o == op[s] IN
    /\ At(s, "remove") /\ o.ids = {}
    /\ modseqctr' = modseqctr + 1
    /\ Step(s, [o EXCEPT !.pc = "record", !.counter = modseqctr + 1])
    /\ UNCHANGED <<eml, flags, uid, modseq, uidnext, vanished, index>>
    /\ UNCHANGED <<archive, snap, cache, others, history>>

(* mutant: logged under the mod-sequence before the expunge *)
LogLinesEarly(o) == {<<u, o.counter - 1>> : u \in o.gone}

LogLines(o) == {<<u, o.counter>> : u \in o.gone}

(* ... then the log.  The client drops the message it named from its view. *)
VanishedRecord(s) ==
    LET o == op[s]
        named == IF o.why = "source" THEN Uids([m \in {o.source} |-> snap[s].messages[m]])
                 ELSE o.gone
    IN
    /\ At(s, "record")
    /\ vanished' = vanished \union LogLines(o)
    /\ snap' = IF o.why = "destroy" THEN snap ELSE [snap EXCEPT ![s] = o.snap]
    /\ cache' = IF o.why = "destroy" THEN cache ELSE [cache EXCEPT ![s].uids = @ \ named]
    /\ Done(s)
    /\ UNCHANGED <<eml, flags, uid, modseq, uidnext, modseqctr, index>>
    /\ UNCHANGED <<archive, others, history>>

(* JMAP Email/set destroy: finds the id in a fresh snapshot opened with no *)
(* retention.                                                              *)
Destroy(s, m) ==
    /\ Begin(s, "destroy") /\ ~ snap[s].open
    /\ m \in used /\ modseqctr < MaxModseq
    /\ Step(s, [Idle EXCEPT !.pc = "open", !.why = "destroy", !.source = m])
    /\ UNCHANGED <<disk, archive, snap, cache, others, history>>

DestroyFound(s) ==
    LET o == op[s] IN
    /\ At(s, "opened") /\ o.why = "destroy"
    /\ IF o.source \in DOMAIN o.snap.messages
       THEN Step(s, [o EXCEPT !.pc = "remove", !.ids = {o.source}])
       ELSE Done(s)
    /\ UNCHANGED <<disk, archive, snap, cache, others, history>>

(***************************************************************************)
(* APPEND and REPLACE: the command line, then the literal, between which   *)
(* other connections are served.                                           *)
(***************************************************************************)
AppendBegin(s, given) ==
    /\ Begin(s, "append")
    /\ Step(s, [Idle EXCEPT !.pc = "literal", !.why = "append", !.flags = given])
    /\ UNCHANGED <<disk, archive, snap, cache, others, history>>

ReplaceBegin(s, m, given) ==
    /\ Begin(s, "replace") /\ snap[s].open /\ m \in DOMAIN snap[s].messages
    /\ modseqctr < MaxModseq
    /\ Step(s, [Idle EXCEPT !.pc = "literal", !.why = "replace", !.flags = given,
                            !.source = m, !.seq = SequenceOf(snap[s].messages, m)])
    /\ UNCHANGED <<disk, archive, snap, cache, others, history>>

(* mailbox::append takes its UUIDv7 now, so it sorts after every id seen.  *)
Newest(m) == \A k \in used : k < m

(* The body becomes visible, then its flags are written.                   *)
LiteralDone(s, m) ==
    LET o == op[s] IN
    /\ At(s, "literal")
    /\ Newest(m)
    /\ eml' = eml \union {m}
    /\ used' = used \union {m}
    /\ Step(s, [o EXCEPT !.pc = IF o.flags = {} THEN "open" ELSE "flags", !.new = m])
    /\ UNCHANGED <<flags, uid, modseq, uidnext, modseqctr, vanished, index>>
    /\ UNCHANGED <<archive, snap, cache, others, issued, leftAt, erased>>

AppendFlags(s) ==
    LET o == op[s] IN
    /\ At(s, "flags")
    /\ flags' = [flags EXCEPT ![o.new] = o.flags]
    /\ Step(s, [o EXCEPT !.pc = "open"])
    /\ UNCHANGED <<eml, uid, modseq, uidnext, modseqctr, vanished, index>>
    /\ UNCHANGED <<archive, snap, cache, others, history>>

(* APPENDUID from a fresh snapshot; a REPLACE opens yet another one.       *)
AppendUid(s) ==
    LET o == op[s] IN
    /\ At(s, "opened") /\ o.why \in {"append", "replace"}
    /\ issued' = IF o.new \in DOMAIN o.snap.messages
                 THEN issued \union {<<o.snap.messages[o.new].uid, o.new>>} ELSE issued
    /\ IF o.why = "append" THEN Done(s)
       ELSE Step(s, [o EXCEPT !.pc = "open", !.why = "source"])
    /\ UNCHANGED <<disk, archive, snap, cache, others, used, leftAt, erased>>

(* replace_expunge: remove_at of the sequence number resolved in the OLD   *)
(* snapshot; NO when the fresh one is shorter.                             *)
ReplaceExpunge(s) ==
    LET o == op[s]
        found == BySequence(o.snap.messages, o.seq)
    IN
    /\ At(s, "opened") /\ o.why = "source"
    /\ IF found # {} THEN Step(s, [o EXCEPT !.pc = "remove", !.ids = found]) ELSE Done(s)
    /\ UNCHANGED <<disk, archive, snap, cache, others, history>>

(***************************************************************************)
(* The others: a delivery, POP3 removing what it deleted at QUIT (only the *)
(* .eml), the sweeper, a restore, time, and a crash of the server.         *)
(***************************************************************************)
(* deliver_to_account: the rename, then the flags a Sieve script set.      *)
Deliver(m, given) ==
    LET overlap == IF given = {} THEN {} ELSE Overlap(Sessions) IN
    /\ m \notin used /\ "deliver" \in Commands
    /\ overlap \subseteq Mishaps
    /\ eml' = eml \union {m}
    /\ used' = used \union {m}
    /\ filing' = IF given = {} THEN filing ELSE filing \union {<<m, given>>}
    /\ disturbed' = disturbed \union overlap
    /\ UNCHANGED <<flags, uid, modseq, uidnext, modseqctr, vanished, index>>
    /\ UNCHANGED <<archive, op, snap, cache, sweep, restoring, clock, issued, leftAt, erased>>

WriteFlagSidecar(m, given) ==
    /\ <<m, given>> \in filing
    /\ flags' = [flags EXCEPT ![m] = given]
    /\ filing' = filing \ {<<m, given>>}
    /\ UNCHANGED <<eml, uid, modseq, uidnext, modseqctr, vanished, index>>
    /\ UNCHANGED <<archive, op, snap, cache, sweep, restoring, clock, history, disturbed>>

Pop3Remove(m) ==
    /\ m \in eml /\ "pop3" \in Mishaps
    /\ eml' = eml \ {m}
    /\ erased' = erased \union {m}
    /\ disturbed' = disturbed \union {"pop3"}
    /\ UNCHANGED <<flags, uid, modseq, uidnext, modseqctr, vanished, index>>
    /\ UNCHANGED <<archive, op, snap, cache, others, used, issued, leftAt>>

Sidecars == {m \in Messages : deletedAt[m] >= 0}
(* mutant: due on the last day of the period *)
DueEarly == {m \in Sidecars : clock - deletedAt[m] >= Retention}

Due == {m \in Sidecars : clock - deletedAt[m] > Retention}

SweepRead ==
    /\ Retention > 0 /\ sweep = {} /\ Due # {}
    /\ sweep' = Due
    /\ UNCHANGED <<disk, archive, op, snap, cache, filing, restoring, clock, history, disturbed>>

SweepRemove ==
    /\ sweep # {}
    /\ archived' = archived \ sweep
    /\ deletedAt' = [m \in Messages |-> IF m \in sweep THEN -1 ELSE deletedAt[m]]
    /\ sweep' = {}
    /\ UNCHANGED <<disk, op, snap, cache, filing, restoring, clock, history, disturbed>>

(* restore: append a copy under a new id, then drop the archived entry.    *)
RestoreAppend(m, copy) ==
    /\ restoring = {} /\ "restore" \in Commands
    /\ m \in archived \intersect Sidecars
    /\ Newest(copy)
    /\ eml' = eml \union {copy}
    /\ used' = used \union {copy}
    /\ erased' = erased \union {m}
    /\ restoring' = {m}
    /\ UNCHANGED <<flags, uid, modseq, uidnext, modseqctr, vanished, index>>
    /\ UNCHANGED <<archive, op, snap, cache, filing, sweep, clock, issued, leftAt, disturbed>>

RestoreRemove ==
    /\ restoring # {}
    /\ archived' = archived \ restoring
    /\ deletedAt' = [m \in Messages |-> IF m \in restoring THEN -1 ELSE deletedAt[m]]
    /\ restoring' = {}
    /\ UNCHANGED <<disk, op, snap, cache, filing, sweep, clock, history, disturbed>>

Tick ==
    /\ clock < MaxTime
    /\ \A s \in Sessions : /\ snap[s].open => clock - snap[s].now < SessionSpan
                           /\ ~ Busy(s)
    /\ clock' = clock + 1
    /\ UNCHANGED <<disk, archive, op, snap, cache, filing, sweep, restoring, history, disturbed>>

Crash ==
    /\ "crash" \in Mishaps \ disturbed
    /\ op' = [s \in Sessions |-> Idle]
    /\ snap' = [s \in Sessions |-> NoSnapshot]
    /\ filing' = {} /\ sweep' = {} /\ restoring' = {}
    /\ disturbed' = disturbed \union {"crash"}
    /\ UNCHANGED <<disk, archive, cache, clock, history>>

----------------------------------------------------------------------------
Init ==
    /\ eml \in SUBSET Messages /\ flags = [m \in Messages |-> {}]
    /\ uid = [m \in Messages |-> 0] /\ modseq = [m \in Messages |-> 1]
    /\ uidnext = 0 /\ modseqctr = 1 /\ vanished = {} /\ index = NoIndex
    /\ archived = {} /\ deletedAt = [m \in Messages |-> -1]
    /\ op = [s \in Sessions |-> Idle] /\ snap = [s \in Sessions |-> NoSnapshot]
    /\ cache = [s \in Sessions |-> [uids |-> {}, modseq |-> 0]]
    /\ filing = {} /\ sweep = {} /\ restoring = {} /\ clock = 0
    /\ used = eml /\ issued = {} /\ leftAt = [m \in Messages |-> 0] /\ erased = {}
    /\ disturbed = {}

Open(s) ==
    \/ OpenBegin(s) \/ OpenFromIndex(s)
    \/ ScanList(s) \/ ScanMessage(s) \/ ScanCounter(s) \/ WriteIndex(s)

Removal(s) ==
    \/ RemoveFiles(s)
    \/ ArchiveSidecar(s) \/ ArchiveSidecars(s) \/ ArchiveBody(s) \/ ArchiveFails(s)
    \/ VanishedBump(s) \/ VanishedRecord(s)

Command(s) ==
    \/ Select(s) \/ SelectDone(s) \/ CheckIdle(s) \/ CheckIdleDone(s) \/ Close(s)
    \/ \E m \in Messages, mode \in Modes, given \in SUBSET Flags, since \in {0, cache[s].modseq} :
          Store(s, m, mode, given, since)
    \/ StoreBump(s) \/ StoreStamp(s)
    \/ \E ids \in SUBSET Messages : Expunge(s, ids)
    \/ \E m \in Messages : Destroy(s, m)
    \/ DestroyFound(s)
    \/ \E given \in SUBSET Flags : AppendBegin(s, given)
    \/ \E m \in Messages, given \in SUBSET Flags : ReplaceBegin(s, m, given)
    \/ \E m \in Messages : LiteralDone(s, m)
    \/ AppendFlags(s) \/ AppendUid(s) \/ ReplaceExpunge(s)

Others ==
    \/ \E m \in Messages, given \in SUBSET Flags : Deliver(m, given) \/ WriteFlagSidecar(m, given)
    \/ \E m \in Messages : Pop3Remove(m)
    \/ \E m, copy \in Messages : RestoreAppend(m, copy)
    \/ RestoreRemove \/ SweepRead \/ SweepRemove \/ Tick \/ Crash

Next == (\E s \in Sessions : Open(s) \/ Removal(s) \/ Command(s)) \/ Others

Spec == Init /\ [][Next]_vars

----------------------------------------------------------------------------
PartialRefs(f) == DOMAIN f \subseteq Messages /\ \A m \in DOMAIN f : f[m] \in Refs

(* Types: every message a snapshot or the index lists has a positive UID,  *)
(* and the work left of a scan or a removal concerns known messages.       *)
TypeOK ==
    /\ eml \subseteq used /\ used \subseteq Messages
    /\ flags \in [Messages -> SUBSET Flags]
    /\ uid \in [Messages -> Nat] /\ modseq \in [Messages -> Nat]
    /\ uidnext \in Nat /\ modseqctr \in Nat
    /\ vanished \subseteq (Nat \X Nat)
    /\ PartialRefs(index.messages)
    /\ filing \subseteq Messages \X SUBSET Flags
    /\ archived \subseteq used /\ deletedAt \in [Messages -> Int]
    /\ \A s \in Sessions : /\ PartialRefs(snap[s].messages) /\ PartialRefs(op[s].snap.messages)
                           /\ op[s].ids \subseteq Messages
                           /\ op[s].pc # "idle" => op[s].why # "none"
    /\ disturbed \subseteq {"overlap", "pop3", "crash", "fault"}

Spared(mishaps) == disturbed \intersect mishaps = {}

(***************************************************************************)
(* A snapshot that has just been opened, from the index or by a scan,      *)
(* tells the truth: what it lists is in the mailbox, with the UID, flags   *)
(* and mod-sequence on disk, and nothing that was there when the open      *)
(* began is missing.                                                       *)
(***************************************************************************)
SnapshotFaithful ==
    \A s \in Sessions : At(s, "opened") =>
        LET f == op[s].snap.messages IN
        /\ DOMAIN f \subseteq eml
        /\ Cardinality(DOMAIN f) >= op[s].gen[2]
        /\ \A m \in DOMAIN f : /\ f[m].uid = uid[m] /\ f[m].flags = flags[m]
                               /\ f[m].modseq = modseq[m]

(* SnapshotFaithful holds as long as handlers of different connections do  *)
(* not overlap, POP3 removes nothing, and no handler is cut short.         *)
FaithfulWhenSerial == Spared({"overlap", "pop3", "crash", "fault"}) => SnapshotFaithful

(***************************************************************************)
(* A UID a client has seen names one message for ever, and a message keeps *)
(* its UID: the counter is never reused, not after an expunge either.      *)
(***************************************************************************)
UidsNeverReused ==
    \A a, b \in issued : (a[1] = b[1]) <=> (a[2] = b[2])

(* UidsNeverReused as long as handlers do not overlap and none is cut      *)
(* short; POP3 and late deliveries do no harm.                             *)
UidsWhenSerial == Spared({"overlap", "crash", "fault"}) => UidsNeverReused

(***************************************************************************)
(* QRESYNC: when a client comes back with the mod-sequence it was last     *)
(* told, every UID it remembers is either still in the mailbox or in the   *)
(* VANISHED (EARLIER) answer.                                              *)
(***************************************************************************)
ResyncComplete ==
    \A s \in Sessions : (At(s, "opened") /\ op[s].why = "select") =>
        cache[s].uids \ Uids(op[s].snap.messages) \subseteq Since(cache[s].modseq)

(* ResyncComplete, under the same proviso as FaithfulWhenSerial.           *)
ResyncWhenSerial == Spared({"overlap", "pop3", "crash", "fault"}) => ResyncComplete

(* What the mailbox promises a client while handlers take turns: faithful  *)
(* snapshots, UIDs that are never reused and a complete VANISHED answer    *)
(* (imap/mailbox.rs, imap/index.rs).                                       *)
MailboxCorrect == TypeOK /\ FaithfulWhenSerial /\ UidsWhenSerial /\ ResyncWhenSerial

(***************************************************************************)
(* A message expunged with retention stays recoverable for the retention   *)
(* period, less the time its connection had kept its snapshot (the archive *)
(* is stamped with the time of the SELECT, not of the expunge), unless     *)
(* POP3 or JMAP erased it or it was restored.  A move cut short by a crash *)
(* or a fault leaves an old .deleted behind, which a sweep may act on just *)
(* when the message is expunged again; that is excepted.                   *)
(***************************************************************************)
RetentionKept ==
    Retention > 0 /\ Spared({"crash", "fault"}) =>
        \A m \in used \ (eml \union archived \union erased) :
            clock - leftAt[m] > Retention - SessionSpan

(* REPLACE removes the message its client named.                           *)
ReplaceRemovesSource ==
    \A s \in Sessions : (op[s].why = "source" /\ op[s].ids # {} /\ op[s].pc # "scan") =>
        op[s].ids = {op[s].source}

(* RFC822.SIZE a client is told is that of the plaintext.                  *)
SizesPlain ==
    \A s \in Sessions : \A m \in DOMAIN snap[s].messages :
        snap[s].messages[m].size = "plaintext"

(* The UID range start:* addresses every message from UID start on.        *)
UidRangeComplete ==
    \A s \in Sessions : \A m, first \in DOMAIN snap[s].messages :
        LET f == snap[s].messages IN
        f[m].uid >= f[first].uid => m \in UidAddressed(f, f[first].uid)

(* A STORE with UNCHANGEDSINCE leaves alone a message that changed since.  *)
ConditionalStore ==
    \A s \in Sessions : (At(s, "bump") /\ op[s].since > 0) => modseq[op[s].new] <= op[s].since
=============================================================================

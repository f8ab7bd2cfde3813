------------------------------- MODULE Spool -------------------------------
(***************************************************************************)
(* The crash-safe filesystem spool of storage/spool.rs.  An entry is two   *)
(* files under new/: the raw message <id>.eml and the envelope <id>.json.  *)
(* Every file-system call is a step of its own, because the queue worker,  *)
(* the SMTP connections that store and the operator's requests share the   *)
(* directory without a lock.                                               *)
(***************************************************************************)
EXTENDS Naturals

CONSTANTS
    Ids,          \* spool ids: UUID v7, so the numeric order is the age order
    Messages,     \* the messages that may be accepted: [from, rcpts, noDsn]
    Recipients,   \* recipient addresses
    Senders,      \* reverse-paths, the null sender included
    NullSender,   \* the empty reverse-path of a bounce
    MaxBirth,     \* bound: no message is accepted after this time
    MaxTime       \* bound: the clock stops here

ASSUME IdsAssumption == Ids \subseteq Nat
ASSUME NullSenderAssumption == NullSender \in Senders
ASSUME MessagesAssumption ==
    Messages \subseteq [from : Senders, rcpts : SUBSET Recipients, noDsn : SUBSET Recipients]

VARIABLES
    clock,        \* wall clock
    st,           \* st[id]: how far the store() that created id has come
    born,         \* born[id]: the creation time the UUID encodes
    msg,          \* msg[id]: the part of the envelope store() fixes for good
    emlFile,      \* ids whose new/<id>.eml exists
    envFile,      \* ids whose new/<id>.json exists
    attempts,     \* envelope field attempts, as the json file holds it
    nextAttempt,  \* envelope field next_attempt
    delayWarned   \* envelope field delay_warned

spoolVars == <<clock, st, born, msg, emlFile, envFile, attempts, nextAttempt, delayWarned>>

(***************************************************************************)
(* "tmp": both files written and synced under tmp/; "eml": the message     *)
(* renamed into new/; "stored": the envelope renamed too, the 250 reply    *)
(* not sent yet; "acked": the client has its 250; "unacked": the process   *)
(* died in between, the client will send again; "refused": store() failed  *)
(* or died before the envelope was visible.                                *)
(***************************************************************************)
StoreStates == {"unborn", "tmp", "eml", "stored", "acked", "unacked", "refused"}

SpoolTypeOK ==
    /\ clock \in Nat
    /\ st \in [Ids -> StoreStates]
    /\ born \in [Ids -> Nat]
    /\ msg \in [Ids -> Messages]
    /\ emlFile \subseteq Ids
    /\ envFile \subseteq Ids
    /\ attempts \in [Ids -> Nat]
    /\ nextAttempt \in [Ids -> Nat]
    /\ delayWarned \in [Ids -> BOOLEAN]

SpoolInit ==
    /\ clock = 0
    /\ st = [id \in Ids |-> "unborn"]
    /\ born = [id \in Ids |-> 0]
    /\ msg \in [Ids -> Messages]
    /\ emlFile = {}
    /\ envFile = {}
    /\ attempts = [id \in Ids |-> 0]
    /\ nextAttempt = [id \in Ids |-> 0]
    /\ delayWarned = [id \in Ids |-> FALSE]

(***************************************************************************)
(* What the readers see.                                                   *)
(***************************************************************************)

\* load() needs both files: the envelope to parse, the message to decrypt.
Loads(id) == id \in envFile /\ id \in emlFile

\* list() names every id with an envelope; the caller takes them oldest first.
Listed == envFile

\* The envelope reached new/ at some point of the entry's life.
Spooled(id) == st[id] \in {"stored", "acked", "unacked"}

(***************************************************************************)
(* store(): one step per file-system call.  Ids are handed out in          *)
(* ascending order.                                                        *)
(***************************************************************************)
StoreTmp(id) ==
    /\ st[id] = "unborn"
    /\ \A other \in Ids : other < id => st[other] # "unborn"
    /\ clock <= MaxBirth
    /\ st' = [st EXCEPT ![id] = "tmp"]
    /\ born' = [born EXCEPT ![id] = clock]
    /\ UNCHANGED <<clock, msg, emlFile, envFile, attempts, nextAttempt, delayWarned>>

StoreRenameEml(id) ==
    /\ st[id] = "tmp"
    /\ st' = [st EXCEPT ![id] = "eml"]
    /\ emlFile' = emlFile \cup {id}
    /\ UNCHANGED <<clock, born, msg, envFile, attempts, nextAttempt, delayWarned>>

\* Mutant: the envelope is renamed before the message.
StoreRenameEnvFirst(id) ==
    /\ st[id] = "tmp"
    /\ st' = [st EXCEPT ![id] = "stored"]
    /\ envFile' = envFile \cup {id}
    /\ UNCHANGED <<clock, born, msg, emlFile, attempts, nextAttempt, delayWarned>>

StoreRenameEnv(id) ==
    /\ st[id] = "eml"
    /\ st' = [st EXCEPT ![id] = "stored"]
    /\ envFile' = envFile \cup {id}
    /\ UNCHANGED <<clock, born, msg, emlFile, attempts, nextAttempt, delayWarned>>

\* Mutant: the reply does not wait for the second rename.
StoreAckEarly(id) ==
    /\ st[id] \in {"eml", "stored"}
    /\ st' = [st EXCEPT ![id] = "acked"]
    /\ UNCHANGED <<clock, born, msg, emlFile, envFile, attempts, nextAttempt, delayWarned>>

\* The sink returned Ok and the SMTP session answers 250.
StoreAck(id) ==
    /\ st[id] = "stored"
    /\ st' = [st EXCEPT ![id] = "acked"]
    /\ UNCHANGED <<clock, born, msg, emlFile, envFile, attempts, nextAttempt, delayWarned>>

\* An I/O error of store() before the last rename: 451 to the client, and
\* whatever was already renamed stays where it is.
StoreFails(id) ==
    /\ st[id] \in {"tmp", "eml"}
    /\ st' = [st EXCEPT ![id] = "refused"]
    /\ UNCHANGED <<clock, born, msg, emlFile, envFile, attempts, nextAttempt, delayWarned>>

\* What a process crash does to the stores in flight.
StoreCrashed ==
    [id \in Ids |-> IF st[id] \in {"tmp", "eml"} THEN "refused"
                    ELSE IF st[id] = "stored" THEN "unacked" ELSE st[id]]

(***************************************************************************)
(* The effects of the last file-system call of the other operations; the   *)
(* callers, which hold the entry they loaded earlier, are processes of     *)
(* OutboundQueue.                                                          *)
(***************************************************************************)

\* record_attempt: the rename of the rewritten envelope over new/<id>.json.
\* Only the worker writes the retry fields, so the count it loaded is current.
RenameAttempt(id, until) ==
    /\ envFile' = envFile \cup {id}
    /\ attempts' = [attempts EXCEPT ![id] = @ + 1]
    /\ nextAttempt' = [nextAttempt EXCEPT ![id] = until]
    /\ UNCHANGED <<clock, st, born, msg, emlFile, delayWarned>>

\* mark_delay_warned: the same rename with delay_warned set.
RenameWarned(id) ==
    /\ envFile' = envFile \cup {id}
    /\ delayWarned' = [delayWarned EXCEPT ![id] = TRUE]
    /\ UNCHANGED <<clock, st, born, msg, emlFile, attempts, nextAttempt>>

\* remove(): the envelope first, then the message file.
UnlinkEnv(id) ==
    /\ id \in envFile
    /\ envFile' = envFile \ {id}
    /\ UNCHANGED <<clock, st, born, msg, emlFile, attempts, nextAttempt, delayWarned>>

UnlinkEml(id) ==
    /\ id \in emlFile
    /\ emlFile' = emlFile \ {id}
    /\ UNCHANGED <<clock, st, born, msg, envFile, attempts, nextAttempt, delayWarned>>

Tick ==
    /\ clock < MaxTime
    /\ clock' = clock + 1
    /\ UNCHANGED <<st, born, msg, emlFile, envFile, attempts, nextAttempt, delayWarned>>
=============================================================================

---------------------------- MODULE ImapSettings ----------------------------
(***************************************************************************)
(* The side files of an IMAP account: the subscriptions, the access control *)
(* lists and the annotations (imap/subscriptions.rs, acl.rs, metadata.rs    *)
(* and the command handlers above them).  A command reads a file, computes  *)
(* the new content and writes it with fs::write; no lock is held, and       *)
(* several connections of an account do so at once.                         *)
(*                                                                          *)
(* A file is a function from its keys (mailbox, identifier, entry) to a set *)
(* of values; a key without a line has none.                                *)
(***************************************************************************)
EXTENDS Integers, Sequences, FiniteSets

CONSTANTS
    SetClients,     \* connections of the account
    SetNames,       \* mailbox names
    SetFold,        \* SetFold[n]: n without regard to case
    SetInbox,       \* INBOX, the only mailbox always there
    SetOwner,       \* the account, as an ACL identifier
    SetIds,         \* identifiers, SetOwner among them
    SetRights,      \* ALL_RIGHTS
    SetEntries,     \* annotation entries valid_entry accepts
    SetValues       \* annotation values

VARIABLES
    setKind,        \* the file the clients of this behaviour work on: no command touches two
    setFile,        \* the three files
    setHand,        \* per client, the writes that its command has still to do
    \* history
    setWanted,      \* what the answered commands asked for
    setUnsafe       \* commands overlapped, or one was cut short or failed

setVars == <<setKind, setFile, setHand, setWanted, setUnsafe>>

Keys == [subs |-> SetNames, acl |-> SetIds, meta |-> SetEntries]
Nothing(file) == [k \in Keys[file] |-> {}]
Files == DOMAIN Keys

SetInit ==
    /\ setKind \in Files
    /\ setFile = [f \in Files |-> Nothing(f)]
    /\ setHand = [c \in SetClients |-> <<>>]
    /\ setWanted = [f \in Files |-> Nothing(f)]
    /\ setUnsafe = FALSE

----------------------------------------------------------------------------
(* What a command makes of the content it read *)

\* list_subscribed: INBOX is always in the list
ListSubscribed == [setFile["subs"] EXCEPT ![SetInbox] = {TRUE}]

Same(n, m) == SetFold[n] = SetFold[m]

\* subscribe does nothing if the name is there in any case
Subscribed(n) ==
    IF \E m \in SetNames : Same(n, m) /\ ListSubscribed[m] # {}
    THEN setFile["subs"]
    ELSE [ListSubscribed EXCEPT ![n] = {TRUE}]

Unsubscribed(n) == [m \in SetNames |-> IF Same(m, n) THEN {} ELSE ListSubscribed[m]]

\* rights_of: the owner's rights are not stored
RightsOf(id) == IF id = SetOwner THEN SetRights ELSE setFile["acl"][id]

\* acl::set: +rights, -rights or rights
NewRights(op, rights, current) ==
    CASE op = "+" -> current \cup rights
      [] op = "-" -> current \ rights
      [] op = "=" -> rights

AclSet(id, op, rights) ==
    IF id = SetOwner THEN setFile["acl"]
    ELSE [setFile["acl"] EXCEPT ![id] = NewRights(op, rights, @)]

AclDelete(id) == IF id = SetOwner THEN setFile["acl"] ELSE [setFile["acl"] EXCEPT ![id] = {}]

\* mutant: an entry is added to the ones that are there
MetadataSetTwice(entry, values) == [setFile["meta"] EXCEPT ![entry] = @ \cup values]

\* metadata::set, a value or NIL
MetadataSet(entry, values) == [setFile["meta"] EXCEPT ![entry] = values]

----------------------------------------------------------------------------
(* The commands *)

Idle(c) == setHand[c] = <<>>
Ready(c, file) == Idle(c) /\ setKind = file
Busy(file, c) == \E d \in SetClients \ {c} : setHand[d] # <<>> /\ Head(setHand[d]).file = file

\* fs::write truncates, then writes
Writes(file, content) ==
    << [do |-> "truncate", file |-> file, to |-> content], [do |-> "fill", file |-> file, to |-> content] >>

\* a command has read its file: the writes, and what they are to achieve
Begin(c, file, content, key, values) ==
    /\ setHand' = [setHand EXCEPT ![c] = Writes(file, content)]
    /\ setWanted' = [setWanted EXCEPT ![file][key] = values]
    /\ setUnsafe' = (setUnsafe \/ Busy(file, c))
    /\ UNCHANGED <<setKind, setFile>>

Subscribe(c, n) == Ready(c, "subs") /\ Begin(c, "subs", Subscribed(n), n, {TRUE})
Unsubscribe(c, n) == Ready(c, "subs") /\ Begin(c, "subs", Unsubscribed(n), n, {})

\* SETACL and DELETEACL; the owner is left alone
SetAcl(c, id, op, rights) ==
    /\ Ready(c, "acl")
    /\ Begin(c, "acl", AclSet(id, op, rights), id,
             IF id = SetOwner THEN {} ELSE NewRights(op, rights, setWanted["acl"][id]))

DeleteAcl(c, id) == Ready(c, "acl") /\ Begin(c, "acl", AclDelete(id), id, {})

\* SETMETADATA with one or two entries: the second is read and written after
\* the first
SetMetadata(c, entry, values, more) ==
    /\ Ready(c, "meta")
    /\ setHand' = [setHand EXCEPT ![c] =
                      Writes("meta", MetadataSet(entry, values))
                      \o [i \in 1..Len(more) |-> [do |-> "set", file |-> "meta", to |-> more[i]]]]
    /\ setWanted' = [setWanted EXCEPT !["meta"] =
                        [e \in SetEntries |->
                            IF \E i \in DOMAIN more : more[i].entry = e
                            THEN more[CHOOSE i \in DOMAIN more : more[i].entry = e].values
                            ELSE IF e = entry THEN values ELSE @[e]]]
    /\ setUnsafe' = (setUnsafe \/ Busy("meta", c))
    /\ UNCHANGED <<setKind, setFile>>

\* the next step of the command in hand
Step(c) ==
    /\ setHand[c] # <<>>
    /\ LET step == Head(setHand[c]) IN
         /\ setFile' = CASE step.do = "truncate" -> [setFile EXCEPT ![step.file] = Nothing(step.file)]
                         [] step.do = "fill" -> [setFile EXCEPT ![step.file] = step.to]
                         [] step.do = "set" -> setFile
         /\ setHand' = [setHand EXCEPT ![c] =
                           (IF step.do = "set" THEN Writes("meta", MetadataSet(step.to.entry, step.to.values))
                            ELSE <<>>) \o Tail(@)]
    /\ UNCHANGED <<setKind, setWanted, setUnsafe>>

\* a write fails, or the server stops: the rest of the command is not done
CutShort(c) ==
    /\ setHand[c] # <<>>
    /\ setHand' = [setHand EXCEPT ![c] = <<>>]
    /\ setUnsafe' = TRUE
    /\ UNCHANGED <<setKind, setFile, setWanted>>

Items == [entry : SetEntries, values : {{}} \cup {{v} : v \in SetValues}]

SetNext ==
    \E c \in SetClients :
        \/ \E n \in SetNames : Subscribe(c, n) \/ Unsubscribe(c, n)
        \/ \E id \in SetIds, op \in {"+", "-", "="}, rights \in SUBSET SetRights : SetAcl(c, id, op, rights)
        \/ \E id \in SetIds : DeleteAcl(c, id)
        \/ \E item \in Items, more \in {<<>>} \cup {<<i>> : i \in Items} :
              SetMetadata(c, item.entry, item.values, more)
        \/ Step(c) \/ CutShort(c)

----------------------------------------------------------------------------
(* Properties *)

SetTypeOK ==
    /\ \A f \in Files : DOMAIN setFile[f] = Keys[f]
    /\ \A c \in SetClients : Len(setHand[c]) <= 4

\* SUBSCRIBE, SETACL, DELETEACL and SETMETADATA do what they say and nothing
\* else: between commands, every key has what was asked for last, as long as no
\* two commands overlapped on a file and none was cut short.  Mailboxes whose
\* names differ only in case are excepted: subscribing one does nothing when the
\* other is, and unsubscribing one drops both.
SettingsKept ==
    (~setUnsafe /\ \A c \in SetClients : Idle(c)) =>
        /\ setFile["acl"] = setWanted["acl"] /\ setFile["meta"] = setWanted["meta"]
        /\ \A n \in SetNames :
              (n # SetInbox /\ \A m \in SetNames : Same(n, m) => m = n) =>
                  ListSubscribed[n] = setWanted["subs"][n]

\* An account cannot lose rights on its own mailboxes, whatever overlaps.
OwnerKeepsRights == RightsOf(SetOwner) = SetRights /\ setFile["acl"][SetOwner] = {}

\* "replacing the sidecar atomically" (acl.rs): a command that sets one
\* identifier never leaves the others without their rights.  Not so: fs::write
\* truncates first, and what follows may not come.
SidecarAtomic ==
    [][\A id \in SetIds : setFile["acl"][id] # {} /\ setFile'["acl"][id] = {}
          => setWanted["acl"][id] = {}]_setVars

============================================================================

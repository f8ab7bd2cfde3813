---------------------------- MODULE AccountStore ----------------------------
(***************************************************************************)
(* The account store (src/directory_store) and the requests that change it *)
(* (src/api/v1/accounts.rs, src/api/scim/users.rs, src/api/v1/masked.rs).  *)
(*                                                                         *)
(* The store keeps the dynamic accounts, the masked addresses and the app  *)
(* passwords three times over: in memory behind locks, in a file each      *)
(* (rewritten whole, by write and rename), and in the immutable Directory  *)
(* that the servers read, published through a handle.  A mutator changes   *)
(* memory and file under the lock, lets go of the lock, builds a new       *)
(* Directory from memory and publishes it: three steps another request may *)
(* come between.  Removing an account walks the account's whole footprint  *)
(* in a fixed order, the row last.                                         *)
(*                                                                         *)
(* A row carries the number of its life (how often the name was created    *)
(* before), and mail, masks, app passwords and suppression markers carry   *)
(* the life they were made for, 0 when the name had no row then.  The life *)
(* is history: no guard of the code reads it.                              *)
(***************************************************************************)
EXTENDS Naturals, FiniteSets

CONSTANTS
    Names,          \* account names the store accepts (validate_name)
    Addrs,          \* addresses in configured domains
    StaticAddrs,    \* addresses the configuration file gives to static accounts
    Masks,          \* masked addresses the random suffix may yield
    Passwords,      \* argon2id hashes a request may carry
    NoPassword,     \* the inert hash of a SCIM account without a password
    Gone,           \* no row, no mask, no promise
    Procs,          \* request handlers that may run at the same time
    Ops,            \* the operations the requests of this instance perform
    Flags,          \* values of the disabled flag requests carry
    PutPasswords,   \* password extensions a SCIM PUT may carry
    MaxMasks,       \* masked addresses an account may own, 0: no cap
    Quiesced,       \* TRUE: nothing else touches an account under removal
    MaxLives,       \* bound: creations of one name
    MaxFaults,      \* bound: failing file writes
    MaxCrashes      \* bound: restarts of the server

ASSUME StoreAssumption ==
    /\ StaticAddrs \subseteq Addrs
    /\ PutPasswords \subseteq Passwords /\ Flags \subseteq BOOLEAN
    /\ NoPassword \notin Passwords
    /\ Gone \notin Names \cup Passwords \cup {NoPassword}
    /\ MaxMasks \in Nat /\ MaxLives \in Nat
    /\ MaxFaults \in Nat /\ MaxCrashes \in Nat

VARIABLES
    rows, disk,             \* accounts in memory, accounts.toml
    masks, masksDisk,       \* masked addresses in memory, masked.json
    apps, appsDisk,         \* app passwords in memory, app_passwords.toml
    view,                   \* the Directory the handle publishes
    mail,                   \* mailbox directories: lives whose mail they hold
    supp,                   \* per-account suppression lists, by directory key
    queued,                 \* reverse paths of the messages in the spool
    inflight,               \* deliveries resolved but not yet written
    req,                    \* what each request handler is doing
    acked,                  \* the password the last OK answer promised
    born, faults, crashes   \* bounded counters

stored == <<rows, disk, masks, masksDisk, apps, appsDisk>>
outside == <<mail, supp, queued, inflight>>
counters == <<born, faults, crashes>>
vars == <<stored, outside, view, req, acked, counters>>

Lives == 0..MaxLives
Row == [addrs : SUBSET Addrs, pw : Passwords \cup {NoPassword},
        totp : BOOLEAN, off : BOOLEAN, life : Lives]
Mask == [owner : Names, on : BOOLEAN, life : Lives]
Directory == [rows : [Names -> Row \cup {Gone}],
              masks : [Masks -> Names \cup {Gone}],
              apps : [Names -> SUBSET Lives]]
Steps == {"idle", "build", "publish", "replace",
          "masks", "apps", "supp", "mailbox", "row", "removed"}
Request == [pc : Steps, then : Steps, name : Names \cup {Gone},
            promise : Passwords \cup {NoPassword, Gone},
            was : Row \cup {Gone}, built : Directory \cup {Gone}]

\* Absence (None) is never mistaken for a row or a mask.
ASSUME GoneAssumption == Gone \notin Row /\ Gone \notin Mask

Exists(n) == rows[n] # Gone
LifeOf(n) == IF Exists(n) THEN rows[n].life ELSE 0

(***************************************************************************)
(* build_directory: what the servers will see of memory.  A disabled mask  *)
(* is left out, so it answers like an unknown user.                        *)
(***************************************************************************)
BuildDirectory ==
    [rows  |-> rows,
     masks |-> [m \in Masks |-> IF masks[m] # Gone /\ masks[m].on
                                THEN masks[m].owner ELSE Gone],
     apps  |-> apps]

Idle == [pc |-> "idle", then |-> "idle", name |-> Gone,
         promise |-> Gone, was |-> Gone, built |-> Gone]

\* A request of p about n that has left the lock, publishes, and goes on at next.
Publishes(p, n, promise, next) ==
    req' = [req EXCEPT ![p] = [@ EXCEPT !.pc = "build", !.then = next,
                                        !.name = n, !.promise = promise]]
Continues(p, next) == req' = [req EXCEPT ![p].pc = next]
Ends(p) == req' = [req EXCEPT ![p] = Idle]

Removing(n) == \E p \in Procs : /\ req[p].name = n
                                /\ {req[p].pc, req[p].then} \cap
                                     {"masks", "apps", "supp", "mailbox", "row", "removed"} # {}
\* With Quiesced the operator keeps everything else off an account being removed.
Undisturbed(n) == Quiesced => ~Removing(n)

Starts(p, op) == req[p].pc = "idle" /\ op \in Ops

-----------------------------------------------------------------------------
(***************************************************************************)
(* A change of the rows under the write lock: memory first, then the whole *)
(* file.  When the file cannot be written the error is returned with the   *)
(* memory already changed, and nothing is published.                       *)
(***************************************************************************)
Persist(p, newRows, n, promise, next) ==
    /\ rows' = newRows
    /\ \/ /\ disk' = newRows
          /\ Publishes(p, n, promise, next)
          /\ UNCHANGED faults
       \/ /\ faults < MaxFaults /\ faults' = faults + 1
          /\ Ends(p)
          /\ UNCHANGED disk
    /\ UNCHANGED <<masks, masksDisk, apps, appsDisk, view, crashes>>

\* A plausible slip: the file is asked instead of memory.
TakenInFile(n) == StaticAddrs \cup
                  UNION {disk[m].addrs : m \in {k \in Names \ {n} : disk[k] # Gone}}

Taken(n) == StaticAddrs \cup
            UNION {rows[m].addrs : m \in {k \in Names \ {n} : Exists(k)}}

(***************************************************************************)
(* AccountStore::add, from POST /accounts and POST /Users.                 *)
(***************************************************************************)
Add(p, n, pw, A, off) ==
    /\ Starts(p, "create") /\ Undisturbed(n)
    /\ born[n] < MaxLives
    /\ A # {} /\ ~Exists(n) /\ A \cap Taken(n) = {}
    /\ Persist(p, [rows EXCEPT ![n] =
                     [addrs |-> A, pw |-> pw, totp |-> FALSE, off |-> off,
                      life |-> born[n] + 1]], n, pw, "idle")
    /\ born' = [born EXCEPT ![n] = @ + 1]
    /\ acked' = [acked EXCEPT ![n] = Gone]
    /\ UNCHANGED outside

(***************************************************************************)
(* AccountStore::set_password_hash, set_disabled and set_totp.  The last   *)
(* does not publish: the request ends with the file written.               *)
(***************************************************************************)
\* A plausible slip: the file is not rewritten.
SetPasswordHashUnsaved(p, n, pw) ==
    /\ Starts(p, "password") /\ Undisturbed(n) /\ Exists(n)
    /\ rows' = [rows EXCEPT ![n].pw = pw]
    /\ Publishes(p, n, pw, "idle")
    /\ acked' = [acked EXCEPT ![n] = Gone]
    /\ UNCHANGED <<disk, masks, masksDisk, apps, appsDisk, view, outside, counters>>

SetPasswordHash(p, n, pw) ==
    /\ Starts(p, "password") /\ Undisturbed(n) /\ Exists(n)
    /\ Persist(p, [rows EXCEPT ![n].pw = pw], n, pw, "idle")
    /\ acked' = [acked EXCEPT ![n] = Gone]
    /\ UNCHANGED <<outside, born>>

\* A plausible slip: the new directory is not published, as in set_totp.
SetDisabledSilently(p, n, off) ==
    /\ Starts(p, "disable") /\ Undisturbed(n) /\ Exists(n)
    /\ rows' = [rows EXCEPT ![n].off = off] /\ disk' = rows'
    /\ UNCHANGED <<masks, masksDisk, apps, appsDisk, view, req, outside, acked, counters>>

SetDisabled(p, n, off) ==
    /\ Starts(p, "disable") /\ Undisturbed(n) /\ Exists(n)
    /\ Persist(p, [rows EXCEPT ![n].off = off], n, Gone, "idle")
    /\ UNCHANGED <<outside, born, acked>>

SetTotp(p, n, on) ==
    /\ Starts(p, "totp") /\ Undisturbed(n) /\ Exists(n)
    /\ rows' = [rows EXCEPT ![n].totp = on]
    /\ \/ disk' = rows' /\ UNCHANGED faults
       \/ faults < MaxFaults /\ faults' = faults + 1 /\ UNCHANGED disk
    /\ UNCHANGED <<masks, masksDisk, apps, appsDisk, outside, view, req, acked,
                   born, crashes>>

(***************************************************************************)
(* PUT /Users/{id}: the row is looked up once; a password extension goes   *)
(* through set_password_hash; then replace_account writes the addresses    *)
(* and the active flag of the request over the row that was looked up.     *)
(***************************************************************************)
PutUser(p, n) ==
    /\ Starts(p, "put") /\ Undisturbed(n) /\ Exists(n)
    /\ req' = [req EXCEPT ![p] = [@ EXCEPT !.pc = "replace", !.name = n,
                                           !.was = rows[n]]]
    /\ UNCHANGED <<stored, outside, view, acked, counters>>

PutPassword(p, n, pw) ==
    /\ Starts(p, "put") /\ Undisturbed(n) /\ Exists(n)
    /\ rows' = [rows EXCEPT ![n].pw = pw]
    /\ \/ /\ disk' = rows' /\ UNCHANGED faults
          /\ req' = [req EXCEPT ![p] = [@ EXCEPT !.pc = "build", !.then = "replace",
                                !.name = n, !.promise = pw, !.was = rows[n]]]
       \/ /\ faults < MaxFaults /\ faults' = faults + 1
          /\ Ends(p) /\ UNCHANGED disk
    /\ acked' = [acked EXCEPT ![n] = Gone]
    /\ UNCHANGED <<masks, masksDisk, apps, appsDisk, outside, view, born, crashes>>

\* A plausible slip: only the configured accounts are looked at.
ClashStaticOnly(n, A) == A \cap StaticAddrs # {}
Clash(n, A) == A \cap Taken(n) # {}

ReplaceAccount(p, A, off) ==
    LET n == req[p].name
    IN  /\ req[p].pc = "replace"
        /\ \/ /\ Exists(n) /\ ~Clash(n, A)
              /\ Persist(p, [rows EXCEPT ![n] =
                               [req[p].was EXCEPT !.addrs = A, !.off = off]],
                         n, req[p].promise, "idle")
           \/ /\ ~Exists(n) \/ Clash(n, A)
              /\ Ends(p)
              /\ UNCHANGED <<stored, view, faults, crashes>>
        /\ UNCHANGED <<outside, born, acked>>

-----------------------------------------------------------------------------
(***************************************************************************)
(* handle.replace(self.build_directory()): two steps, neither under the    *)
(* lock the change was made under.                                         *)
(***************************************************************************)
\* A plausible slip: an empty result is handed on.
BuildStepEmpty(p) ==
    /\ req[p].pc = "build"
    /\ req' = [req EXCEPT ![p].pc = "publish"]
    /\ UNCHANGED <<stored, outside, view, acked, counters>>

BuildStep(p) ==
    /\ req[p].pc = "build"
    /\ req' = [req EXCEPT ![p].pc = "publish", ![p].built = BuildDirectory]
    /\ UNCHANGED <<stored, outside, view, acked, counters>>

\* The last publication of a request is its OK answer.
PublishStep(p) ==
    LET r == req[p]
    IN  /\ r.pc = "publish"
        /\ view' = r.built
        /\ IF r.then \in {"idle", "removed"}
           THEN /\ Ends(p)
                /\ acked' = IF r.promise = Gone THEN acked
                            ELSE [acked EXCEPT ![r.name] = r.promise]
           ELSE /\ req' = [req EXCEPT ![p].pc = r.then, ![p].then = "idle",
                                      ![p].built = Gone]
                /\ UNCHANGED acked
        /\ UNCHANGED <<stored, outside, counters>>

\* set_sql_accounts and set_ldap_accounts, from the periodic refresh: the
\* dynamic part of the directory is rebuilt with the rest.
Refresh(p) ==
    /\ Starts(p, "refresh")
    /\ req' = [req EXCEPT ![p].pc = "build"]
    /\ UNCHANGED <<stored, outside, view, acked, counters>>

-----------------------------------------------------------------------------
(***************************************************************************)
(* Masked addresses.  add_masked does not ask whether the account exists.  *)
(***************************************************************************)
OwnedBy(n) == {m \in Masks : masks[m] # Gone /\ masks[m].owner = n}

PersistMasks(p, newMasks, n, next) ==
    /\ masks' = newMasks
    /\ \/ masksDisk' = newMasks /\ Publishes(p, n, Gone, next) /\ UNCHANGED faults
       \/ /\ faults < MaxFaults /\ faults' = faults + 1
          /\ Ends(p) /\ UNCHANGED masksDisk
    /\ UNCHANGED <<rows, disk, apps, appsDisk, view, acked, born, crashes>>

AddMasked(p, n, m) ==
    /\ Starts(p, "mask") /\ Undisturbed(n)
    /\ masks[m] = Gone
    /\ MaxMasks > 0 => Cardinality(OwnedBy(n)) < MaxMasks
    /\ PersistMasks(p, [masks EXCEPT ![m] =
                          [owner |-> n, on |-> TRUE, life |-> LifeOf(n)]], n, "idle")
    /\ UNCHANGED outside

\* set_enabled writes nothing when the flag is already right, and publishes anyway.
SetMaskedEnabled(p, n, m, on) ==
    /\ Starts(p, "mask") /\ Undisturbed(n) /\ m \in OwnedBy(n)
    /\ IF masks[m].on = on
       THEN Publishes(p, n, Gone, "idle") /\ UNCHANGED <<stored, view, acked, counters>>
       ELSE PersistMasks(p, [masks EXCEPT ![m].on = on], n, "idle")
    /\ UNCHANGED outside

RemoveMasked(p, n, m) ==
    /\ Starts(p, "mask") /\ Undisturbed(n) /\ m \in OwnedBy(n)
    /\ PersistMasks(p, [masks EXCEPT ![m] = Gone], n, "idle")
    /\ UNCHANGED outside

-----------------------------------------------------------------------------
(***************************************************************************)
(* remove_account.  The row and its addresses are read first; then the     *)
(* spool, the masks, the app passwords, the suppression list and the       *)
(* mailbox go, and the row last.  The spool walk is the first step.        *)
(***************************************************************************)
RemoveAccount(p, n, discard) ==
    /\ Starts(p, "remove") /\ Exists(n)
    /\ Quiesced => \A f \in inflight : f.name # n
    /\ queued' = IF discard THEN queued \ rows[n].addrs ELSE queued
    /\ req' = [req EXCEPT ![p] = [@ EXCEPT !.pc = "masks", !.name = n]]
    /\ UNCHANGED <<stored, mail, supp, inflight, view, acked, counters>>

\* remove_all_masked neither writes nor publishes when memory holds no mask.
RemoveMasks(p) ==
    LET n == req[p].name
    IN  /\ req[p].pc = "masks"
        /\ IF OwnedBy(n) = {}
           THEN Continues(p, "apps") /\ UNCHANGED <<stored, view, acked, counters>>
           ELSE PersistMasks(p, [m \in Masks |-> IF m \in OwnedBy(n) THEN Gone
                                                 ELSE masks[m]], n, "apps")
        /\ UNCHANGED outside

\* A plausible slip: only the mirror in memory is cleared.
RemoveAppsMirrorOnly(p) ==
    LET n == req[p].name
    IN  /\ req[p].pc = "apps"
        /\ apps' = [apps EXCEPT ![n] = {}]
        /\ Publishes(p, n, Gone, "supp")
        /\ UNCHANGED <<rows, disk, masks, masksDisk, appsDisk, outside, view, acked, counters>>

\* remove_all_app_passwords reads and rewrites the file before it drops the mirror.
RemoveApps(p) ==
    LET n == req[p].name
    IN  /\ req[p].pc = "apps"
        /\ \/ /\ appsDisk' = [appsDisk EXCEPT ![n] = {}]
              /\ apps' = [apps EXCEPT ![n] = {}]
              /\ Publishes(p, n, Gone, "supp")
              /\ UNCHANGED faults
           \/ /\ appsDisk[n] # {} /\ faults < MaxFaults /\ faults' = faults + 1
              /\ Ends(p)
              /\ UNCHANGED <<apps, appsDisk>>
        /\ UNCHANGED <<rows, disk, masks, masksDisk, outside, view, acked, born, crashes>>

\* An I/O error ends the request where it stands.
FailsUnchanged(p, v) ==
    /\ faults < MaxFaults /\ faults' = faults + 1
    /\ Ends(p) /\ UNCHANGED v

\* SuppressionList::remove_all_for, keyed by the account's name.
RemoveSuppression(p) ==
    /\ req[p].pc = "supp"
    /\ \/ supp' = [supp EXCEPT ![req[p].name] = {}] /\ Continues(p, "mailbox")
          /\ UNCHANGED faults
       \/ FailsUnchanged(p, supp)
    /\ UNCHANGED <<stored, mail, queued, inflight, view, acked, born, crashes>>

RemoveMailbox(p) ==
    /\ req[p].pc = "mailbox"
    /\ \/ mail' = [mail EXCEPT ![req[p].name] = {}] /\ Continues(p, "row")
          /\ UNCHANGED faults
       \/ FailsUnchanged(p, mail)
    /\ UNCHANGED <<stored, supp, queued, inflight, view, acked, born, crashes>>

\* AccountStore::remove; a row another request removed meanwhile is NotFound.
RemoveRow(p) ==
    LET n == req[p].name
    IN  /\ req[p].pc = "row"
        /\ IF Exists(n)
           THEN /\ Persist(p, [rows EXCEPT ![n] = Gone], n, Gone, "removed")
                /\ acked' = [acked EXCEPT ![n] = Gone]
           ELSE Ends(p) /\ UNCHANGED <<stored, view, acked, faults, crashes>>
        /\ UNCHANGED <<outside, born>>

-----------------------------------------------------------------------------
(***************************************************************************)
(* The rest of the server and the command line.                            *)
(***************************************************************************)
\* LocalDelivery resolves a recipient against the published directory...
Resolve(n) ==
    /\ "deliver" \in Ops /\ Undisturbed(n)
    /\ view.rows[n] # Gone /\ view.rows[n].addrs # {}
    /\ inflight' = inflight \cup {[name |-> n, life |-> view.rows[n].life]}
    /\ UNCHANGED <<stored, mail, supp, queued, view, req, acked, counters>>

\* ...and then writes the message, creating the mailbox directory.
Deposit(f) ==
    /\ f \in inflight
    /\ mail' = [mail EXCEPT ![f.name] = @ \cup {f.life}]
    /\ inflight' = inflight \ {f}
    /\ UNCHANGED <<stored, supp, queued, view, req, acked, counters>>

\* A message from an address of the account enters the spool (it stays there
\* until a removal discards it: the queue itself is module OutboundQueue).
Submit(n, a) ==
    /\ "submit" \in Ops /\ Undisturbed(n)
    /\ view.rows[n] # Gone /\ a \in view.rows[n].addrs
    /\ queued' = queued \cup {a}
    /\ UNCHANGED <<stored, mail, supp, inflight, view, req, acked, counters>>

\* suppress_entry files the bounce of such a message under its reverse path.
SuppressFor(n, a) ==
    /\ "bounce" \in Ops /\ Undisturbed(n)
    /\ view.rows[n] # Gone /\ a \in view.rows[n].addrs
    /\ supp' = [supp EXCEPT ![a] = @ \cup {view.rows[n].life}]
    /\ UNCHANGED <<stored, mail, queued, inflight, view, req, acked, counters>>

\* The command line adds an app password, or revokes one, in the file only.
CliAdd(n) ==
    /\ "cli" \in Ops /\ Undisturbed(n)
    /\ LifeOf(n) \notin appsDisk[n]
    /\ appsDisk' = [appsDisk EXCEPT ![n] = @ \cup {LifeOf(n)}]
    /\ UNCHANGED <<rows, disk, masks, masksDisk, apps, outside, view, req, acked, counters>>

CliRevoke(n, life) ==
    /\ "cli" \in Ops /\ Undisturbed(n)
    /\ life \in appsDisk[n]
    /\ appsDisk' = [appsDisk EXCEPT ![n] = @ \ {life}]
    /\ UNCHANGED <<rows, disk, masks, masksDisk, apps, outside, view, req, acked, counters>>

\* The process dies; the next one reads the files and publishes (open).
Crash ==
    /\ crashes < MaxCrashes /\ crashes' = crashes + 1
    /\ rows' = disk /\ masks' = masksDisk /\ apps' = appsDisk
    /\ view' = BuildDirectory'
    /\ req' = [p \in Procs |-> Idle]
    /\ inflight' = {}
    /\ UNCHANGED <<disk, masksDisk, appsDisk, mail, supp, queued, acked, born, faults>>

-----------------------------------------------------------------------------
Init ==
    /\ rows = [n \in Names |-> Gone] /\ disk = rows
    /\ masks = [m \in Masks |-> Gone] /\ masksDisk = masks
    /\ apps = [n \in Names |-> {}] /\ appsDisk = apps
    /\ view = BuildDirectory
    /\ mail = [n \in Names |-> {}]
    /\ supp = [k \in Names \cup Addrs |-> {}]
    /\ queued = {} /\ inflight = {}
    /\ req = [p \in Procs |-> Idle]
    /\ acked = [n \in Names |-> Gone]
    /\ born = [n \in Names |-> 0] /\ faults = 0 /\ crashes = 0

RequestStep(p) ==
    \/ \E n \in Names :
         \/ \E pw \in Passwords \cup {NoPassword}, A \in SUBSET Addrs, off \in Flags :
              Add(p, n, pw, A, off)
         \/ \E pw \in Passwords : SetPasswordHash(p, n, pw)
         \/ \E off \in Flags : SetDisabled(p, n, off)
         \/ \E on \in BOOLEAN : SetTotp(p, n, on)
         \/ PutUser(p, n)
         \/ \E pw \in PutPasswords : PutPassword(p, n, pw)
         \/ \E discard \in BOOLEAN : RemoveAccount(p, n, discard)
         \/ \E m \in Masks : AddMasked(p, n, m) \/ RemoveMasked(p, n, m)
         \/ \E m \in Masks, on \in BOOLEAN : SetMaskedEnabled(p, n, m, on)
    \/ \E A \in (SUBSET Addrs) \ {{}}, off \in Flags : ReplaceAccount(p, A, off)
    \/ BuildStep(p) \/ PublishStep(p) \/ Refresh(p)
    \/ RemoveMasks(p) \/ RemoveApps(p) \/ RemoveSuppression(p)
    \/ RemoveMailbox(p) \/ RemoveRow(p)

Environment ==
    \/ \E n \in Names : Resolve(n) \/ CliAdd(n) \/ \E l \in Lives : CliRevoke(n, l)
    \/ \E n \in Names, a \in Addrs : Submit(n, a) \/ SuppressFor(n, a)
    \/ \E f \in inflight : Deposit(f)
    \/ Crash

Next == (\E p \in Procs : RequestStep(p)) \/ Environment

Spec == Init /\ [][Next]_vars

-----------------------------------------------------------------------------
Tables(T) == [Names -> T \cup {Gone}]

(***************************************************************************)
(* Every table, published directory and request has its type.              *)
(***************************************************************************)
TypeOK ==
    /\ rows \in Tables(Row) /\ disk \in Tables(Row)
    /\ masks \in [Masks -> Mask \cup {Gone}] /\ masksDisk \in [Masks -> Mask \cup {Gone}]
    /\ apps \in [Names -> SUBSET Lives] /\ appsDisk \in [Names -> SUBSET Lives]
    /\ view \in Directory
    /\ mail \in [Names -> SUBSET Lives]
    /\ supp \in [Names \cup Addrs -> SUBSET Lives]
    /\ queued \subseteq Addrs
    /\ inflight \subseteq [name : Names, life : Lives]
    /\ req \in [Procs -> Request]
    /\ acked \in [Names -> Passwords \cup {NoPassword, Gone}]
    /\ born \in [Names -> Lives] /\ faults \in 0..MaxFaults /\ crashes \in 0..MaxCrashes

Resting == \A p \in Procs : req[p].pc = "idle"

(***************************************************************************)
(* When no request is running the servers see the addresses, passwords,    *)
(* disabled flags, masks and app passwords that memory holds: every        *)
(* mutator publishes what it changed, also across a restart.               *)
(***************************************************************************)
PublishedCurrent ==
    Resting =>
      /\ view.masks = BuildDirectory.masks /\ view.apps = apps
      /\ \A n \in Names :
           /\ view.rows[n] = Gone <=> ~Exists(n)
           /\ Exists(n) => [view.rows[n] EXCEPT !.totp = rows[n].totp] = rows[n]

(***************************************************************************)
(* A second factor enrolled or removed through the API is the one logins   *)
(* are checked against once the request is answered.                       *)
(***************************************************************************)
TotpPublished ==
    Resting => \A n \in Names : Exists(n) /\ view.rows[n] # Gone
                                  => view.rows[n].totp = rows[n].totp

Disjoint(T) ==
    /\ \A n, k \in Names : n # k /\ T[n] # Gone /\ T[k] # Gone
                             => T[n].addrs \cap T[k].addrs = {}
    /\ \A n \in Names : T[n] # Gone => T[n].addrs \cap StaticAddrs = {}

(***************************************************************************)
(* No address belongs to two accounts, in memory, on disk or in the        *)
(* published directory, whatever requests overlap: add and                 *)
(* replace_account check it under the lock they write under.               *)
(***************************************************************************)
AddressesUnique == Disjoint(rows) /\ Disjoint(disk) /\ Disjoint(view.rows)

(***************************************************************************)
(* A password an OK answer confirmed is the account's password, in memory  *)
(* and in the file, until another request changes it: no later request     *)
(* about something else and no restart brings an older one back.           *)
(***************************************************************************)
PasswordHonoured ==
    \A n \in Names :
      acked[n] # Gone /\ (\A p \in Procs : req[p].name # n)
        => /\ Exists(n) /\ rows[n].pw = acked[n]
           /\ disk[n] # Gone /\ disk[n].pw = acked[n]

(***************************************************************************)
(* Removal leaves nothing behind: outside a removal, the mailbox, the      *)
(* masks and the app passwords under a name are those of the account that  *)
(* has the name now, and of nobody when no account has it.                 *)
(***************************************************************************)
Own(n) == {0, LifeOf(n)}

NoGhostMail == \A n \in Names : ~Removing(n) => mail[n] \subseteq Own(n)

NoGhostMasks ==
    \A T \in {masks, masksDisk} : \A m \in Masks :
      T[m] # Gone /\ ~Removing(T[m].owner) => T[m].life \in Own(T[m].owner)

NoGhostApps ==
    \A n \in Names : ~Removing(n) => apps[n] \cup appsDisk[n] \subseteq Own(n)

NoGhost == NoGhostMail /\ NoGhostMasks /\ NoGhostApps

(***************************************************************************)
(* An account never starts with the suppression markers an earlier account *)
(* of its name and address collected.                                      *)
(***************************************************************************)
SuppressionClean ==
    \A n \in Names : Exists(n) /\ ~Removing(n)
      => \A a \in rows[n].addrs : supp[a] \subseteq Own(n)

=============================================================================

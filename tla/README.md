# A TLA+ verification of the Epistle mail server

This directory holds TLA+ models of the mail server in this repository, the TLC
configurations that check them on small instances, and TLAPS proofs. Every
definition follows the source at the lines `PROJECT.json` gives for it under
`map`. Paths below are relative to `src/src/`.

## 1. The system

One process serves SMTP, IMAP, POP3, ManageSieve, JMAP, WebDAV and an HTTP API on
top of plain files. There is no database on the mail path and almost no locking:
files are made visible by write-to-temporary and rename, and each component
relies on the order in which it makes its system calls. Three kinds of task share
those files: the connection handlers (one per client), the queue worker, and periodic
tasks (archive sweep, certificate renewal, DKIM rotation). The command line works on
the same files from another process.

| component | state it keeps | operations | talks to |
|---|---|---|---|
| spool (`storage/spool.rs`) | `<id>.eml` and `<id>.json` per queued message | store, list, load, record_attempt, mark_warned, remove | SMTP submission, API send, worker, CLI |
| queue worker (`queue/worker.rs`) | nothing between passes; the envelope carries attempts, next attempt, warned | a pass over the due entries: resolve, deliver per domain, bounce, suppress, retry, warn, give up | spool, DNS, remote exchangers, bounce sink, suppression list |
| transport (`queue/client.rs`, `queue/worker.rs`, `mtasts/`, `dane/`) | cache of MTA-STS policies | route, look up policy, MX and TLSA, connect, STARTTLS, SMTP dialogue | worker, DNS, exchangers, smarthosts |
| suppression list (`queue/suppression.rs`) | one marker file per recipient, global and per sender | add, contains, remove, remove_all_for | worker, API, CLI, account removal |
| SMTP server (`smtp/session`, `smtp/server/run.rs`) | per connection: state, transaction, TLS, identity, AUTH exchange, error streak | one handler per command, line or chunk | directory, rate limiter, screening, sink |
| screening (`smtp/server/run.rs` 135-493) | greylist, reputation, corpus | hops, DNSBL, greylist, SPF, DKIM, DMARC, ARC, hook, LLM, training | DNS, antispam, sink |
| SPF, DMARC, DKIM, ARC (`spf/`, `dmarc/`, `dkim/`, `arc/`) | nothing | judge a sender; sign, verify and seal a message | DNS, screening, routing |
| DKIM rotation (`dkim/rotate.rs`) | state file, key files, live signer | a daily tick: retire, mint, publish, switch | DNS publishing, worker |
| local delivery and routing (`storage/delivery.rs`, `storage/routing.rs`) | mailboxes | resolve recipients, run Sieve, write copies, forward, split | directory, mailbox, spool |
| Sieve (`sieve/`) and ManageSieve (`managesieve/`) | scripts, the active name, the live filter | lex, parse, evaluate; put, activate, rename, delete a script | delivery |
| account store (`directory_store/`) | accounts, masks and app passwords: in memory, in a file, and in the published directory | add, remove, set password / TOTP / disabled, replace, masks, app passwords, refresh, account removal | API, SCIM, CLI, every server (through the directory) |
| directory (`smtp/directory.rs`, `smtp/address.rs`, `totp/`, `directory_store/ldap.rs`) | maps of accounts, aliases, masks, domain aliases, hashes, app passwords, limits; immutable, replaced as a whole | resolve, owns_address, authenticate, SCRAM credentials, quota and limits | every server; LDAP |
| SCRAM (`smtp/scram.rs`, `smtp/session/scram.rs`) | per exchange: nonce, client-first, binding policy | first, finish | session, directory |
| SRS (`queue/srs.rs`) | nothing; a secret and the day | forward, reverse | routing, RCPT |
| IMAP mailbox (`imap/`) | messages, sidecars, UID and mod-sequence counters, vanished log, index, archive | open (index or scan), STORE, EXPUNGE, APPEND, REPLACE, archive, sweep, restore | IMAP, JMAP, POP3, delivery |
| IMAP session (`imap/session/`, `imap/server.rs`) | per connection: login, selection, saved search, UIDONLY, NOTIFY, compression | one handler per command | mailbox, ACL, metadata and subscription files |
| POP3 (`pop3/`) | per connection: the maildrop listed at login, deletion marks | one handler per command, removal at QUIT | mailbox files |
| WebDAV, CalDAV, CardDAV (`webdav/`) | the tree of an account's files | GET, PUT, DELETE, MKCOL, COPY, MOVE, PROPFIND, reports | files |
| HTTP API (`api/`) | API keys, failure and send limiters | bearer check, accounts, queue, sending | account store, spool |
| OAuth (`api/oauth/`, `oauth/`) | device and authorization codes; the provider's keys | start, approve, poll, redeem, purge; discover, refresh, verify | directory, identity provider |
| DNS publishing (`dns/`, `config/dns.rs`) | nothing; the provider's zone | upsert, delete, list, for thirteen providers | provider APIs |
| ACME (`acme/`) | account key, certificate and key files, live acceptor | account, order, challenges, finalise, install, reload | CA, DNS publishing, servers |

What is hard in this code, and hard to reach with its unit tests:

* **files without locks** - two IMAP connections, POP3, JMAP and deliveries act on
  one mailbox directory; the API, the CLI and the worker on one spool; two requests on
  one DAV tree, one ACL, one subscription file, one script store;
* **crashes between system calls** - a message and its envelope, a UID and its
  counter, a flag and its mod-sequence, a notice and the removal of its entry, a new
  DKIM key and its record, a certificate and its key;
* **caches validated by a stamp** - the mailbox index by mod-sequence and count,
  the directory by being republished after each change, policies and keys by age;
* **state read early and used late** - the snapshot of a SELECT, the sequence
  number of a REPLACE, the account a SCIM PUT read, the account a delivery resolved,
  the free place under a tenant's cap;
* **remotes that never answer, or whose answer is lost** - the worker is one sequential
  task; a DNS provider may have applied the request that timed out;
* **protocol sequences** - AUTH, STARTTLS, DATA and BDAT mixed in any order;
* **algorithms with many small cases** - glob matching, recurrence, sequence sets,
  SPF recursion, ARC chains, canonicalization.

`PROJECT.json` lists these as hazards, each at its line, with the properties that
cover it.

## 2. The modules

| module | models | state | actions |
|---|---|---|---|
| `Spool` | `FsSpool` | which `.eml` and envelope files exist, the envelope's fields, the stage of each store | each rename and unlink of store, record_attempt, mark_warned and remove |
| `OutboundQueue` (extends `Spool`) | `Worker`, `SuppressionList`, operator requests | the worker's program counter, pass, verdict; suppression lists; what the world has seen | one per step of a pass; remote answers; operator; crash and I/O errors; time |
| `MailCustody` | what a queue promises, abstractly | taken, confirmed, held, withdrawn; who got, was told, is excused | take, confirm, deliver, tell, excuse, release, withdraw, return |
| `TransportPolicy` | one delivery attempt: MTA-STS, transport rules, SOCKS5, MX, TLSA, STARTTLS, dialogue | the policy cache, the attempt in hand, what the network answered, what was sent | one per lookup, connection, reply; time |
| `SmtpSession` | `Session` and the loop that feeds it | the fields of `Session`, the loop's mode and error streak | one per command, AUTH line, data line, chunk, and the answer of the screening |
| `Inbound` | the Deliver arm of the server loop, `SplitDelivery`, `LocalDelivery`, the retrying client | per connection: stage, quarantine or rule mailbox, accounts and copies still to do, what is to be spooled; greylist, vacation markers, directory | one per screen, per copy written, per message spooled; failure of each; crash, account removal, prune, time |
| `SenderPolicy` | `check_host`, DMARC discovery and evaluation | none: functions of small zones | - |
| `MessageSigning` | canonicalization, DKIM, ARC | the ARC chain of a message, its content, its hops | a hop that seals, forwards or changes it |
| `DkimRotation` | `rotate.rs` | state file, key files, live signer, published records, messages in transit | each effect of a tick; failure, restart, next day |
| `AccountStore` | `DirectoryStore` and its three files, account removal, SCIM PUT, the CLI, a delivery in progress | memory, disk and published view kept apart; each request's program counter | one per lock region, build, publication or file step |
| `Directory` | `Directory`, `Address`, TOTP codes, the LDAP bind | the published directory | its replacement by one built from another configuration |
| `Scram` | `ScramServer` and the session that drives it | per exchange: the server, its phase, the message it accepted | client-first, client-final |
| `Srs` | `Srs::forward`, `reverse` and the router's use of them | the day, the senders rewritten so far | rewrite a sender, days pass |
| `Mailbox` | the mailbox directory and the IMAP handlers on it | every kind of file; each connection's snapshot and program counter | one per disk access |
| `ImapSession` | one IMAP connection beside other clients | login, selection, view, saved search, modes; mailboxes | one per command or phase of a command; deliveries and removals by others |
| `ImapCompress` | `CompressStream` | buffers on both sides of DEFLATE | poll_read, poll_write, poll_flush, the peer |
| `ImapSettings` | ACL, metadata, subscriptions | the side file and each connection's copy of it | the read, the write (two halves) of each command |
| `ImapSearch` | SEARCH, SORT, THREAD, dates, sequence sets | none: functions | - |
| `Pop3Session` | POP3 connections and their backend | files, state, marks, streak of each connection | one per command, removal at QUIT file by file, loss of a connection |
| `ManageSieve` | ManageSieve connections and the script store | login, script files, active file, live filter, file steps still to do | one per command, one per file step; crash, failed write |
| `SieveScript` | lexer, parser, tests, interpreter | none: recursive functions | - |
| `WebDav` | the DAV handlers | the tree, each task's program counter | one per file operation of each method |
| `CalDav` | recurrence and free-busy | none: functions | - |
| `ApiAccess` | bearer middleware, keys, scopes, tenant caps | key file and loaded keys, limiter, requests, accounts | authenticate, check, act; CLI edits; time |
| `ApiQueue` | sending, listing and removing through the API | spool ids, limiter, pager, removals | send, page, remove, worker's removal; time |
| `OauthGrants` | device and authorization code flows | tables of codes, approvals, tokens | start, approve (check and write), poll, redeem, purge, restart |
| `OauthVerifier` | discovery, JWKS refresh, token checks | the provider's document, the cached keys | rotate, refresh, verify; time |
| `DnsPublish` | the thirteen providers | the zone, each task's operation | each request of upsert, delete, list, with lost requests and answers |
| `Acme` | account, order, challenges, install, renewal | program counter, files, the CA's state, the live certificate | each exchange and file write; failure and stop at any of them |
| `MCClients`, `MCOutside`, `MCDirectory` | several components side by side | `which` picks the one a behaviour is about; the others stay as initialised | those of the components |
| other `MC*` | - | constants for TLC | - |
| `OutboundQueueProofs`, `SmtpSessionProofs`, `InboundProofs`, `AccountStoreProofs`, `MailboxProofs`, `ImapSessionProofs`, `ClientsProofs`, `OutsideProofs` | - | - | the theorems of section 4 |

Data is abstracted to what the properties tell apart. Addresses, accounts, ids and
passwords are model values or small numbers; a message body is a number of octets
(session), a file that exists (queue, mailbox) or a sequence of a few kinds of octet
(framing, canonicalization); a remote conversation is its result in `OutboundQueue`
and a dialogue in `TransportPolicy`. A hash or a signature is the value it covers.
A refused SMTP command changes only the error count, so all refusals are one
action. Variables marked "history" or "for the properties" are read by no guard
of the code.

*Spool and queue.* `StoreTmp`, `StoreRenameEml`, `StoreRenameEnv` and `StoreAck`
are the stages of `FsSpool::store` and of the reply that follows it. `wpc` walks through
`run_once` and `deliver_entry`: `scan` takes the oldest listed entry, `resolve`
and `talk` go domain by domain in `BTreeMap` order, `bounce` and `suppress` are
the permanent branch, `record`/`rename` are `record_attempt` (load and rename are
two steps because nothing locks the file), `aged`, `warn` and `mark` judge the
age, `unlinkEnv`/`unlinkEml` are `remove`.

*Custody.* `MailCustody` knows no files and no worker. A message is *taken* when its
envelope is visible, *held* while it loads, *confirmed* when the client has its 250.
`OutboundQueue` instantiates it with that mapping (`Custody`), and `KeepsCustody` says
that every step of the queue, crashes included, is a custody step or invisible. The
abstract `Return` and the `withdrawn` disjunct of `Deliver` are there because the code
has them: a removal by an operator does not reach an attempt under way, whose
`record_attempt` may even put the envelope back.

*Transport.* `tpJob` is the attempt: policy, exchangers in order of preference, TLSA
answer, greeting, EHLO, STARTTLS, EHLO again, then the dialogue. `tpLearned` remembers
what was established under TLS, so that a reply from before the handshake cannot be
counted as one from after.

*Session.* `mode` is the loop's reading mode, `state` and `txn` are the enum
`State`. `pendingExternal`, `pendingLogin` and `pendingScram` are the three
`Option` fields a response line is matched against, in the code's order. `HandOver` is the
`Deliver` action, and `Answer` its reply.

*Inbound.* The actions from `Hops` to `Llm` are the screens in the loop's order; what
DNS, the reputation, the scanner and the LLM say is chosen freely. `Route` is the loop
over the recipients and `accounts_for`: everything is resolved before anything is
written. `Serve` reads the filter of the account in hand and `Evaluate` turns the
commands it executes into an outcome; a filter may change between attempts, so it is
chosen at each. The copies it asks for carry the place of the command, INBOX first, and
are written in that order. `WriteCopy` is one rename into a mailbox, `VacationCheck` and
`VacationMark` are the two halves of `vacation_should_reply`, `StoreNext` is one message
into the spool, in the order bounce, redirects and forwards, autoresponses, SRS
returns, relay. `made` counts files over all attempts, `spread` is what the attempt in
hand wrote.

*Account store.* A mutator is: change memory and file under the lock (one action),
build a directory (one action), publish it (one action). `RemoveAccount` to
`RemoveRow` are the steps of `removal::remove_account` in the code's order.
`life` numbers the accounts a name has had; it only serves the properties.

*Directory, SCRAM, SRS.* A text is a sequence of characters, because case, separators and
codes cut off the end of a password are what these parts are about. A HashMap is a
function; a walk through one that stops at the first hit yields the set of possible
results. A SCRAM message is a sequence of fields, a key or a proof is the term it is
computed from; the signature of SRS is the text it covers, folded.

*Mailbox.* `OpenBegin` samples the time and the index stamp; `OpenFromIndex`
serves from the index, otherwise `ScanList`, `ScanMessage` per message,
`ScanCounter` and `WriteIndex` are the scan. `Expunge`, `RemoveFiles`,
`Archive*`, `VanishedBump` and `VanishedRecord` are the removal, file by file.
`LiteralDone` may come any time after `AppendBegin` or `ReplaceBegin`: the client
is sending. `disturbed` records whether an overlap, a POP3 removal, a crash or a fault
has happened, so that properties can say under which of these they hold.

*Client services.* A request that makes several file operations keeps what is left of
it (`popLeft`, `msTodo`, `imWork`, `setHand`, `davTask`), so that other connections'
steps and failures come between. `davRef` is the tree RFC 4918 asks for, updated when
a request ends; it is compared only while no two requests overlapped.

*DNS providers.* The thirteen providers differ in how a record is found (by id, by
name and type, as a whole set), created and replaced; each has its own `...Find`,
`...Upsert` and `...Delete` operator over one zone. A request may be lost before or after
it took effect.

## 3. The runs

The bounds are named constants in the configurations and the `MC` modules.

| run | question | bounds |
|---|---|---|
| `queue` | Does the queue keep custody of what it accepts (`KeepsCustody`)? Is any recipient lost silently, or told, suppressed or sent to without cause, with one crash or I/O error at any step and an operator removing the entry or clearing a suppression? | one entry of each of five kinds (two domains, NOTIFY=NEVER, failing rule, unparseable address, null sender), times 0..2 |
| `queue_live` | Does every accepted message leave the spool, and does every visible envelope have its message? | two entries, two domains, fair worker, clock and remotes |
| `queue_silent` | The same liveness when remotes may stay silent: violated | as `queue_live` |
| `store` | Publication, passwords and removal, with one restart | one name created twice, one request at a time, deliveries and CLI alongside |
| `store_shared` | Unique addresses | two names, two requests interleaved, one failing write |
| `mailbox` | Two clients taking turns while mail arrives | two messages, two connections, mod-sequence up to 4 |
| `mailbox_archive` | Every command with retention, POP3, JMAP, sweeper, restore, up to a crash or fault | one connection, two messages, times 0..2 |
| `mailbox_uid` | Two overlapping scans: a UID is given twice | three messages |
| `inbound` | Is acknowledged mail ever dropped, duplicated without cause, let out of quarantine, bounced in a loop, answered too often, or let through the greylist early? | two accounts (one forwarding with a copy, one without), an alias that is a list, a remote and an SRS-return recipient, six kinds of message with up to three attempts, a second delivery alongside, one fault, times 0..2 |
| `clients` | The services a mail client talks to, each with its own properties (below) | `MCClients`, per component |
| `outside` | The SMTP session (authorisation, TLS, AUTH, framing, size, recipients, error streak), WebDAV, the HTTP API, and the parts that depend on remote parties (below) | `MCOutside`, per component; for the session two accounts, four addresses, size ceiling 3, two recipients, all mechanisms and listeners |
| `directory` | Who receives, who may send, who gets in: the directory, SCRAM and SRS (below) | `MCDirectory`, per component |

Some invariants of the runs are conjunctions of named properties about one actor:
`AuthorisedThroughout` and `DeliveredFaithfully` (the SMTP session), `RepliesRight`
(inbound), `FailureHandled` (queue), `MailboxCorrect` (mailbox), and the `...Correct`
invariants of the composed runs `clients`, `outside` and `directory`:

| invariant | what it says | instance |
|---|---|---|
| `Pop3Correct` | only a QUIT of the client that marked a message, or another session, removes it, and QUIT removes all that was marked, unless a file failed | two connections, two messages |
| `ManageSieveCorrect` | the filter that runs is the active script; only scripts that parse are stored; refused passwords are bounded per connection, UNAUTHENTICATE included | two connections, two scripts that parse and one that does not, two names that differ in white space; crash and failed write |
| `GrantsCorrect` | one token per code, within its life and only for the account that proved itself last; answered polls are spaced | one code of each kind, two accounts, two approvers at once, six time units |
| `ImapSessionCorrect` | refused logins are bounded over all mechanisms; COPY, MOVE, APPEND and mailbox operations lose no message nobody asked to remove; `$` never stands for a message the search did not find | three mailboxes (`ImBounded`): every feature and two mailbox operations with one message; a second message without errors and refusals; a MOVE of both with two more UIDs |
| `ClientDataCorrect` | RETR's framing can be undone; every octet passes the compression layer once; what was answered OK by SETACL, SETMETADATA, SUBSCRIBE stays unless requests overlap or a write fails; the owner keeps all rights; SEARCH, SORT, THREAD and sequence sets agree with their RFCs' definitions; day numbers are those of the calendar; Sieve's parser accepts exactly the grammar, lexing inverts quoting, glob matching agrees with its definition, no script makes a message vanish unless it says so, address parts recombine | every body of up to five octets over CR, LF, dot and another; units of 1-3 octets in chunks of 2; two connections; every mailbox of three messages around a leap day; every sequence of four tokens over sixteen, every text of three of eight characters, every pair of actions and every if/else over nine tests |
| `DavCorrect` | requests that do not overlap leave the tree they describe; no path leaves the home; dates convert both ways; recurrences expand to exactly the occurrences COUNT, UNTIL and the window allow; free/busy reports nothing that is not taken | two requests on two names; months' and years' ends, leap years, years 0 to 2100 |
| `ApiCorrect` | failed credentials per window are bounded; a scoped key changes nothing outside its domains; the cap of a tenant holds while no creations race; fewer than twice the send limit in any window; a client that follows the cursor sees every entry queued throughout, once; a bearer token is accepted exactly when a key the provider last published for signing signed it, for this audience, now | three guessers; two administrators at a cap of one; keys with scopes, domains, expiry, network; four sends at two a window; documents of up to two of thirteen keys |
| `DnsCorrect` | an upsert or delete that returned Ok is what is served; other records are left alone; the records built pass the check of a deployment | all thirteen providers, two tasks, three operations, lost requests and answers |
| `DkimCorrect` | mail in transit verifies, the signer's key is published, key files in use are kept | two rotations and retirements, failure or restart at every step |
| `CertificatesCorrect` | one account per key file; the certificate served has its key on disk; the authority looks only where the answer is ready | two domains, three methods, one renewal |
| `SenderChecksCorrect` | the seal at acceptance neither breaks a valid chain nor repairs a broken one; a signature verifies exactly what it covers; canonicalization is stable under what relays may change; SPF ends within its budget whatever records include each other, its result is justified by a matching term, and DMARC's by alignment and policy; the data of a message ends where it should | every body of five tokens, four hops, three instances; two domains that include and redirect to each other, a budget of three lookups; every text of six octets |
| `TransportCorrect` | TLS that is mandated is never given up on the direct path; no reply from before the handshake is believed after it; the outcome is what the exchanger said | one domain with two exchangers, rules, every TLSA answer and chain |
| `DirectoryCorrect` | whoever may send as an address receives at it; an address means the same in every spelling and at every domain alias; a login succeeds only by the account's own secrets or an LDAP bind; limits are those of the account or its domains | every combination of colliding addresses, aliases, masks, catch-alls, domain aliases and limits, and of second factors, app passwords, LDAP entries, disabled accounts and protocol lists; local parts of up to 3 characters, codes of 2 digits |
| `ScramCorrect` | no client-final message serves two exchanges; an exchange is granted only to the account's key over this exchange, and to a client that saw this channel | one exchange per binding policy, messages recombined from each other |
| `SrsCorrect` | bounces to rewritten senders return to the whole original for 14 days and not after; an altered one returns nowhere else | one copy rewritten, on days around the wrap of the 1024-day timestamp |

The pure algorithms (`SieveScript`, `CalDav`, `ImapSearch`, `SenderPolicy`, the framing
of POP3 and SMTP data, canonicalization) are checked against separate definitions of
what they should compute, over all inputs up to the bound.

Why the bounds are enough to be interesting: every branch of the worker's verdict
is reachable with two domains and the five kinds of message; a second entry matters
only to the sequential pass (`queue_live`). A session needs two accounts to tell
"authenticated" from "authenticated as the owner", and a ceiling of 3 octets lets a
message be below, at and above it in several lines or chunks. A store needs two
lives of a name for anything to be left behind, and two requests for a race. Two
messages suffice to make an index stale by one in, one out. Inbound, two accounts give
a failure between two copies, three attempts a greylisting, a failure and a success,
and the second delivery meets the first at a vacation marker. Two connections overlap
in every way at the files of POP3, ManageSieve, ACL and DAV, because a third would only
repeat what one of them does. The components of `clients`, `outside` and `directory` share
no state in the code, so exploring them one at a time loses nothing. Every limit a
component counts to (failures, cap, window, chain length, lookups, cache age) is small
enough to be reached and passed.

Deadlock is not checked: the counters, clocks and id sets are bounded, so every
instance runs out of steps, as a connection may close and a queue may be empty.

**Fairness.** `LocalFairness` asks that the worker task is always rescheduled (tokio
does), that time goes on, and that a started store finishes. `FairSpec` adds that
a remote answers: an environment assumption. `SilentRemoteSpec` leaves it out,
because `queue/client.rs` reads replies without a timeout. Under it TLC shows a
behaviour in which one silent remote stops the queue for ever.

### Disagreements shown by violation runs

1. `queue_silent` - one silent exchanger stops all delivery and giving-up.
2. `mailbox_uid` - overlapping scans assign one UID twice.

### Properties that do not hold, and how to see it

These definitions are in the modules; no run lists them, but each takes only the
change named here. A component that `MCClients` or `MCOutside` extends (POP3,
ManageSieve, grants, the IMAP and SMTP sessions, transport, DKIM rotation, ACME) takes
the property as another invariant; for the others it is added to the composed invariant
with its instance name (`Calendar!BusyComplete`).

| property | where | how it fails |
|---|---|---|
| `VisibleComplete` | `OutboundQueueLive.cfg` with `Removable = {1}` | the operator removes between load and rename of `record_attempt`; the envelope returns without its message (`storage/spool.rs:139`) |
| `SuppressedHardBounced` | `OutboundQueue.cfg` | one domain's 5xx suppresses the other domains' recipients (`queue/worker.rs:146`) |
| `PublishedCurrent` | `AccountStore.cfg` with `Procs = {p1, p2}`, or with `MaxFaults = 1` | two requests publish in the opposite order (`directory_store/mod.rs:445`); a change whose write fails stays in memory and is not published |
| `PasswordHonoured` | `AccountStore.cfg` with `Ops = {"create", "put"}` and two passwords in `Passwords` and `PutPasswords` | a SCIM PUT sets the password, then writes back the account it had read before, old hash included (`api/scim/users.rs:326`) |
| `TotpPublished` | `AccountStore.cfg` | `set_totp` does not publish (`directory_store/mod.rs:428`): logins do not ask for the second factor until another change publishes |
| `NoGhostMail` | `AccountStore.cfg` with `Quiesced = FALSE` | a delivery resolved earlier recreates the mailbox |
| `NoGhostMasks` | `AccountStore.cfg` with `MaxFaults = 1` | the masks are removed in memory, the write fails, the repeated removal finds none and does not write (`directory_store/masked.rs:263`) |
| `SuppressionClean` | `AccountStore.cfg` | markers are kept by reverse path, removed by account name (`directory_store/removal.rs:226`) |
| `ReplaceRemovesSource` | `Mailbox.cfg` with three messages and the commands select, store, expunge, replace | REPLACE applies the sequence number it resolved before the literal to a snapshot opened after it (`imap/session/literal.rs:169`) |
| `UidRangeComplete` | `Mailbox.cfg` with `Messages = {1, 2, 3}`, one session | `*` is the number of messages where UIDs are compared (`imap/session/fetchstore.rs:154`): after an expunge `n:*` misses the newest messages |
| `ConditionalStore` | `Mailbox.cfg` | UNCHANGEDSINCE is compared with the snapshot's mod-sequence (`imap/session/fetchstore.rs:60`) |
| `SizesPlain` | `MailboxArchive.cfg` with `Encrypted = TRUE` | APPENDUID opens the mailbox without its key and writes the index (`imap/mailbox.rs:274`) |
| `SnapshotFaithful`, `ResyncComplete` | `Mailbox.cfg` with `Mishaps` | overlap, crash (a UID is in the message before it is in the counter, `imap/scan.rs:71`), or a POP3 removal and a delivery |
| `NothingDropped` | `Inbound.cfg` with `Scripts <- MCScriptsUnsafe` | a filter files into a folder with a `/` in its name: the keep is cancelled, the folder skipped, the client gets its 250 (`storage/delivery.rs:232`) |
| `OneCopyEach` | `Inbound.cfg` with a filter that files twice into one folder, or into INBOX beside a keep | each `fileinto` is a copy (`sieve/interp.rs`, `outcome.fileinto.push`) |
| `VacationOnce` without `raced` | `Inbound.cfg` | two deliveries read the marker before either touches it |
| `StoredWhole` | `ManageSieve` | a literal cut short by the end of the connection is stored (`managesieve/server.rs:202`) |
| `DroppedWereBad` | `ImapSession` | a fetched message that contains ` BAD ` counts as an error (`is_bad_response`) |
| `ArrivalAnnounced` without `imRaced` | `ImapSession` | IDLE and NOTIFY compare counts only |
| `NothingHeldBack` | `ImapCompress` | `poll_read` keeps inflated octets until more input comes |
| `SidecarAtomic` | `ImapSettings` | `fs::write` truncates first; the comment calls it atomic (`imap/acl.rs`) |
| `BusyComplete` | `CalDav` | an event under way at the start of the window is not reported (`webdav/caldav.rs:238`) |
| `RateSlides` | `ApiQueue` | the window restarts at the first send after it (`smtp/ratelimit.rs:52`), the comment calls it sliding |
| `CapKept` without `apRaced` | `ApiAccess` | two creations pass the check together (`api/v1/accounts.rs:100`) |
| `TokensOfTheActive` | `OauthGrants` | a token is issued for an account disabled after the approval |
| `OkTakesEffectAlways`, `EveryProviderBuilt` | `DnsPublish` | spaceship adds a TXT beside the old one; an OVH delete is applied but not refreshed; three providers are never built (`config/dns.rs:85`) |
| `StateNamesTheSigner` | `DkimRotation` | a restart brings back the configured signer (`dkim/rotate.rs:67`) |
| `FailuresAreRetried` | `Acme` | `cert.pem` is written before it is parsed, and its age stops the retry |
| `RelaxedIsRfc6376` | `MessageSigning` | white space at the beginning of a line is dropped (`dkim/canon.rs:57`) |
| `ForwardSealKeeps`, `ForwardSealNeverRepairs` | `MessageSigning` | the forwarder copies the recorded `cv` without validating (`storage/routing.rs:108`) |
| `UnrolledIsSpared` | `SenderPolicy` | without random bytes the roll is 1, not 0 (`dmarc/evaluate.rs:112`) |
| `RequireTlsMandates` | `TransportPolicy` | a relay rule bypasses REQUIRETLS and MTA-STS (`queue/worker.rs:427`) |
| `DisabledKeptOut` | `Directory`: the invariant in `Directory.cfg` with `DrConfigs <- MCDisabled` | a disabled account cannot authenticate, says `smtp/directory.rs:57`; the password path refuses it, the SCRAM path (`smtp/session/scram.rs:66`) asks for its credentials and protocols only |
| `RetriesAreTransient` | `TransportPolicy` | a 251 to RCPT is neither success nor failure and is retried (`queue/client.rs:22`) |

### Other disagreements met while modelling

The models reproduce these; no property is stated about them.

* *POP3, ManageSieve, IMAP.* UIDONLY does not refuse REPLACE by sequence number and
  sends EXPUNGE; a saved search survives some reselections; lines of an oversized
  literal are read as commands; SETMETADATA may be applied in part;
  `.metadata-server` is shared by all accounts; a sequence set `*:n` is read as `*`;
  SUBSCRIBE folds case; SORT DATE uses the arrival date; a parenthesis inside a quoted
  string counts when a search key is closed; a message that could not be archived is
  reported as expunged and stays (`imap/snapshot.rs:279`).
* *Sieve.* Captures of `:matches` are lower-cased and ignore `:comparator`; a second
  `:comparator` loses its string; date tests ignore the zone.
* *WebDAV, CalDAV.* COPY or MOVE onto itself or an ancestor removes the resource first;
  a PUT into a collection being moved is lost; there is no If-Match; DURATION and TZID
  are ignored, as is an event without DTEND although it is documented as a marker;
  31 February parses.
* *API, OAuth.* A revoked key works until a restart; one syntax error in the key file
  disables every key; SCIM creation checks neither cap nor domain scope; unredeemed
  grants are never purged; a token signed with a just-rotated provider key is refused
  until the hourly refresh; of two keys with one kid the first wins.
* *DNS, DKIM, ACME.* With several matching records the first is replaced; find and
  create are two requests, so two tasks create twice; Namecheap rewrites the whole zone;
  a failed publication leaves a key file that makes that day's retries fail; a failing
  retirement blocks rotation; rotation drops the RSA key; challenges stay behind on error
  paths; the reloaded acceptor has no client CA (`tls/mod.rs:134`).
* *Signing and policy.* An ARC chain that is broken structurally is sealed again as a
  first instance; a DNS failure at acceptance seals `cv=fail`; SPF `exists` expands no
  macro; more than ten MX hosts are cut off.
* *Transport and queue.* One refused RCPT ends the conversation for all recipients; a
  malformed policy document counts as no policy; the delay warning is sent before the
  envelope remembers it, so a crash between them warns again (`queue/worker.rs:221`).

## 4. The proofs

Every theorem holds for all values of the constants that satisfy the assumptions the
modules state on them; TLC evaluates those assumptions in the runs. The bounds of the
runs (ids, times, faults, attempts, lives) are arbitrary numbers here.

| module | theorem | what it proves | hypothesis |
|---|---|---|---|
| `OutboundQueueProofs` | `TypeCorrect`, `NoLoss`, `Refinement` | `TypeOK`, `NoSilentLoss`, `KeepsCustody`: the queue implements `MailCustody` | - |
| | `Handled`, `Bounded` | `FailureHandled`, `CopiesBounded` | - |
| | `Complete` | `VisibleComplete` | no operator removes entries |
| `SmtpSessionProofs` | `TypeCorrect`, `Authorisation`, `CleartextForgotten`, `Faithful`, `Final` | `TypeOK`, `AuthorisedThroughout`, `NothingFromCleartext`, `DeliveredFaithfully`, and the action property `RecipientsFinal` | - |
| `InboundProofs` | `TypeCorrect`, `Contained`, `Replies` | `TypeOK`, `QuarantineContained`, `RepliesRight` | - |
| | `Dropped` | `NothingDropped` | `FiledSafely` |
| | `Once` | `OneCopyEach` | `FiledOnce` |
| `AccountStoreProofs` | `TypeCorrect`, `Unique` | `TypeOK`, `AddressesUnique` | - |
| | `Current` | `PublishedCurrent` | one request at a time, no failing write |
| | `Honoured` | `PasswordHonoured` | the same, and no password in a SCIM PUT |
| | `GhostFree` | `NoGhost` | the same as `Current`, and an account under removal is left alone |
| `MailboxProofs` | `MailboxTypes`, `MailRetained`, `MailboxServed` | `TypeOK`, `RetentionKept`, `MailboxCorrect` | - (the properties say which mishaps they exclude) |
| `ImapSessionProofs` | `SessionSound` | `ImapSessionCorrect` | - |
| `ClientsProofs` | `Maildrop`, `ScriptsLive`, `Grants` | `Pop3Correct`, `ManageSieveCorrect`, `GrantsCorrect` | - |
| `OutsideProofs` | `Senders`, `Blind`, `Authenticated`, `Limits` | `SendersReceive`, `ResolutionBlind`, `AuthenticationSound`, `LimitsOwn` | - |
| | `Answers` | their conjunction `DirectoryCorrect` | - |
| | `ServeOnce`, `Granted`, `Exchanges` | `ProofsServeOnce`, `GrantsProved`, and their conjunction `ScramCorrect` | - |
| | `Rotates`, `Renews`, `Mandated` | `DkimCorrect`, `CertificatesCorrect`, `TransportCorrect` | - |

The hypotheses in the last column exclude what the table "Properties that do not hold"
shows: without them these theorems are false. The instances of the runs satisfy them.

**Outbound queue.** `NoSilentLoss` is not inductive: it speaks of acknowledged entries
that are no longer loadable, and says nothing about why the worker may be removing one.
The invariant is `QueueInv`, the conjunction of

* `StoreOrder` - the stages of a store and the files that exist at each;
* `Kept` - a spooled entry is loadable or its recipients are settled;
* `WorkerInv` - at `bounce`, `suppress` and the unlink steps the entry in hand
  is settled or about to be, so that removing it loses nothing;
* `OperatorInv` - an operator removing an entry has marked it cancelled.

`SettledStable` says that nothing un-settles a recipient; with it each action
needs only the conjuncts it can disturb. The steps are grouped as `Next` is:
storing, operator, faults, remote answers, worker.

The refinement needs one fact more, `WorkerHolds`: while the worker is in a
conversation or about to rewrite an envelope, the entry loads or an operator removed
it. Each action is then mapped to its abstract step (`StoringCustody` to
`WorkerCustody`): the second rename takes custody, the 250 confirms it, `LoadEntry`
excuses, a notice tells, an accepted conversation delivers, the first unlink of a
settled entry releases it, an operator's unlink withdraws, and a rewrite that comes
after it returns the entry. All other steps, crashes included, are invisible
(`Invisible`, `FaultCustody`).

**What the queue sends.** The bounds of `FailureHandled` and `CopiesBounded` allow one
notice or copy more than the faults and recorded attempts; a step that sends would
break them if the previous excess were still there. `LedgerInv` says where it can be:
only with the entry the worker has in hand, at the program points between the sending
and its record, or with an entry that can never be loaded again (`BounceOpen`,
`WarningOpen`, `CopyOpen`). A fault pays for whatever is open (`CountsFault`). `FailInv`
follows the verdict from the remote's answer to the suppression list. `Complete` rests
on `PairInv`: whoever is about to make or restore an envelope has its message file.

**SMTP session.** `SessionInv` ties the loop's mode to the session's state (`Phases`),
the error streak to the replies (`Counters`), and says of the transaction in progress
what the properties say of the delivered message: authorised (`TxnAuthorised`), whole
(`TxnWhole`) and of one framing (`TxnFraming`). The steps are grouped by what they leave
alone: commands without effect, those that drop the transaction, authentication, and
the transaction itself.

**Inbound.** A connection's step touches the state of no other (`OthersKept`), and a
crash only ends handlers (`Dies`), so each invariant is proved for the connection that
moves. `Fresh`: before it is routed an attempt has done nothing.
`Held`: what a quarantined message asks for at every stage; with `Fresh` it gives
`Contained`. `Quiet` is the same for bounces. `Tried` and `Known` order the first
attempt, the greylist's entry and the clock, whatever the prune and restarts forget.
`VacationInv` says that the marker is the last autoresponse and that whoever is about
to touch it is alone, unless `raced`. `Accounted` says what has become of each account
already served (`Settled`: a copy, or something planned or spooled for it, or a
rejection, or a waiver) and carries `Dropped` through the plan, the spool and the reply;
it needs that each filter answers for the message (`ShareAnswers`), which is where
`FiledSafely` (filters file into names that are one path segment) comes in. `Ordered`
says that everything still to be written differs from all that has been in this attempt,
through the copies of one account, the accounts in order and the messages for the spool,
and `Counted` that an attempt that failed after writing has cost a fault; together they
give `Once`. `FiledOnce` excludes filters that name a folder twice. It also excludes
two redirects and two SRS-return recipients, because the model counts redirected
copies and returns without telling their addresses apart.

**Account store.** Types need what a request holds at each step (`RequestsHold`).
`AddressesUnique` needs that a directory built under the lock and not yet published is
free of collisions (`HeldDisjoint`): it was taken whole from memory, which the checks of
`add` and `replace` keep free of them. The other three are about one request at a time:
`Files` (disk and memory agree), `Shown` (the view shows memory except between a change
and its publication), `Promised` (what an answer is about to confirm is in memory), and
for removals `Cleared` (what each stage has already removed), `Owned` and `Deliveries`
(whom the files that are left belong to).

**Directory and SCRAM.** The directory changes only as a whole, so its theorems are about
`Build` of an arbitrary configuration. They use that the configuration passed validation
(`Valid`, from `config/`), that folding ASCII case twice is folding it once, and that
account names are in lower case. `Collect` is reasoned about through what it returns for
a key (the last writer), never by induction. `ScramInv` relates each exchange to the
messages it has seen: the nonce of an exchange ends in its own server nonce, and the
server's nonces are distinct and of one length (an assumption: they are random), so a
final message that names one cannot be of another.

**Mailbox.** The types (`TypeInv`) hold whatever overlaps or is cut short. They need
`Shape`: what a removal has still to do is in its snapshot. Retention adds `FreshInv`
(nobody works from a snapshot older than `SessionSpan`) and `ArchiveInv`: a message in
the mailbox has a deletion stamp only while somebody moves it, an archived one was
stamped at most a session's length before it left, and what a sweep has listed has
outlived its time whatever became of it since. `MailboxServed` is about handlers that take turns
(`TurnsInv`), and its invariant has two layers. `UidInv` follows a UID through every
place it can stand - disk, index, snapshot, a client's memory (`Named`): it names one
message, and lies below the counter on disk or below the one a scan has yet to write.
The second is about what is true of whoever reads: `OpenTrue` of an open under way,
`WriteTrue` of a write under way, `IndexTrue` (an index stamped with the current
mod-sequence may be trusted, but for the handler that is about to advance the counter),
and `Remembered`: a UID a client knows is there, logged as vanished since its mod-sequence, or
about to be.

**IMAP session.** `ImOpen` ties the failures and the error streak to the state of the
connection: one that is still open has room for one more of each, and in the clear
nobody logs in. `ImSafe` is about the messages. A UID names one content (`ImNamed`);
what was written is on disk or somebody removed it (`ImKept`); and a MOVE
(`ImMoving`) has still to copy exactly the rest of what it will remove, in the order of
the view, while all it has copied can be *spared* (`ImSpared`: the content is on disk
under a UID that is not in the view). Without the last part the removal at the end of a
MOVE would not be safe when another session expunges, or a copy fails, half-way.
`ImChange` is the frame of all the steps that touch mailboxes: every entry is kept or
its content is gone, and at most one is new, under the next UID. `ImResult`: saved UIDs
are what the search found, and saved numbers still are as long as the numbering of the
searched mailbox is the one the search used.

**POP3, ManageSieve, grants.** `PopSession`: the marks of a session are its client's
wishes, and while QUIT removes files every wish is on the list, failed, or gone.
`MsInTurn`: while nothing overlapped or was cut short, either no command is in hand and
the live filter is the active script (`MsLive`), or one connection has a command in
hand and `MsStage` says for each kind of command what the files are before each of the
steps it has left. `GrLives`: a code is one thing at a time - undrawn, waiting in one of
two maps, or spent - and `GrWaits`: what waits was proved by the account it names.

**Rotation, renewal, transport.** `DkRetires` says of the state file, also of the
one a tick is about to write, that the key it retires is nobody's any more: not the
signer's, not the active one, and no mail signed with it is in transit when its time
comes; `DkTicking` says what a tick holds at each step. It needs an overlap of at least
a day (`DkAssumption`); the code's is fixed (`ROTATE_OVERLAP_DAYS`). `AcInv`: the account key is
on disk before a request is signed with it, `key.pem` never lags behind what is served,
and a challenge is up before the authority is told. `TpInv` is about the attempt in
hand: `TpBuffered` (replies read but not yet taken came over the connection as it is),
`TpRouted` (the host is a validated smarthost or an exchanger the policy permits) and
`TpSecured` (past STARTTLS the TLS that is required is in use and the peer has shown
what it had to). It uses that rules passed the validation of the configuration
(`ValidRule`).

**Assumptions.** Besides the ones named above, the constants are assumed to be numbers of
the right kind (limits and horizons positive), sets finite where the code's are, and the
special values (nobody, no mailbox, absent) to be outside the sets they complement. Each
assumption is stated in the module that declares the constants.

**Only model-checked.** Liveness (`Drained`) and fairness are out of the prover's reach,
and so is what recursive definitions compute: `SieveScript`, `SenderPolicy`, `CalDav`,
`ImapSearch`, canonicalization, the framing of POP3 and SMTP data, and the positions in
texts of `Srs`. `ImapCompress`, `ImapSettings`, `WebDav`, `ApiAccess`, `ApiQueue`,
`OauthVerifier`, `DnsPublish` and the chains of `MessageSigning` are state machines that
are checked by TLC only.

## 5. What is not modelled

`PROJECT.json` lists every component with the reason. In short:

* cryptography (a verdict, or the value a hash covers), encodings and XML;
* splitting a line into words, the layout of responses, and the details of JMAP
  methods that only read;
* antispam statistics, aggregate and TLS reports, metrics, alerts and
  webhooks, which never decide what happens to a message in hand;
* the periodic loads from LDAP and SQL (a refresh in `AccountStore`; the live LDAP bind is
  in `Directory`) and blob backends, which are adapters over a remote store;
* configuration and start-up.

In `Inbound`: training of the corpus and the reputation (they only feed later
verdicts), headers added (ARC, DKIM, SRS, lists), the webhook, and the tests of a Sieve
script (its executed commands are enumerated; `SieveScript` has the tests). What the
model shows without a property: one account's rejection makes a bounce that names every
local recipient, those with a copy included; a filter that only redirects gives up a
bounce silently; a delivery that fails after `VacationMark` loses the autoresponse and
keeps the marker; an alias without members and a rule with an unsafe mailbox
defer for ever. SRS-return recipients reach `deliver` only from authenticated clients
or through a catch-all, because RCPT refuses them otherwise.

## 6. Plan

Order: what can lose, duplicate or misplace mail first.

1. *done* `Spool`, `OutboundQueue`, `OutboundQueueProofs`.
2. *done* `SmtpSession`; `AccountStore`; `Mailbox`; `Inbound`.
3. *done* `MailCustody`, and the proof that `OutboundQueue` implements it.
4. *done* the client services, the API, OAuth, and the parts that face the outside.
5. *done* the directory, SCRAM and SRS.
6. *done* the theorems of section 4: the queue and its refinement, the SMTP session,
   inbound, the account store, the directory and SCRAM, then the mailbox, the IMAP
   session, POP3, ManageSieve, grants, DKIM rotation, renewal and transport. Left:
   `FailuresBounded` and `ActsConfined` for `ApiAccess`, `AcceptedWasPublished` for
   `OauthVerifier`, `ForeignKept` for `DnsPublish`.
7. The composition of `SmtpSession`, `Inbound` and `Spool` under one abstract
   specification, "each recipient gets the message at least once, or the client a
   refusal".
8. Liveness of rotation, renewal and IDLE (`ArrivalAnnounced`) as runs of their own.

Runs stay few: a component that shares no state with others joins `clients`, `outside`
or `directory`, and violation runs whose disagreement is documented above make room.

---------------------------- MODULE ImapSession ----------------------------
(***************************************************************************)
(* One IMAP connection: the command loop of imap/server.rs and the session *)
(* of imap/session/ (STARTTLS, LOGIN and the SASL exchanges,    *)
(* selecting, the saved search result, COPY and MOVE, APPEND, IDLE and     *)
(* NOTIFY), against mailboxes that deliveries and other sessions change    *)
(* between any two steps.                                                  *)
(*                                                                         *)
(* A mailbox is the sequence of its messages; a message has a UID and a    *)
(* content.  How a snapshot is read from the files, flags and mod-sequence *)
(* numbers are the matter of Mailbox.tla; passwords and tokens are         *)
(* verdicts.  COPY and MOVE work message by message.                       *)
(***************************************************************************)
EXTENDS Integers, Sequences, FiniteSets, SequencesExt

CONSTANTS
    ImInbox, ImFolders,     \* mailbox names
    ImUses,                 \* what the client uses: bad, search, append, uidonly, notify
    ImMechanisms,           \* SASL mechanisms that wait for a response
    ImMaxFailures,          \* failed logins that close the connection: 3
    ImErrorStreak,          \* MAX_ERROR_STREAK
    ImMaxUid,               \* bound: messages ever written
    ImMaxMailboxOps         \* bound: CREATE, DELETE and RENAME

VARIABLES
    imPc,           \* command, sasl, literal, copy, idle or closed
    imTls,          \* tls_active; STARTTLS is available until then
    imState,        \* NotAuthenticated, Authenticated or Selected
    imFailures,     \* login_failures
    imPending,      \* pending_auth: the stage of the exchange
    imSel,          \* the selected mailbox and whether it was examined
    imView,         \* its snapshot
    imUidOnly, imNotify,
    imSaved,        \* saved_search
    imWork,         \* the COPY, MOVE or APPEND in hand
    imStreak,       \* error_streak
    imBox,          \* the mailboxes on disk
    imUid,          \* the next UID
    imOps,          \* for the bound
    \* history
    imRefused,      \* passwords, tokens and responses refused before the login
    imQuoted,       \* a quoted message was counted as an error of the streak
    imFound,        \* what the saved search found: mailbox and UIDs
    imRenumbered,   \* whether sequence numbers have changed since
    imAddressed,    \* UIDs the command with $ in hand works on
    imWritten,      \* contents delivered or appended
    imGone,         \* contents removed by an expunge or with their mailbox
    imRaced         \* another session expunged a message of the selected mailbox

imAuth == <<imTls, imState, imFailures, imPending, imRefused>>
imModes == <<imUidOnly, imNotify>>
imSelection == <<imSel, imView>>
imErrors == <<imStreak, imQuoted>>
imSearch == <<imSaved, imFound, imRenumbered, imAddressed>>
imDisk == <<imBox, imUid, imOps, imWritten, imGone>>
imVars == <<imPc, imWork, imRaced, imAuth, imModes, imSelection, imErrors, imSearch, imDisk>>

ImBoxes == ImFolders \cup {ImInbox}
NoBox == "no mailbox"
NoSel == [box |-> NoBox, readOnly |-> FALSE]
NoSaved == [uids |-> FALSE, values |-> {-1}]
NoWork == [target |-> NoBox, copy |-> <<>>, remove |-> <<>>]
Missing == <<[uid |-> 0, text |-> 0]>>      \* no such directory

\* a connection may err and fail to log in at least once; no mailbox has the name of none
ASSUME ImAssumption ==
    /\ {ImMaxFailures, ImErrorStreak} \subseteq Nat \ {0}
    /\ {ImMaxUid, ImMaxMailboxOps} \subseteq Nat
    /\ NoBox \notin ImBoxes

\* session.rs new, with implicit TLS or with STARTTLS
ImInit ==
    /\ imPc = "command"
    /\ imTls \in BOOLEAN
    /\ imUidOnly = FALSE /\ imNotify = FALSE
    /\ imState = "NotAuthenticated" /\ imFailures = 0 /\ imPending = "none"
    /\ imSel = NoSel /\ imView = <<>>
    /\ imSaved = NoSaved /\ imWork = NoWork /\ imStreak = 0
    /\ imBox = [b \in ImBoxes |-> IF b = ImInbox THEN <<>> ELSE Missing]
    /\ imUid = 1 /\ imOps = 0
    /\ imRefused = 0 /\ imQuoted = FALSE
    /\ imFound = [box |-> NoBox, uids |-> {}] /\ imRenumbered = FALSE /\ imAddressed = {}
    /\ imWritten = {} /\ imGone = {} /\ imRaced = FALSE

Uids(view) == {view[i].uid : i \in DOMAIN view}
Texts(view) == {view[i].text : i \in DOMAIN view} \ {0}
Exists(b) == imBox[b] # Missing
LoggedIn == imState # "NotAuthenticated"

----------------------------------------------------------------------------
(* The command loop *)

\* is_bad_response: any " BAD " in the octets of the response
IsBadResponse(answer, text) == answer = "BAD" \/ text

\* a command was answered; text: the response quotes a message with " BAD "
Answer(answer, text, next) ==
    /\ imPc = "command"
    /\ imStreak' = IF IsBadResponse(answer, text) THEN imStreak + 1 ELSE 0
    /\ imQuoted' = (imStreak' > 0 /\ (imQuoted \/ answer # "BAD"))
    /\ imPc' = IF imStreak' >= ImErrorStreak THEN "closed" ELSE next

\* a line that is not UTF-8 or does not parse, or a command refused with BAD
BadLine ==
    /\ "bad" \in ImUses
    /\ Answer("BAD", FALSE, "command")
    /\ UNCHANGED <<imWork, imRaced, imAuth, imModes, imSelection, imSearch, imDisk>>

\* a command that only reads (FETCH and its kind may quote a message), or one
\* refused with NO
Read(text) ==
    /\ text => "bad" \in ImUses /\ imState = "Selected"
    /\ Answer("OK", text, "command")
    /\ UNCHANGED <<imWork, imRaced, imAuth, imModes, imSelection, imSearch, imDisk>>

\* LOGOUT, the end of the connection, READ_TIMEOUT, a line too long, a write
\* that fails; a literal cut short is dropped
Hangup ==
    /\ imPc \in {"command", "sasl", "literal", "idle"}
    /\ imPc' = "closed"
    /\ UNCHANGED <<imWork, imRaced, imAuth, imModes, imSelection, imErrors, imSearch, imDisk>>

\* STARTTLS and the handshake: a new state, a new decoder
ImStartTls ==
    /\ ~imTls
    /\ Answer("OK", FALSE, "command")
    /\ imTls' = TRUE
    /\ imState' = "NotAuthenticated" /\ imFailures' = 0
    /\ UNCHANGED <<imPending, imRefused, imWork, imRaced, imModes, imSelection, imSearch, imDisk>>

----------------------------------------------------------------------------
(* Authentication *)

MayAuthenticate == imTls /\ imState = "NotAuthenticated"

\* the count of failures is part of NotAuthenticated and goes with it
Accepted ==
    /\ imState' = "Authenticated" /\ imPending' = "none" /\ imFailures' = 0
    /\ imRefused' = 0
    /\ UNCHANGED imTls

\* mutant: an exchange that fails is not counted
AuthFailureFree(next) ==
    /\ imPending' = "none"
    /\ imRefused' = imRefused + 1
    /\ imPc' = next
    /\ UNCHANGED <<imTls, imState, imFailures>>

\* auth_failure, and login's own copy of it
AuthFailure(next) ==
    /\ imPending' = "none"
    /\ imFailures' = imFailures + 1
    /\ imRefused' = imRefused + 1
    /\ imPc' = IF imFailures + 1 >= ImMaxFailures THEN "closed" ELSE next
    /\ UNCHANGED <<imTls, imState>>

\* LOGIN, and OAUTHBEARER or XOAUTH2, which come with their token
LoginCommand(ok) ==
    /\ imPc = "command" /\ MayAuthenticate
    /\ IF ok THEN Accepted /\ UNCHANGED imPc ELSE AuthFailure("command")
    /\ imStreak' = 0 /\ imQuoted' = FALSE
    /\ UNCHANGED <<imWork, imRaced, imModes, imSelection, imSearch, imDisk>>

\* AUTHENTICATE with a mechanism that is offered here
Authenticate(mechanism) ==
    /\ MayAuthenticate
    /\ Answer("OK", FALSE, "sasl")
    /\ imPending' = mechanism
    /\ UNCHANGED <<imTls, imState, imFailures, imRefused>>
    /\ UNCHANGED <<imWork, imRaced, imModes, imSelection, imSearch, imDisk>>

\* the exchanges of two messages
Following == [LoginUser |-> "LoginPass", ScramFirst |-> "ScramFinal"]

\* auth_response
AuthResponse(ok) ==
    /\ imPc = "sasl"
    /\ IF ~ok THEN AuthFailure("command")
       ELSE IF imPending \in DOMAIN Following
            THEN /\ imPending' = Following[imPending]
                 /\ UNCHANGED <<imPc, imTls, imState, imFailures, imRefused>>
            ELSE Accepted /\ imPc' = "command"
    /\ UNCHANGED <<imWork, imRaced, imModes, imSelection, imErrors, imSearch, imDisk>>

\* the client cancels with "*"
AuthCancel ==
    /\ imPc = "sasl"
    /\ imPending' = "none" /\ imPc' = "command"
    /\ UNCHANGED <<imTls, imState, imFailures, imRefused>>
    /\ UNCHANGED <<imWork, imRaced, imModes, imSelection, imErrors, imSearch, imDisk>>

----------------------------------------------------------------------------
(* Selecting and searching *)

\* SELECT and EXAMINE; one that is refused leaves the selection alone
Select(b, readOnly) ==
    /\ LoggedIn /\ Exists(b)
    /\ Answer("OK", FALSE, "command")
    /\ imState' = "Selected"
    /\ imSel' = [box |-> b, readOnly |-> readOnly] /\ imView' = imBox[b]
    /\ imRenumbered' = TRUE
    /\ imRaced' = FALSE
    /\ UNCHANGED <<imTls, imFailures, imPending, imRefused>>
    /\ UNCHANGED <<imSaved, imFound, imAddressed, imWork, imModes, imDisk>>

\* CLOSE (which expunges nothing) and UNSELECT
CloseMailbox ==
    /\ imState = "Selected"
    /\ Answer("OK", FALSE, "command")
    /\ imState' = "Authenticated" /\ imSel' = NoSel /\ imView' = <<>>
    /\ UNCHANGED <<imTls, imFailures, imPending, imRefused>>
    /\ UNCHANGED <<imWork, imRaced, imModes, imSearch, imDisk>>

\* ENABLE UIDONLY, refused while a mailbox is selected
EnableUidOnly ==
    /\ "uidonly" \in ImUses
    /\ imState = "Authenticated"
    /\ Answer("OK", FALSE, "command")
    /\ imUidOnly' = TRUE
    /\ UNCHANGED <<imNotify, imWork, imRaced, imAuth, imSelection, imSearch, imDisk>>

Value(i, uid) == IF uid THEN imView[i].uid ELSE i

\* SEARCH or UID SEARCH RETURN (SAVE): the messages that match are the input
SearchSave(hits, uid) ==
    /\ "search" \in ImUses
    /\ imState = "Selected" /\ hits \subseteq DOMAIN imView
    /\ imUidOnly => uid
    /\ Answer("OK", FALSE, "command")
    /\ imSaved' = [uids |-> uid, values |-> {Value(i, uid) : i \in hits}]
    /\ imFound' = [box |-> imSel.box, uids |-> {imView[i].uid : i \in hits}]
    /\ imRenumbered' = FALSE /\ imAddressed' = {}
    /\ UNCHANGED <<imWork, imRaced, imAuth, imModes, imSelection, imDisk>>

\* mutant: the kinds are not compared
SavedSearchOkAny(uid) == imSaved # NoSaved

\* saved_search_ok
SavedSearchOk(uid) == imSaved # NoSaved /\ imSaved.uids = uid

\* what $ stands for in the view
Dollar(uid) == {i \in DOMAIN imView : Value(i, uid) \in imSaved.values}

----------------------------------------------------------------------------
(* COPY, MOVE and APPEND *)

\* the positions of a set, matched from the first to the last
Ascending(positions) ==
    {order \in [1..Cardinality(positions) -> positions] :
        \A i, j \in DOMAIN order : i < j => order[i] < order[j]}

\* copy: dollar names the saved result, otherwise the set is the input
Copy(positions, dollar, uid, target, move) ==
    /\ imState = "Selected" /\ Exists(target)
    /\ imUidOnly => uid
    /\ dollar => SavedSearchOk(uid) /\ positions = Dollar(uid)
    /\ move => ~imSel.readOnly
    /\ positions \subseteq DOMAIN imView
    /\ Answer("OK", FALSE, "copy")
    /\ \E order \in Ascending(positions) :
          imWork' = [target |-> target, copy |-> order, remove |-> IF move THEN order ELSE <<>>]
    /\ imAddressed' = IF dollar THEN {imView[i].uid : i \in positions} ELSE {}
    /\ UNCHANGED <<imSaved, imFound, imRenumbered, imRaced, imAuth, imModes, imSelection, imDisk>>

Written(b, text) ==
    [imBox EXCEPT ![b] = Append(IF @ = Missing THEN <<>> ELSE @, [uid |-> imUid, text |-> text])]

\* one message is read and appended to the target, which append creates again
\* if it has disappeared
CopyOne ==
    /\ imPc = "copy" /\ imWork.copy # <<>>
    /\ LET entry == imView[Head(imWork.copy)] IN
         /\ entry \in Range(imBox[imSel.box])
         /\ imUid <= ImMaxUid
         /\ imBox' = Written(imWork.target, entry.text)
    /\ imUid' = imUid + 1
    /\ imWork' = [imWork EXCEPT !.copy = Tail(@)]
    /\ UNCHANGED <<imPc, imOps, imWritten, imGone, imRaced, imAuth, imModes, imSelection, imErrors, imSearch>>

\* mutant: the failed message is skipped and the rest of the MOVE goes on
CopyFailsOnward ==
    /\ imPc = "copy" /\ imWork.copy # <<>>
    /\ imWork' = [imWork EXCEPT !.copy = Tail(@)]
    /\ UNCHANGED <<imPc, imRaced, imAuth, imModes, imSelection, imErrors, imSearch, imDisk>>

\* the message cannot be read or written: nothing is removed
CopyFails ==
    /\ imPc = "copy" /\ imWork.copy # <<>>
    /\ imPc' = "command" /\ imWork' = NoWork /\ imAddressed' = {}
    /\ UNCHANGED <<imRaced, imAuth, imModes, imSelection, imErrors, imSaved, imFound, imRenumbered, imDisk>>

\* messages.remove: what follows moves up
Without(view, at) == [i \in 1..Len(view) - 1 |-> view[IF i < at THEN i ELSE i + 1]]

\* remove_files: a file that is gone already is not missed
WithoutUid(box, uid) ==
    IF uid \in Uids(box) THEN Without(box, CHOOSE i \in DOMAIN box : box[i].uid = uid) ELSE box

\* MOVE: remove_at, after every copy was made; removing the file may fail
RemoveOne(ok) ==
    /\ imPc = "copy" /\ imWork.copy = <<>> /\ imWork.remove # <<>>
    /\ LET at == Head(imWork.remove)
       IN  /\ imView' = Without(imView, at)
           /\ imBox' = IF ok /\ Exists(imSel.box)
                        THEN [imBox EXCEPT ![imSel.box] = WithoutUid(@, imView[at].uid)]
                        ELSE imBox
    /\ imWork' = [imWork EXCEPT !.remove = [i \in 1..Len(@) - 1 |-> @[i + 1] - 1]]
    /\ imRenumbered' = TRUE
    /\ UNCHANGED <<imPc, imSel, imUid, imOps, imWritten, imGone, imRaced, imAuth, imModes, imErrors, imSaved, imFound,
                   imAddressed>>

CopyDone ==
    /\ imPc = "copy" /\ imWork.copy = <<>> /\ imWork.remove = <<>>
    /\ imPc' = "command" /\ imWork' = NoWork /\ imAddressed' = {}
    /\ UNCHANGED <<imRaced, imAuth, imModes, imSelection, imErrors, imSaved, imFound, imRenumbered, imDisk>>

\* APPEND waits for its literal, then writes it, or not if writing fails
AppendBegin(b) ==
    /\ "append" \in ImUses
    /\ LoggedIn /\ Exists(b)
    /\ Answer("OK", FALSE, "literal")
    /\ imWork' = [NoWork EXCEPT !.target = b]
    /\ UNCHANGED <<imRaced, imAuth, imModes, imSelection, imSearch, imDisk>>

LiteralDone(ok) ==
    /\ imPc = "literal" /\ imUid <= ImMaxUid
    /\ imPc' = "command" /\ imWork' = NoWork
    /\ imBox' = IF ok THEN Written(imWork.target, imUid) ELSE imBox
    /\ imUid' = IF ok THEN imUid + 1 ELSE imUid
    /\ imWritten' = IF ok THEN imWritten \cup {imUid} ELSE imWritten
    /\ UNCHANGED <<imOps, imGone, imRaced, imAuth, imModes, imSelection, imErrors, imSearch>>

----------------------------------------------------------------------------
(* IDLE and NOTIFY *)

Idle ==
    /\ LoggedIn
    /\ Answer("OK", FALSE, "idle")
    /\ UNCHANGED <<imWork, imRaced, imAuth, imModes, imSelection, imSearch, imDisk>>

IdleDone ==
    /\ imPc = "idle" /\ imPc' = "command"
    /\ UNCHANGED <<imWork, imRaced, imAuth, imModes, imSelection, imErrors, imSearch, imDisk>>

Notify(on) ==
    /\ "notify" \in ImUses
    /\ LoggedIn
    /\ Answer("OK", FALSE, "command")
    /\ imNotify' = on
    /\ UNCHANGED <<imUidOnly, imWork, imRaced, imAuth, imSelection, imSearch, imDisk>>

\* check_idle and check_notify compare the numbers of messages
Stale(view, fresh) == Len(fresh) # Len(view)

\* the poll every IDLE_POLL seconds
Poll ==
    /\ imPc = "idle" \/ (imPc = "command" /\ imNotify)
    /\ imState = "Selected" /\ Exists(imSel.box)
    /\ Stale(imView, imBox[imSel.box])
    /\ imView' = imBox[imSel.box]
    /\ imRenumbered' = TRUE
    /\ UNCHANGED <<imPc, imSel, imWork, imRaced, imAuth, imModes, imErrors, imSaved, imFound, imAddressed,
                   imDisk>>

----------------------------------------------------------------------------
(* The mailboxes, changed by this session (own) or by another one *)

MailboxOp(own) ==
    /\ own => LoggedIn /\ Answer("OK", FALSE, "command")
    /\ ~own => imPc # "closed" /\ UNCHANGED <<imPc, imErrors>>
    /\ imOps < ImMaxMailboxOps /\ imOps' = imOps + 1
    /\ UNCHANGED <<imUid, imWritten, imWork, imRaced, imAuth, imModes, imSelection, imSearch>>

Create(b, own) ==
    /\ b \in ImFolders /\ ~Exists(b)
    /\ MailboxOp(own)
    /\ imBox' = [imBox EXCEPT ![b] = <<>>]
    /\ UNCHANGED imGone

Delete(b, own) ==
    /\ b \in ImFolders /\ Exists(b)
    /\ MailboxOp(own)
    /\ imBox' = [imBox EXCEPT ![b] = Missing]
    /\ imGone' = imGone \cup Texts(imBox[b])

Rename(from, to, own) ==
    /\ {from, to} \subseteq ImFolders /\ Exists(from) /\ ~Exists(to)
    /\ MailboxOp(own)
    /\ imBox' = [imBox EXCEPT ![to] = imBox[from], ![from] = Missing]
    /\ UNCHANGED imGone

\* delivery to the inbox
ImDeliver ==
    /\ imPc # "closed" /\ imUid <= ImMaxUid
    /\ imBox' = Written(ImInbox, imUid) /\ imUid' = imUid + 1
    /\ imWritten' = imWritten \cup {imUid}
    /\ UNCHANGED <<imPc, imOps, imGone, imWork, imRaced, imAuth, imModes, imSelection, imErrors, imSearch>>

\* another session expunges a message
OtherExpunge(b, i) ==
    /\ imPc # "closed" /\ Exists(b) /\ i \in DOMAIN imBox[b]
    /\ imBox' = [imBox EXCEPT ![b] = Without(@, i)]
    /\ imGone' = imGone \cup {imBox[b][i].text}
    /\ imRaced' = (imRaced \/ b = imSel.box)
    /\ UNCHANGED <<imPc, imUid, imOps, imWritten, imWork, imAuth, imModes, imSelection, imErrors, imSearch>>

ImNext ==
    \/ BadLine \/ Hangup \/ ImStartTls \/ AuthCancel \/ CloseMailbox \/ EnableUidOnly
    \/ \E ok \in BOOLEAN : Read(ok) \/ LoginCommand(ok) \/ AuthResponse(ok) \/ RemoveOne(ok) \/ LiteralDone(ok)
                           \/ Notify(ok)
    \/ \E m \in ImMechanisms : Authenticate(m)
    \/ \E b \in ImBoxes, readOnly \in BOOLEAN : Select(b, readOnly)
    \/ \E hits \in SUBSET DOMAIN imView, uid \in BOOLEAN : SearchSave(hits, uid)
    \/ \E positions \in SUBSET DOMAIN imView, dollar, uid, move \in BOOLEAN, b \in ImBoxes :
          Copy(positions, dollar, uid, b, move)
    \/ CopyOne \/ CopyFails \/ CopyDone
    \/ \E b \in ImBoxes : AppendBegin(b)
    \/ Idle \/ IdleDone \/ Poll
    \/ \E b \in ImFolders, own \in BOOLEAN : Create(b, own) \/ Delete(b, own)
    \/ \E a, b \in ImFolders, own \in BOOLEAN : Rename(a, b, own)
    \/ ImDeliver
    \/ \E b \in ImBoxes, i \in 1..ImMaxUid : OtherExpunge(b, i)

ImSpec == ImInit /\ [][ImNext]_imVars

----------------------------------------------------------------------------
(* Properties *)

ImTypeOK ==
    /\ imPc \in {"command", "sasl", "literal", "copy", "idle", "closed"}
    /\ {imTls, imUidOnly, imNotify, imRenumbered, imRaced} \subseteq BOOLEAN
    /\ imState \in {"NotAuthenticated", "Authenticated", "Selected"}
    /\ imPending \in ImMechanisms \cup {"none", "LoginPass", "ScramFinal"}
    /\ imFailures \in 0..ImMaxFailures /\ imStreak \in 0..ImErrorStreak
    /\ imUid \in 1..ImMaxUid + 1 /\ imOps \in 0..ImMaxMailboxOps
    /\ (imState = "Selected") = (imSel # NoSel)

\* A connection gets at most three passwords, tokens and exchanges refused,
\* whatever mechanisms it mixes, cancels or restarts, and although STARTTLS
\* starts a new session state.
RefusalsBounded == imRefused <= ImMaxFailures

\* MOVE loses nothing: every message ever written is still in a mailbox, unless
\* it was expunged or its mailbox deleted, however a MOVE is interrupted, fails
\* half-way or meets other sessions that rename or delete its mailboxes.
NothingLost == imWritten \subseteq imGone \cup UNION {Texts(imBox[b]) : b \in ImBoxes}

\* A command with $ works only on messages the saved search found: as long as
\* the searched mailbox is the selected one and, for sequence numbers, the
\* numbering is still the one the search used.
DollarFound ==
    (imSel.box = imFound.box /\ (imSaved.uids \/ ~imRenumbered)) => imAddressed \subseteq imFound.uids

\* Refused logins are bounded over all mechanisms, no command loses a message
\* it was not asked to remove, and $ stands for what the search found
\* (imap/session/*.rs).
ImapSessionCorrect == ImTypeOK /\ RefusalsBounded /\ NothingLost /\ DollarFound

\* "drop a client that only produces BAD responses" (server.rs): a connection
\* is dropped for its errors only after that many commands really answered BAD.
\* Not so: a fetched message that contains " BAD " counts as well.
DroppedWereBad == imStreak >= ImErrorStreak => ~imQuoted

\* What arrives is announced: while the client idles (or asked for NOTIFY) in a
\* mailbox, a message that stays there gets into its view, unless the client
\* stops waiting, the mailbox goes, or another session expunges a message of it
\* at the same time (then the numbers may agree and nothing is seen).
ArrivalAnnounced ==
    \A u \in 1..ImMaxUid :
        (imPc = "idle" /\ imState = "Selected" /\ u \in Uids(imBox[imSel.box]) /\ u \notin Uids(imView))
            ~> (u \in Uids(imView) \/ imPc # "idle" \/ imRaced \/ imSel = NoSel
                \/ u \notin Uids(imBox[imSel.box]))

============================================================================

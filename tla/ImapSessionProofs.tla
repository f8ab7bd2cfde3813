------------------------- MODULE ImapSessionProofs -------------------------
(***************************************************************************)
(* Proofs about the IMAP session, for every number of mailboxes, messages, *)
(* mechanisms and mailbox operations: who is logged in, what a MOVE leaves *)
(* on disk, and what $ stands for.                                         *)
(***************************************************************************)
EXTENDS ImapSession, SequenceTheorems, FiniteSetTheorems, TLAPS

----------------------------------------------------------------------------
(* The connection: its state, its failures and its errors.                 *)

ImFields ==
    /\ imPc \in {"command", "sasl", "literal", "copy", "idle", "closed"}
    /\ imTls \in BOOLEAN /\ imUidOnly \in BOOLEAN /\ imNotify \in BOOLEAN
    /\ imRenumbered \in BOOLEAN /\ imRaced \in BOOLEAN
    /\ imPending \in ImMechanisms \cup {"none", "LoginPass", "ScramFinal"}
    /\ imFailures \in 0 .. ImMaxFailures /\ imStreak \in 0 .. ImErrorStreak
    /\ imUid \in 1 .. ImMaxUid + 1 /\ imOps \in 0 .. ImMaxMailboxOps

\* A mailbox is selected in the Selected state only, an exchange is under way before the login
\* only, and in the clear nobody logs in; the refusals are the failures counted, and a connection
\* that is still open has room for one more of each.
ImStanding ==
    /\ \/ imState = "Selected" /\ imSel.box \in ImBoxes
       \/ imState \in {"NotAuthenticated", "Authenticated"} /\ imSel = NoSel
    /\ imPc = "sasl" => imTls = TRUE /\ imState = "NotAuthenticated"
    /\ imTls = FALSE => imState = "NotAuthenticated" /\ imFailures = 0
    /\ imRefused = imFailures
    /\ imPc # "closed" => imFailures < ImMaxFailures /\ imStreak < ImErrorStreak
    /\ imPc = "copy" => imState = "Selected"

ImOpen == ImFields /\ ImStanding

LEMMA ImNumbers == /\ ImMaxFailures \in Nat /\ ImMaxFailures > 0 /\ ImErrorStreak \in Nat /\ ImErrorStreak > 0
                   /\ ImMaxUid \in Nat /\ ImMaxMailboxOps \in Nat /\ NoBox \notin ImBoxes
  BY ImAssumption

\* A command that is answered leaves the connection where it goes next, or closed.
LEMMA ImAnswers ==
  ASSUME ImOpen, NEW answer, NEW text, NEW next, Answer(answer, text, next)
  PROVE  /\ imPc = "command" /\ imPc' \in {next, "closed"}
         /\ imStreak' \in 0 .. ImErrorStreak
         /\ imPc' # "closed" => imStreak' < ImErrorStreak
         /\ answer = "OK" /\ text = FALSE => imStreak' = 0 /\ imPc' = next
  BY ImNumbers DEF ImOpen, ImFields, ImStanding, Answer, IsBadResponse

LEMMA ImOpens == ImInit => ImOpen
  <1> SUFFICES ASSUME ImInit PROVE ImOpen
    OBVIOUS
  <1>1. ImFields
    <2>1. /\ imTls \in BOOLEAN /\ imUidOnly \in BOOLEAN /\ imNotify \in BOOLEAN
          /\ imRenumbered \in BOOLEAN /\ imRaced \in BOOLEAN
      BY Zenon DEF ImInit
    <2>2. /\ imPc = "command" /\ imPending = "none" /\ imFailures = 0 /\ imStreak = 0
          /\ imUid = 1 /\ imOps = 0
      BY Zenon DEF ImInit
    <2> QED
      BY <2>1, <2>2, ImNumbers DEF ImFields
  <1>2. ImStanding
    BY ImNumbers DEF ImInit, ImStanding
  <1> QED
    BY <1>1, <1>2 DEF ImOpen

LEMMA ImStays == ImOpen /\ [ImNext]_imVars => ImOpen'
  <1> SUFFICES ASSUME ImOpen, [ImNext]_imVars PROVE ImOpen'
    OBVIOUS
  <1>0. ImFields /\ ImStanding
    BY DEF ImOpen
  <1>1. ASSUME BadLine \/ (\E text \in BOOLEAN : Read(text)) PROVE ImOpen'
    <2>1. /\ imPc = "command" /\ imPc' \in {"command", "closed"}
          /\ imStreak' \in 0 .. ImErrorStreak
          /\ imPc' # "closed" => imStreak' < ImErrorStreak
      BY <1>1, ImAnswers DEF BadLine, Read
    <2>2. UNCHANGED <<imRaced, imTls, imState, imFailures, imPending, imRefused, imUidOnly, imNotify,
                      imSel, imRenumbered, imUid, imOps>>
      BY <1>1 DEF BadLine, Read, imAuth, imModes, imSelection, imSearch, imDisk
    <2> QED
      BY <1>0, <2>1, <2>2 DEF ImOpen, ImFields, ImStanding
  <1>2. ASSUME Hangup PROVE ImOpen'
    BY <1>0, <1>2 DEF Hangup, imAuth, imModes, imSelection, imErrors, imSearch, imDisk, ImOpen,
                      ImFields, ImStanding
  <1>3. ASSUME ImStartTls PROVE ImOpen'
    <2>1. imPc = "command" /\ imPc' = "command" /\ imStreak' = 0
      BY <1>3, ImAnswers DEF ImStartTls
    <2>2. /\ imTls = FALSE /\ imTls' = TRUE /\ imState' = "NotAuthenticated" /\ imFailures' = 0
          /\ UNCHANGED <<imPending, imRefused, imRaced, imUidOnly, imNotify, imSel, imRenumbered,
                         imUid, imOps>>
      BY <1>0, <1>3 DEF ImStartTls, imModes, imSelection, imSearch, imDisk, ImFields
    <2> QED
      BY <1>0, <2>1, <2>2, ImNumbers DEF ImOpen, ImFields, ImStanding
  <1>4. ASSUME NEW ok \in BOOLEAN, LoginCommand(ok) PROVE ImOpen'
    <2>1. /\ imPc = "command" /\ imTls = TRUE /\ imState = "NotAuthenticated" /\ imStreak' = 0
          /\ UNCHANGED <<imRaced, imUidOnly, imNotify, imSel, imRenumbered, imUid, imOps>>
      BY <1>0, <1>4 DEF LoginCommand, MayAuthenticate, imModes, imSelection, imSearch, imDisk, ImFields
    <2>2. CASE Accepted /\ UNCHANGED imPc
      BY <1>0, <2>1, <2>2, ImNumbers DEF Accepted, ImOpen, ImFields, ImStanding
    <2>3. CASE AuthFailure("command")
      BY <1>0, <2>1, <2>3, ImNumbers DEF AuthFailure, ImOpen, ImFields, ImStanding
    <2> QED
      BY <1>4, <2>2, <2>3 DEF LoginCommand
  <1>5. ASSUME NEW m \in ImMechanisms, Authenticate(m) PROVE ImOpen'
    <2>1. imPc = "command" /\ imPc' = "sasl" /\ imStreak' = 0
      BY <1>5, ImAnswers DEF Authenticate
    <2>2. /\ imTls = TRUE /\ imState = "NotAuthenticated" /\ imPending' = m
          /\ UNCHANGED <<imTls, imState, imFailures, imRefused, imRaced, imUidOnly, imNotify, imSel,
                         imRenumbered, imUid, imOps>>
      BY <1>0, <1>5 DEF Authenticate, MayAuthenticate, imModes, imSelection, imSearch, imDisk, ImFields
    <2> QED
      BY <1>0, <2>1, <2>2, ImNumbers DEF ImOpen, ImFields, ImStanding
  <1>6. ASSUME NEW ok \in BOOLEAN, AuthResponse(ok) PROVE ImOpen'
    <2>1. /\ imPc = "sasl"
          /\ UNCHANGED <<imRaced, imUidOnly, imNotify, imSel, imStreak, imRenumbered, imUid, imOps>>
      BY <1>6 DEF AuthResponse, imModes, imSelection, imErrors, imSearch, imDisk
    <2>2. CASE AuthFailure("command")
      BY <1>0, <2>1, <2>2, ImNumbers DEF AuthFailure, ImOpen, ImFields, ImStanding
    <2>3. CASE /\ imPending \in DOMAIN Following /\ imPending' = Following[imPending]
               /\ UNCHANGED <<imPc, imTls, imState, imFailures, imRefused>>
      <3>1. imPending' \in {"LoginPass", "ScramFinal"}
        BY <2>3 DEF Following
      <3> QED
        BY <1>0, <2>1, <2>3, <3>1 DEF ImOpen, ImFields, ImStanding
    <2>4. CASE Accepted /\ imPc' = "command"
      BY <1>0, <2>1, <2>4, ImNumbers DEF Accepted, ImOpen, ImFields, ImStanding
    <2> QED
      BY <1>6, <2>2, <2>3, <2>4 DEF AuthResponse
  <1>7. ASSUME AuthCancel PROVE ImOpen'
    BY <1>0, <1>7 DEF AuthCancel, imModes, imSelection, imErrors, imSearch, imDisk, ImOpen, ImFields,
                      ImStanding
  <1>8. ASSUME NEW b \in ImBoxes, NEW readOnly \in BOOLEAN, Select(b, readOnly) PROVE ImOpen'
    <2>1. imPc = "command" /\ imPc' = "command" /\ imStreak' = 0
      BY <1>8, ImAnswers DEF Select
    <2>2. /\ imState # "NotAuthenticated" /\ imState' = "Selected" /\ imSel'.box = b
          /\ UNCHANGED <<imTls, imFailures, imPending, imRefused, imUidOnly, imNotify, imUid, imOps>>
      BY <1>8 DEF Select, LoggedIn, imModes, imDisk
    <2>3. imRenumbered' \in BOOLEAN /\ imRaced' \in BOOLEAN
      BY <1>8, Zenon DEF Select
    <2> QED
      BY <1>0, <2>1, <2>2, <2>3, ImNumbers DEF ImOpen, ImFields, ImStanding
  <1>9. ASSUME CloseMailbox PROVE ImOpen'
    <2>1. imPc = "command" /\ imPc' = "command" /\ imStreak' = 0
      BY <1>9, ImAnswers DEF CloseMailbox
    <2>2. /\ imState = "Selected" /\ imState' = "Authenticated" /\ imSel' = NoSel
          /\ UNCHANGED <<imTls, imFailures, imPending, imRefused, imRaced, imUidOnly, imNotify,
                         imRenumbered, imUid, imOps>>
      BY <1>9 DEF CloseMailbox, imModes, imSearch, imDisk
    <2> QED
      BY <1>0, <2>1, <2>2, ImNumbers DEF ImOpen, ImFields, ImStanding
  <1>10. ASSUME EnableUidOnly \/ (\E on \in BOOLEAN : Notify(on)) PROVE ImOpen'
    <2>1. imPc = "command" /\ imPc' = "command" /\ imStreak' = 0
      BY <1>10, ImAnswers DEF EnableUidOnly, Notify
    <2>2. /\ imUidOnly' \in BOOLEAN /\ imNotify' \in BOOLEAN
          /\ UNCHANGED <<imTls, imState, imFailures, imPending, imRefused, imRaced, imSel,
                         imRenumbered, imUid, imOps>>
      BY <1>0, <1>10 DEF EnableUidOnly, Notify, imAuth, imSelection, imSearch, imDisk, ImFields
    <2> QED
      BY <1>0, <2>1, <2>2, ImNumbers DEF ImOpen, ImFields, ImStanding
  <1>11. ASSUME NEW hits, NEW uid \in BOOLEAN, SearchSave(hits, uid) PROVE ImOpen'
    <2>1. imPc = "command" /\ imPc' = "command" /\ imStreak' = 0
      BY <1>11, ImAnswers DEF SearchSave
    <2>2. UNCHANGED <<imTls, imState, imFailures, imPending, imRefused, imRaced, imUidOnly,
                      imNotify, imSel, imUid, imOps>>
      BY <1>11 DEF SearchSave, imAuth, imModes, imSelection, imDisk
    <2>3. imRenumbered' \in BOOLEAN
      BY <1>11, Zenon DEF SearchSave
    <2> QED
      BY <1>0, <2>1, <2>2, <2>3, ImNumbers DEF ImOpen, ImFields, ImStanding
  <1>12. ASSUME NEW positions, NEW dollar \in BOOLEAN, NEW uid \in BOOLEAN, NEW move \in BOOLEAN,
                NEW b \in ImBoxes, Copy(positions, dollar, uid, b, move)
         PROVE  ImOpen'
    <2>1. imPc = "command" /\ imPc' = "copy" /\ imStreak' = 0
      BY <1>12, ImAnswers DEF Copy
    <2>2. /\ imState = "Selected"
          /\ UNCHANGED <<imTls, imState, imFailures, imPending, imRefused, imRaced, imUidOnly,
                         imNotify, imSel, imRenumbered, imUid, imOps>>
      BY <1>12 DEF Copy, imAuth, imModes, imSelection, imDisk
    <2> QED
      BY <1>0, <2>1, <2>2, ImNumbers DEF ImOpen, ImFields, ImStanding
  <1>13. ASSUME CopyOne PROVE ImOpen'
    BY <1>0, <1>13, ImNumbers DEF CopyOne, imAuth, imModes, imSelection, imErrors, imSearch, ImOpen,
                       ImFields, ImStanding
  <1>14. ASSUME CopyFails \/ CopyDone PROVE ImOpen'
    <2>1. /\ imPc = "copy" /\ imPc' = "command"
          /\ UNCHANGED <<imTls, imState, imFailures, imPending, imRefused, imRaced, imUidOnly,
                         imNotify, imSel, imStreak, imRenumbered, imUid, imOps>>
      BY <1>14 DEF CopyFails, CopyDone, imAuth, imModes, imSelection, imErrors, imDisk
    <2> QED
      BY <1>0, <2>1 DEF ImOpen, ImFields, ImStanding
  <1>15. ASSUME NEW ok \in BOOLEAN, RemoveOne(ok) PROVE ImOpen'
    <2>1. /\ imPc = "copy" /\ imRenumbered' = TRUE
          /\ UNCHANGED <<imPc, imTls, imState, imFailures, imPending, imRefused, imRaced, imUidOnly,
                         imNotify, imSel, imStreak, imUid, imOps>>
      BY <1>15 DEF RemoveOne, imAuth, imModes, imErrors
    <2> QED
      BY <1>0, <2>1 DEF ImOpen, ImFields, ImStanding
  <1>16. ASSUME NEW b \in ImBoxes, AppendBegin(b) PROVE ImOpen'
    <2>1. imPc = "command" /\ imPc' = "literal" /\ imStreak' = 0
      BY <1>16, ImAnswers DEF AppendBegin
    <2>2. UNCHANGED <<imTls, imState, imFailures, imPending, imRefused, imRaced, imUidOnly, imNotify,
                      imSel, imRenumbered, imUid, imOps>>
      BY <1>16 DEF AppendBegin, imAuth, imModes, imSelection, imSearch, imDisk
    <2> QED
      BY <1>0, <2>1, <2>2, ImNumbers DEF ImOpen, ImFields, ImStanding
  <1>17. ASSUME NEW ok \in BOOLEAN, LiteralDone(ok) PROVE ImOpen'
    <2>1. /\ imPc = "literal" /\ imPc' = "command" /\ imUid' \in 1 .. ImMaxUid + 1
          /\ UNCHANGED <<imTls, imState, imFailures, imPending, imRefused, imRaced, imUidOnly,
                         imNotify, imSel, imStreak, imRenumbered, imOps>>
      BY <1>0, <1>17, ImNumbers
         DEF LiteralDone, imAuth, imModes, imSelection, imErrors, imSearch, ImFields
    <2> QED
      BY <1>0, <2>1 DEF ImOpen, ImFields, ImStanding
  <1>18. ASSUME Idle PROVE ImOpen'
    <2>1. imPc = "command" /\ imPc' = "idle" /\ imStreak' = 0
      BY <1>18, ImAnswers DEF Idle
    <2>2. UNCHANGED <<imTls, imState, imFailures, imPending, imRefused, imRaced, imUidOnly, imNotify,
                      imSel, imRenumbered, imUid, imOps>>
      BY <1>18 DEF Idle, imAuth, imModes, imSelection, imSearch, imDisk
    <2> QED
      BY <1>0, <2>1, <2>2, ImNumbers DEF ImOpen, ImFields, ImStanding
  <1>19. ASSUME IdleDone PROVE ImOpen'
    BY <1>0, <1>19 DEF IdleDone, imAuth, imModes, imSelection, imErrors, imSearch, imDisk, ImOpen,
                       ImFields, ImStanding
  <1>20. ASSUME Poll PROVE ImOpen'
    BY <1>0, <1>20 DEF Poll, imAuth, imModes, imErrors, imDisk, ImOpen, ImFields, ImStanding
  <1>21. ASSUME NEW own \in BOOLEAN, MailboxOp(own) PROVE ImOpen'
    <2>1. /\ imOps' \in 0 .. ImMaxMailboxOps
          /\ UNCHANGED <<imTls, imState, imFailures, imPending, imRefused, imRaced, imUidOnly,
                         imNotify, imSel, imRenumbered, imUid>>
      BY <1>0, <1>21, ImNumbers DEF MailboxOp, imAuth, imModes, imSelection, imSearch, ImFields
    <2>2. CASE own
      <3>1. imPc = "command" /\ imPc' = "command" /\ imStreak' = 0
        BY <1>21, <2>2, ImAnswers DEF MailboxOp
      <3> QED
        BY <1>0, <2>1, <3>1, ImNumbers DEF ImOpen, ImFields, ImStanding
    <2>3. CASE ~own
      <3>1. UNCHANGED <<imPc, imStreak>>
        BY <1>21, <2>3 DEF MailboxOp, imErrors
      <3> QED
        BY <1>0, <2>1, <3>1 DEF ImOpen, ImFields, ImStanding
    <2> QED
      BY <2>2, <2>3
  <1>22. ASSUME ImDeliver PROVE ImOpen'
    BY <1>0, <1>22, ImNumbers DEF ImDeliver, imAuth, imModes, imSelection, imErrors, imSearch, ImOpen,
                       ImFields, ImStanding
  <1>23. ASSUME NEW b \in ImBoxes, NEW i, OtherExpunge(b, i) PROVE ImOpen'
    <2>1. imRaced' \in BOOLEAN
      BY <1>23, Zenon DEF OtherExpunge
    <2>2. UNCHANGED <<imPc, imTls, imState, imFailures, imPending, imRefused, imUidOnly, imNotify,
                      imSel, imStreak, imRenumbered, imUid, imOps>>
      BY <1>23 DEF OtherExpunge, imAuth, imModes, imSelection, imErrors, imSearch
    <2> QED
      BY <1>0, <2>1, <2>2 DEF ImOpen, ImFields, ImStanding
  <1>24. ASSUME UNCHANGED imVars PROVE ImOpen'
    BY <1>0, <1>24 DEF imVars, imAuth, imModes, imSelection, imErrors, imSearch, imDisk, ImOpen,
                       ImFields, ImStanding
  <1> QED
    BY <1>1, <1>2, <1>3, <1>4, <1>5, <1>6, <1>7, <1>8, <1>9, <1>10, <1>11, <1>12, <1>13, <1>14,
       <1>15, <1>16, <1>17, <1>18, <1>19, <1>20, <1>21, <1>22, <1>23, <1>24
       DEF ImNext, Create, Delete, Rename

----------------------------------------------------------------------------
(* The messages: what is on disk, in the view and in the hands of a MOVE.  *)

ImEntries == [uid : Nat, text : Nat]
ImWorks == [target : ImBoxes \cup {NoBox}, copy : Seq(Nat), remove : Seq(Nat)]
Blank == [uid |-> 0, text |-> 0]

Held(box) == UNION {Range(box[b]) : b \in ImBoxes}

\* A UID names one content, in the mailboxes and in the view, and the next UID names none yet.
ImNamed(box, view, uid) ==
    \A e \in Held(box) \cup Range(view) :
        /\ e \in ImEntries /\ e.uid < uid
        /\ e.uid = 0 => e.text = 0
        /\ \A d \in Held(box) \cup Range(view) : d.uid = e.uid => d.text = e.text

ImKept(box, gone, written) == \A t \in written : t \in gone \/ \E e \in Held(box) : e.text = t

\* A content the view may lose: it is on disk under a UID that is not in the view.
ImSpared(box, view, gone, t) ==
    t \in gone \cup {0} \/ \E e \in Held(box) : e.text = t /\ e.uid \notin Uids(view)

\* What a MOVE has still to copy is the rest of what it is going to remove, in the order of the
\* view; what it has copied already can be spared.
ImMoving(box, view, gone, copy, remove) ==
    remove # <<>> =>
        /\ Len(copy) <= Len(remove)
        /\ \A i \in DOMAIN remove : remove[i] \in DOMAIN view
        /\ \A i, j \in DOMAIN remove : i < j => remove[i] < remove[j]
        /\ \A i \in DOMAIN copy : copy[i] = remove[Len(remove) - Len(copy) + i]
        /\ \A i \in 1 .. Len(remove) - Len(copy) : ImSpared(box, view, gone, view[remove[i]].text)

ImData ==
    /\ imBox \in [ImBoxes -> Seq(ImEntries)] /\ imView \in Seq(ImEntries)
    /\ imWork \in ImWorks
    /\ imPc \in {"copy", "literal"} => imWork.target \in ImBoxes
    /\ 0 \notin imWritten

ImSafe ==
    /\ ImData
    /\ ImNamed(imBox, imView, imUid)
    /\ ImKept(imBox, imGone, imWritten)
    /\ imPc = "copy" => ImMoving(imBox, imView, imGone, imWork.copy, imWork.remove)

LEMMA HeldWhere == ASSUME NEW box, NEW e
                   PROVE  e \in Held(box) <=> \E b \in ImBoxes : e \in Range(box[b])
  BY Zenon DEF Held

LEMMA RangeAt == ASSUME NEW s, NEW e PROVE e \in Range(s) <=> \E i \in DOMAIN s : s[i] = e
  BY Zenon DEF Range

\* One mailbox is written: what is held is what the others hold and what it is given.
LEMMA HeldOne ==
  ASSUME NEW E, NEW box \in [ImBoxes -> Seq(E)], NEW b \in ImBoxes, NEW s \in Seq(E)
  PROVE  /\ [box EXCEPT ![b] = s] \in [ImBoxes -> Seq(E)]
         /\ \A e \in Held([box EXCEPT ![b] = s]) : e \in Held(box) \/ e \in Range(s)
         /\ \A e \in Held(box) : e \in Held([box EXCEPT ![b] = s]) \/ e \in Range(box[b])
         /\ \A e \in Range(s) : e \in Held([box EXCEPT ![b] = s])
         /\ \A e \in Range(box[b]) : e \in Held(box)
  <1> DEFINE box1 == [box EXCEPT ![b] = s]
  <1>1. box1[b] = s /\ \A c \in ImBoxes : c # b => box1[c] = box[c]
    OBVIOUS
  <1>2. box1 \in [ImBoxes -> Seq(E)]
    OBVIOUS
  <1> HIDE DEF box1
  <1>3. \A e \in Held(box1) : e \in Held(box) \/ e \in Range(s)
    <2> SUFFICES ASSUME NEW e \in Held(box1), e \notin Range(s) PROVE e \in Held(box)
      OBVIOUS
    <2>1. PICK c \in ImBoxes : e \in Range(box1[c])
      BY HeldWhere
    <2>2. box1[c] = box[c]
      BY <1>1, <2>1
    <2> QED
      BY <2>1, <2>2, HeldWhere
  <1>4. \A e \in Held(box) : e \in Held(box1) \/ e \in Range(box[b])
    <2> SUFFICES ASSUME NEW e \in Held(box), e \notin Range(box[b]) PROVE e \in Held(box1)
      OBVIOUS
    <2>1. PICK c \in ImBoxes : e \in Range(box[c])
      BY HeldWhere
    <2>2. box1[c] = box[c]
      BY <1>1, <2>1
    <2> QED
      BY <2>1, <2>2, HeldWhere
  <1>5. \A e \in Range(s) : e \in Held(box1)
    BY <1>1, HeldWhere
  <1>6. \A e \in Range(box[b]) : e \in Held(box)
    BY HeldWhere
  <1> QED
    BY <1>2, <1>3, <1>4, <1>5, <1>6 DEF box1

LEMMA MissingIs ==
  /\ Missing \in Seq(ImEntries) /\ Range(Missing) = {Blank} /\ Blank \in ImEntries
  /\ Blank.uid = 0 /\ Blank.text = 0
  <1>1. Blank \in ImEntries /\ Blank.uid = 0 /\ Blank.text = 0
    BY DEF Blank, ImEntries
  <1>2. Missing = <<Blank>>
    BY DEF Missing, Blank
  <1> HIDE DEF Blank, ImEntries
  <1> QED
    BY <1>1, <1>2 DEF Range

\* The sequence without one position.
LEMMA WithoutIs ==
  ASSUME NEW E, NEW s \in Seq(E), NEW at \in DOMAIN s
  PROVE  /\ Without(s, at) \in Seq(E)
         /\ DOMAIN Without(s, at) = 1 .. Len(s) - 1
         /\ \A e \in Range(Without(s, at)) : e \in Range(s)
         /\ \A e \in Range(s) : e \in Range(Without(s, at)) \/ e = s[at]
         /\ \A i \in DOMAIN s : i > at => Without(s, at)[i - 1] = s[i]
  <1> DEFINE w == Without(s, at)
  <1>0. Len(s) \in Nat /\ DOMAIN s = 1 .. Len(s) /\ \A i \in 1 .. Len(s) : s[i] \in E
    BY LenProperties
  <1>1. w = [i \in 1 .. Len(s) - 1 |-> s[IF i < at THEN i ELSE i + 1]]
    BY DEF Without
  <1> HIDE DEF w
  <1>2. DOMAIN w = 1 .. Len(s) - 1
    BY <1>1
  <1>3. \A i \in 1 .. Len(s) - 1 : (i < at => w[i] = s[i]) /\ (~(i < at) => w[i] = s[i + 1])
    BY <1>1
  <1>4. Len(s) - 1 \in Nat
    BY <1>0
  <1>5. \A i \in 1 .. Len(s) - 1 : w[i] \in E
    BY <1>0, <1>3
  <1>6. w \in Seq(E)
    <2>1. w \in [1 .. Len(s) - 1 -> E]
      BY <1>1, <1>5
    <2> QED
      BY <1>4, <2>1, SeqDef
  <1>7. \A e \in Range(w) : e \in Range(s)
    BY <1>0, <1>2, <1>3, RangeAt
  <1>8. \A e \in Range(s) : e \in Range(w) \/ e = s[at]
    <2> SUFFICES ASSUME NEW i \in DOMAIN s, i # at PROVE s[i] \in Range(w)
      BY RangeAt
    <2>1. CASE i < at
      BY <1>0, <1>2, <1>3, <2>1, RangeAt
    <2>2. CASE i > at
      <3>1. i - 1 \in 1 .. Len(s) - 1 /\ w[i - 1] = s[i]
        BY <1>0, <1>3, <2>2
      <3> QED
        BY <1>2, <3>1, RangeAt
    <2> QED
      BY <1>0, <2>1, <2>2
  <1>9. \A i \in DOMAIN s : i > at => w[i - 1] = s[i]
    BY <1>0, <1>3
  <1> QED
    BY <1>2, <1>6, <1>7, <1>8, <1>9 DEF w

\* remove_files takes at most a message with the UID.
LEMMA WithoutUidIs ==
  ASSUME NEW s \in Seq(ImEntries), NEW uid
  PROVE  /\ WithoutUid(s, uid) \in Seq(ImEntries)
         /\ \A e \in Range(WithoutUid(s, uid)) : e \in Range(s)
         /\ \A e \in Range(s) : e \in Range(WithoutUid(s, uid)) \/ e.uid = uid
  <1>1. CASE uid \notin Uids(s)
    BY <1>1 DEF WithoutUid
  <1>2. CASE uid \in Uids(s)
    <2>1. \E i \in DOMAIN s : s[i].uid = uid
      BY <1>2, Zenon DEF Uids
    <2>2. PICK at \in DOMAIN s : s[at].uid = uid /\ WithoutUid(s, uid) = Without(s, at)
      BY <1>2, <2>1, Zenon DEF WithoutUid
    <2> HIDE DEF ImEntries
    <2> QED
      BY <2>2, WithoutIs
  <1> QED
    BY <1>1, <1>2

\* The mailboxes change: every entry is kept or its content is gone, and at most one is new, under
\* the next UID.
ImChange(box, box1, uid, uid1, gone, gone1, fresh) ==
    /\ uid1 \in Nat /\ uid1 >= uid
    /\ \A t \in gone : t \in gone1
    /\ fresh \in ImEntries /\ fresh.uid = uid
    /\ \A e \in Held(box1) : e \in Held(box) \/ e = Blank \/ (e = fresh /\ uid1 = uid + 1)
    /\ \A e \in Held(box) : e \in Held(box1) \/ e.text \in gone1 \/ e.text = 0

LEMMA ImKeeps ==
  ASSUME NEW box, NEW box1, NEW view, NEW uid, NEW uid1, NEW gone, NEW gone1, NEW fresh,
         uid \in Nat, uid >= 1,
         ImNamed(box, view, uid), ImChange(box, box1, uid, uid1, gone, gone1, fresh)
  PROVE  /\ ImNamed(box1, view, uid1)
         /\ \A written : 0 \notin written /\ ImKept(box, gone, written) => ImKept(box1, gone1, written)
         /\ \A t : ImSpared(box, view, gone, t) => ImSpared(box1, view, gone1, t)
  <1>0. Blank \in ImEntries /\ Blank.uid = 0 /\ Blank.text = 0
    BY MissingIs
  <1>a. /\ uid1 \in Nat /\ uid1 >= uid
        /\ \A t \in gone : t \in gone1
        /\ fresh \in ImEntries /\ fresh.uid = uid
        /\ \A e \in Held(box1) : e \in Held(box) \/ e = Blank \/ (e = fresh /\ uid1 = uid + 1)
        /\ \A e \in Held(box) : e \in Held(box1) \/ e.text \in gone1 \/ e.text = 0
    BY DEF ImChange
  <1> HIDE DEF Blank
  <1>1. ImNamed(box1, view, uid1)
    <2> DEFINE Old(e) == e \in Held(box) \cup Range(view)
               Had(e) == Old(e) \/ e = Blank \/ (e = fresh /\ uid1 = uid + 1)
    <2>1. \A e : Old(e) => e \in ImEntries /\ e.uid \in Nat /\ e.uid < uid /\ (e.uid = 0 => e.text = 0)
      BY DEF ImNamed, ImEntries
    <2>2. \A e, d : Old(e) /\ Old(d) /\ d.uid = e.uid => d.text = e.text
      BY DEF ImNamed
    <2>3. \A e \in Held(box1) \cup Range(view) : Had(e)
      BY <1>a
    <2> HIDE DEF Old, ImEntries
    <2>4. \A e : Had(e) => e \in ImEntries /\ e.uid < uid1 /\ (e.uid = 0 => e.text = 0)
      BY <1>0, <1>a, <2>1
    <2>5. \A e, d : Had(e) /\ Had(d) /\ d.uid = e.uid => d.text = e.text
      BY <1>0, <1>a, <2>1, <2>2
    <2> HIDE DEF Had
    <2> QED
      BY <2>3, <2>4, <2>5, Zenon DEF ImNamed
  <1>2. ASSUME NEW written, 0 \notin written, ImKept(box, gone, written) PROVE ImKept(box1, gone1, written)
    <2> SUFFICES ASSUME NEW t \in written, t \notin gone1 PROVE \E e \in Held(box1) : e.text = t
      BY DEF ImKept
    <2>1. PICK e \in Held(box) : e.text = t
      BY <1>a, <1>2 DEF ImKept
    <2>2. e \in Held(box1)
      BY <1>a, <1>2, <2>1
    <2> QED
      BY <2>1, <2>2
  <1>3. ASSUME NEW t, ImSpared(box, view, gone, t) PROVE ImSpared(box1, view, gone1, t)
    <2>1. CASE t \in gone \cup {0}
      BY <1>a, <2>1 DEF ImSpared
    <2>2. CASE t \notin gone \cup {0}
      <3>1. PICK e \in Held(box) : e.text = t /\ e.uid \notin Uids(view)
        BY <1>3, <2>2 DEF ImSpared
      <3> QED
        BY <1>a, <2>2, <3>1 DEF ImSpared
    <2> QED
      BY <2>1, <2>2
  <1> QED
    BY <1>1, <1>2, <1>3

\* The view becomes another one of messages on disk.
LEMMA ImSees ==
  ASSUME NEW box, NEW view, NEW view1, NEW uid, ImNamed(box, view, uid),
         \A e \in Range(view1) : e \in Range(view) \/ e \in Held(box)
  PROVE  ImNamed(box, view1, uid)
  BY Zenon DEF ImNamed

LEMMA ImMovingKept ==
  ASSUME NEW box, NEW box1, NEW view, NEW gone, NEW gone1, NEW copy, NEW remove,
         ImMoving(box, view, gone, copy, remove),
         \A t : ImSpared(box, view, gone, t) => ImSpared(box1, view, gone1, t)
  PROVE  ImMoving(box1, view, gone1, copy, remove)
  BY DEF ImMoving

\* Nothing of what is stored, seen or under way changes, or the work in hand ends.
LEMMA ImSafeQuiet ==
  ASSUME ImSafe, UNCHANGED <<imBox, imView, imUid, imGone, imWritten>>,
         imWork' \in ImWorks, imPc' = "literal" => imWork'.target \in ImBoxes,
         imPc' = "copy" => imPc = "copy" /\ imWork' = imWork
  PROVE  ImSafe'
  BY DEF ImSafe, ImData

\* Another view, with no work in hand.
LEMMA ImSafeView ==
  ASSUME ImSafe, UNCHANGED <<imBox, imUid, imGone, imWritten, imWork>>, imPc' \notin {"copy", "literal"},
         imView' \in Seq(ImEntries), \A e \in Range(imView') : e \in Held(imBox)
  PROVE  ImSafe'
  <1>1. ImNamed(imBox, imView', imUid)
    BY ImSees DEF ImSafe
  <1> QED
    BY <1>1 DEF ImSafe, ImData

\* The mailboxes change, by whoever it may be, and the view does not.
LEMMA ImSafeDisk ==
  ASSUME ImOpen, ImSafe, imBox' \in [ImBoxes -> Seq(ImEntries)],
         NEW fresh, ImChange(imBox, imBox', imUid, imUid', imGone, imGone', fresh),
         imView' = imView,
         \/ imWritten' = imWritten
         \/ imWritten' = imWritten \cup {fresh.text} /\ fresh.text # 0 /\ fresh \in Held(imBox'),
         imWork' \in ImWorks, imPc' \in {"copy", "literal"} => imWork'.target \in ImBoxes,
         imPc' = "copy" => imPc = "copy" /\ imWork' = imWork
  PROVE  ImSafe'
  <1>0. imUid \in Nat /\ imUid >= 1
    BY ImNumbers DEF ImOpen, ImFields
  <1>1. /\ ImNamed(imBox', imView, imUid')
        /\ \A written : 0 \notin written /\ ImKept(imBox, imGone, written) => ImKept(imBox', imGone', written)
        /\ \A t : ImSpared(imBox, imView, imGone, t) => ImSpared(imBox', imView, imGone', t)
    <2>1. ImNamed(imBox, imView, imUid)
      BY DEF ImSafe
    <2> HIDE DEF ImEntries, Blank
    <2> QED
      BY <1>0, <2>1, ImKeeps
  <1>2. 0 \notin imWritten /\ ImKept(imBox, imGone, imWritten) /\ imView \in Seq(ImEntries)
    BY DEF ImSafe, ImData
  <1>3. ImKept(imBox', imGone', imWritten') /\ 0 \notin imWritten'
    <2>1. ImKept(imBox', imGone', imWritten)
      BY <1>1, <1>2
    <2> QED
      BY <1>2, <2>1 DEF ImKept
  <1>4. ImData'
    BY <1>2, <1>3 DEF ImData
  <1>5. imPc' = "copy" => ImMoving(imBox', imView, imGone', imWork'.copy, imWork'.remove)
    BY <1>1, ImMovingKept DEF ImSafe
  <1> QED
    BY <1>1, <1>3, <1>4, <1>5 DEF ImSafe

\* A message is written under the next UID, the mailbox made again when it had gone.
LEMMA ImWritesOne ==
  ASSUME ImOpen, ImSafe, NEW b \in ImBoxes, NEW text \in Nat
  PROVE  /\ [uid |-> imUid, text |-> text] \in ImEntries
         /\ [uid |-> imUid, text |-> text].uid = imUid
         /\ [uid |-> imUid, text |-> text].text = text
         /\ Written(b, text) \in [ImBoxes -> Seq(ImEntries)]
         /\ [uid |-> imUid, text |-> text] \in Held(Written(b, text))
         /\ \A e \in Held(Written(b, text)) : e \in Held(imBox) \/ e = [uid |-> imUid, text |-> text]
         /\ \A e \in Held(imBox) : e \in Held(Written(b, text)) \/ e.text = 0
  <1> DEFINE fresh == [uid |-> imUid, text |-> text]
             old == IF imBox[b] = Missing THEN <<>> ELSE imBox[b]
             new == Append(old, fresh)
  <1>0. imUid \in Nat
    BY ImNumbers DEF ImOpen, ImFields
  <1>1. fresh \in ImEntries /\ fresh.uid = imUid /\ fresh.text = text
    BY <1>0 DEF ImEntries
  <1>2. imBox \in [ImBoxes -> Seq(ImEntries)]
    BY DEF ImSafe, ImData
  <1>3. Written(b, text) = [imBox EXCEPT ![b] = new]
    BY DEF Written
  <1> HIDE DEF fresh, ImEntries, Missing, Blank
  <1>4. old \in Seq(ImEntries)
    BY <1>2
  <1>5. \A e \in Range(imBox[b]) : e \in Range(old) \/ e = Blank
    BY MissingIs
  <1>6. \A e \in Range(old) : e \in Range(imBox[b])
    BY RangeAt
  <1> HIDE DEF old
  <1>7. /\ new \in Seq(ImEntries) /\ fresh \in Range(new)
        /\ \A e \in Range(new) : e \in Range(old) \/ e = fresh
        /\ \A e \in Range(old) : e \in Range(new)
    <2>0. new \in Seq(ImEntries) /\ Len(new) = Len(old) + 1 /\ Len(old) \in Nat
      BY <1>1, <1>4, AppendProperties, LenProperties
    <2>1. DOMAIN old = 1 .. Len(old) /\ DOMAIN new = 1 .. Len(old) + 1
      BY <1>4, <2>0, LenProperties
    <2>2. new[Len(old) + 1] = fresh /\ \A i \in 1 .. Len(old) : new[i] = old[i]
      BY <1>1, <1>4, AppendProperties
    <2> HIDE DEF new
    <2>3. fresh \in Range(new)
      BY <2>0, <2>1, <2>2, RangeAt
    <2>4. \A e \in Range(new) : e \in Range(old) \/ e = fresh
      <3> SUFFICES ASSUME NEW i \in DOMAIN new PROVE new[i] \in Range(old) \/ new[i] = fresh
        BY RangeAt
      <3>1. i = Len(old) + 1 \/ i \in 1 .. Len(old)
        BY <2>0, <2>1
      <3> QED
        BY <2>1, <2>2, <3>1, RangeAt
    <2>5. \A e \in Range(old) : e \in Range(new)
      <3> SUFFICES ASSUME NEW i \in DOMAIN old PROVE old[i] \in Range(new)
        BY RangeAt
      <3>1. i \in DOMAIN new /\ new[i] = old[i]
        BY <2>0, <2>1, <2>2
      <3> QED
        BY <3>1, RangeAt
    <2> QED
      BY <2>0, <2>3, <2>4, <2>5
  <1> HIDE DEF new
  <1>8. /\ Written(b, text) \in [ImBoxes -> Seq(ImEntries)]
        /\ \A e \in Held(Written(b, text)) : e \in Held(imBox) \/ e \in Range(new)
        /\ \A e \in Held(imBox) : e \in Held(Written(b, text)) \/ e \in Range(imBox[b])
        /\ \A e \in Range(new) : e \in Held(Written(b, text))
        /\ \A e \in Range(imBox[b]) : e \in Held(imBox)
    BY <1>2, <1>3, <1>7, HeldOne
  <1>9. \A e \in Held(imBox) : e \in Held(Written(b, text)) \/ e.text = 0
    BY <1>5, <1>7, <1>8, MissingIs
  <1>10. \A e \in Held(Written(b, text)) : e \in Held(imBox) \/ e = fresh
    BY <1>6, <1>7, <1>8
  <1>11. fresh \in Held(Written(b, text))
    BY <1>7, <1>8
  <1> QED
    BY <1>1, <1>8, <1>9, <1>10, <1>11 DEF fresh

LEMMA ImFresh ==
  ASSUME ImOpen, ImSafe, NEW b \in ImBoxes, NEW text \in Nat,
         imBox' = Written(b, text), imUid' = imUid + 1, imGone' = imGone
  PROVE  /\ ImChange(imBox, imBox', imUid, imUid', imGone, imGone', [uid |-> imUid, text |-> text])
         /\ imBox' \in [ImBoxes -> Seq(ImEntries)]
  <1>0. imUid \in Nat /\ imUid' \in Nat /\ imUid' >= imUid
    BY ImNumbers DEF ImOpen, ImFields
  <1> DEFINE fresh == [uid |-> imUid, text |-> text]
  <1>1. /\ fresh \in ImEntries /\ fresh.uid = imUid
        /\ imBox' \in [ImBoxes -> Seq(ImEntries)]
        /\ \A e \in Held(imBox') : e \in Held(imBox) \/ e = fresh
        /\ \A e \in Held(imBox) : e \in Held(imBox') \/ e.text = 0
    BY ImWritesOne
  <1> HIDE DEF fresh, ImEntries
  <1>2. ImChange(imBox, imBox', imUid, imUid', imGone, imGone', fresh)
    BY <1>0, <1>1 DEF ImChange
  <1> QED
    BY <1>1, <1>2 DEF fresh

\* A mailbox is given other messages, each of them held before or blank, and what it loses is gone.
LEMMA ImSafeBox ==
  ASSUME ImOpen, ImSafe, NEW b \in ImBoxes, NEW s \in Seq(ImEntries),
         imBox' = [imBox EXCEPT ![b] = s], UNCHANGED <<imUid, imView, imWritten, imWork>>,
         \A t \in imGone : t \in imGone',
         \A e \in Range(s) : e \in Held(imBox) \/ e = Blank,
         \A e \in Range(imBox[b]) : e \in Held(imBox') \/ e.text \in imGone' \/ e.text = 0,
         imPc' \in {"copy", "literal"} => imPc' = imPc
  PROVE  ImSafe'
  <1>0. imUid \in Nat /\ imUid' \in Nat /\ imUid' >= imUid
    BY ImNumbers DEF ImOpen, ImFields
  <1>1. imBox \in [ImBoxes -> Seq(ImEntries)] /\ imWork \in ImWorks
        /\ (imPc \in {"copy", "literal"} => imWork.target \in ImBoxes)
    BY DEF ImSafe, ImData
  <1> DEFINE fresh == [uid |-> imUid, text |-> 0]
  <1>2. fresh \in ImEntries /\ fresh.uid = imUid
    BY <1>0 DEF ImEntries
  <1> HIDE DEF fresh, ImEntries, ImWorks, Blank
  <1>3. /\ imBox' \in [ImBoxes -> Seq(ImEntries)]
        /\ \A e \in Held(imBox') : e \in Held(imBox) \/ e \in Range(s)
        /\ \A e \in Held(imBox) : e \in Held(imBox') \/ e \in Range(imBox[b])
    BY <1>1, HeldOne
  <1>4. ImChange(imBox, imBox', imUid, imUid', imGone, imGone', fresh)
    BY <1>0, <1>2, <1>3 DEF ImChange
  <1>5. imWork' \in ImWorks /\ (imPc' \in {"copy", "literal"} => imWork'.target \in ImBoxes)
    BY <1>1
  <1> QED
    BY <1>3, <1>4, <1>5, ImSafeDisk

\* The fields of the work in hand.
LEMMA ImWorkIs ==
  ASSUME NEW w \in ImWorks
  PROVE  /\ w.target \in ImBoxes \cup {NoBox} /\ w.copy \in Seq(Nat) /\ w.remove \in Seq(Nat)
         /\ \A c : [w EXCEPT !.copy = c].copy = c /\ [w EXCEPT !.copy = c].remove = w.remove
                   /\ [w EXCEPT !.copy = c].target = w.target
         /\ \A r : [w EXCEPT !.remove = r].remove = r /\ [w EXCEPT !.remove = r].copy = w.copy
                   /\ [w EXCEPT !.remove = r].target = w.target
         /\ \A c \in Seq(Nat) : [w EXCEPT !.copy = c] \in ImWorks
         /\ \A r \in Seq(Nat) : [w EXCEPT !.remove = r] \in ImWorks
  BY DEF ImWorks

LEMMA NoWorkIs == NoWork \in ImWorks /\ \A b \in ImBoxes : [NoWork EXCEPT !.target = b] \in ImWorks
                                                           /\ [NoWork EXCEPT !.target = b].target = b
  <1>1. <<>> \in Seq(Nat)
    OBVIOUS
  <1>2. NoWork \in ImWorks
    BY <1>1 DEF ImWorks, NoWork
  <1>3. ASSUME NEW b \in ImBoxes
        PROVE  [NoWork EXCEPT !.target = b] \in ImWorks /\ [NoWork EXCEPT !.target = b].target = b
    BY <1>2 DEF ImWorks
  <1> QED
    BY <1>2, <1>3

\* COPY and MOVE begin with everything still to copy.
LEMMA ImSafeCopy ==
  ASSUME ImOpen, ImSafe, NEW positions \in SUBSET DOMAIN imView, NEW dollar \in BOOLEAN, NEW uid \in BOOLEAN,
         NEW move \in BOOLEAN, NEW b \in ImBoxes, Copy(positions, dollar, uid, b, move)
  PROVE  ImSafe'
  <1>1. UNCHANGED <<imBox, imView, imUid, imGone, imWritten>> /\ imPc' = "copy"
    BY ImAnswers DEF Copy, imSelection, imDisk
  <1>2. PICK order \in Ascending(positions) :
           imWork' = [target |-> b, copy |-> order, remove |-> IF move THEN order ELSE <<>>]
    BY DEF Copy
  <1>v. Len(imView) \in Nat /\ DOMAIN imView = 1 .. Len(imView)
    <2>1. imView \in Seq(ImEntries)
      BY DEF ImSafe, ImData
    <2> QED
      BY <2>1, LenProperties
  <1>3. IsFiniteSet(positions) /\ Cardinality(positions) \in Nat
    <2>1. IsFiniteSet(1 .. Len(imView))
      BY <1>v, FS_Interval
    <2> QED
      BY <1>v, <2>1, FS_Subset, FS_CardinalityType
  <1>4. order \in [1 .. Cardinality(positions) -> positions] /\ \A i, j \in DOMAIN order : i < j => order[i] < order[j]
    BY <1>2 DEF Ascending
  <1>5. order \in Seq(Nat) /\ DOMAIN order = 1 .. Len(order) /\ Len(order) \in Nat
    <2>1. order \in [1 .. Cardinality(positions) -> Nat]
      <3>1. \A p \in positions : p \in Nat
        BY <1>v
      <3> QED
        BY <1>4, <3>1
    <2>2. order \in Seq(Nat)
      BY <1>3, <2>1, SeqDef
    <2> QED
      BY <2>2, LenProperties
  <1>6. \A i \in DOMAIN order : order[i] \in DOMAIN imView
    BY <1>4 DEF Copy
  <1>7. imWork' \in ImWorks /\ imWork'.target = b /\ imWork'.copy = order
        /\ imWork'.remove = IF move THEN order ELSE <<>>
    <2>1. <<>> \in Seq(Nat)
      OBVIOUS
    <2> QED
      BY <1>2, <1>5, <2>1 DEF ImWorks
  <1>8. ImMoving(imBox, imView, imGone, order, imWork'.remove)
    <2>1. CASE move
      <3>1. imWork'.remove = order
        BY <1>7, <2>1
      <3>2. ImMoving(imBox, imView, imGone, order, order)
        BY <1>4, <1>5, <1>6 DEF ImMoving
      <3> QED
        BY <3>1, <3>2
    <2>2. CASE ~move
      BY <1>7, <2>2 DEF ImMoving
    <2> QED
      BY <2>1, <2>2
  <1> QED
    BY <1>1, <1>7, <1>8 DEF ImSafe, ImData

\* One message is copied: it can be spared from now on.
LEMMA ImSafeCopyOne ==
  ASSUME ImOpen, ImSafe, CopyOne PROVE ImSafe'
  <1> DEFINE entry == imView[Head(imWork.copy)]
             fresh == [uid |-> imUid, text |-> entry.text]
             copy == imWork.copy
             remove == imWork.remove
  <1>0. /\ imUid \in Nat /\ imUid >= 1 /\ imSel.box \in ImBoxes
    BY ImNumbers DEF CopyOne, ImOpen, ImFields, ImStanding
  <1>1. /\ imPc = "copy" /\ copy # <<>> /\ entry \in Range(imBox[imSel.box])
        /\ imBox' = Written(imWork.target, entry.text) /\ imUid' = imUid + 1 /\ imGone' = imGone
        /\ imWork' = [imWork EXCEPT !.copy = Tail(@)]
        /\ UNCHANGED <<imPc, imWritten, imView>>
    BY DEF CopyOne, imSelection
  <1>2. /\ imWork \in ImWorks /\ imWork.target \in ImBoxes /\ imView \in Seq(ImEntries)
        /\ imBox \in [ImBoxes -> Seq(ImEntries)]
        /\ 0 \notin imWritten /\ ImNamed(imBox, imView, imUid) /\ ImKept(imBox, imGone, imWritten)
        /\ ImMoving(imBox, imView, imGone, copy, remove)
    BY <1>1 DEF ImSafe, ImData
  <1>3. copy \in Seq(Nat) /\ remove \in Seq(Nat)
    BY <1>2, ImWorkIs
  <1>4. entry \in ImEntries /\ entry.text \in Nat
    <2>1. entry \in Held(imBox)
      BY <1>0, <1>1, HeldWhere
    <2> QED
      BY <1>2, <2>1 DEF ImNamed, ImEntries
  <1>5. ImChange(imBox, imBox', imUid, imUid', imGone, imGone', fresh)
    BY <1>1, <1>2, <1>4, ImFresh
  <1>6. /\ fresh \in Held(imBox') /\ fresh.uid = imUid /\ fresh.text = entry.text
        /\ imBox' \in [ImBoxes -> Seq(ImEntries)]
    BY <1>1, <1>2, <1>4, ImWritesOne
  <1> HIDE DEF entry, fresh, copy, remove, ImEntries, ImWorks
  <1>7. /\ ImNamed(imBox', imView, imUid')
        /\ ImKept(imBox', imGone', imWritten)
        /\ \A t : ImSpared(imBox, imView, imGone, t) => ImSpared(imBox', imView, imGone', t)
    BY <1>0, <1>2, <1>5, ImKeeps
  <1>8. imUid \notin Uids(imView)
    <2> SUFFICES ASSUME NEW i \in DOMAIN imView, imView[i].uid = imUid PROVE FALSE
      BY Zenon DEF Uids
    <2>1. imView[i] \in Range(imView)
      BY RangeAt
    <2> QED
      BY <1>0, <1>2, <2>1 DEF ImNamed
  <1>9. ImSpared(imBox', imView, imGone', entry.text)
    BY <1>6, <1>8, Zenon DEF ImSpared
  <1>10. /\ Len(copy) \in Nat /\ Len(copy) > 0 /\ DOMAIN copy = 1 .. Len(copy)
         /\ Tail(copy) \in Seq(Nat) /\ Len(Tail(copy)) = Len(copy) - 1
         /\ DOMAIN Tail(copy) = 1 .. Len(copy) - 1
         /\ \A i \in 1 .. Len(copy) - 1 : Tail(copy)[i] = copy[i + 1]
         /\ Head(copy) = copy[1]
         /\ Len(remove) \in Nat
    BY <1>1, <1>3
  <1>11. ImMoving(imBox', imView, imGone', Tail(copy), remove)
    <2> SUFFICES ASSUME remove # <<>>
                 PROVE  ImMoving(imBox', imView, imGone', Tail(copy), remove)
      BY DEF ImMoving
    <2>1. /\ Len(copy) <= Len(remove)
          /\ \A i \in DOMAIN remove : remove[i] \in DOMAIN imView
          /\ \A i, j \in DOMAIN remove : i < j => remove[i] < remove[j]
          /\ \A i \in DOMAIN copy : copy[i] = remove[Len(remove) - Len(copy) + i]
          /\ \A i \in 1 .. Len(remove) - Len(copy) : ImSpared(imBox, imView, imGone, imView[remove[i]].text)
      BY <1>2 DEF ImMoving
    <2>2. Len(Tail(copy)) <= Len(remove)
      BY <1>10, <2>1
    <2>3. \A i \in DOMAIN Tail(copy) : Tail(copy)[i] = remove[Len(remove) - Len(Tail(copy)) + i]
      <3> SUFFICES ASSUME NEW i \in 1 .. Len(copy) - 1
                   PROVE  Tail(copy)[i] = remove[Len(remove) - Len(Tail(copy)) + i]
        BY <1>10
      <3>1. i + 1 \in DOMAIN copy /\ Tail(copy)[i] = copy[i + 1]
        BY <1>10
      <3>2. Len(remove) - Len(copy) + (i + 1) = Len(remove) - Len(Tail(copy)) + i
        BY <1>10
      <3> QED
        BY <2>1, <3>1, <3>2
    <2>4. \A i \in 1 .. Len(remove) - Len(Tail(copy)) :
             ImSpared(imBox', imView, imGone', imView[remove[i]].text)
      <3> SUFFICES ASSUME NEW i \in 1 .. Len(remove) - Len(Tail(copy))
                   PROVE  ImSpared(imBox', imView, imGone', imView[remove[i]].text)
        OBVIOUS
      <3>1. CASE i \in 1 .. Len(remove) - Len(copy)
        BY <1>7, <2>1, <3>1
      <3>2. CASE i = Len(remove) - Len(copy) + 1
        <4>1. copy[1] = remove[i]
          BY <1>10, <2>1, <3>2
        <4>2. imView[remove[i]] = entry
          BY <1>10, <4>1 DEF entry, copy
        <4> QED
          BY <1>9, <4>2
      <3>3. i \in Int /\ 1 <= i /\ i <= Len(remove) - Len(copy) + 1
        BY <1>10
      <3>4. i \in 1 .. Len(remove) - Len(copy) \/ i = Len(remove) - Len(copy) + 1
        BY <1>10, <3>3
      <3> QED
        BY <3>1, <3>2, <3>4, Zenon
    <2> QED
      BY <2>1, <2>2, <2>3, <2>4 DEF ImMoving
  <1>12. imWork' \in ImWorks /\ imWork'.copy = Tail(copy) /\ imWork'.remove = remove
         /\ imWork'.target \in ImBoxes
    BY <1>1, <1>2, <1>10, ImWorkIs DEF copy, remove
  <1> QED
    BY <1>1, <1>2, <1>6, <1>7, <1>11, <1>12 DEF ImSafe, ImData

\* A message is removed from the view and, perhaps, from its mailbox: it was copied before.
LEMMA ImSafeRemoveOne ==
  ASSUME ImOpen, ImSafe, NEW ok \in BOOLEAN, RemoveOne(ok) PROVE ImSafe'
  <1> DEFINE remove == imWork.remove
             at == Head(imWork.remove)
             uid == imView[at].uid
             left == [i \in 1 .. Len(remove) - 1 |-> remove[i + 1] - 1]
             view1 == Without(imView, at)
  <1>0. imSel.box \in ImBoxes /\ imUid \in Nat
    BY ImNumbers DEF RemoveOne, ImOpen, ImFields, ImStanding
  <1>1. /\ imPc = "copy" /\ imWork.copy = <<>> /\ remove # <<>>
        /\ imView' = view1
        /\ imBox' = imBox \/ imBox' = [imBox EXCEPT ![imSel.box] = WithoutUid(imBox[imSel.box], uid)]
        /\ imWork' = [imWork EXCEPT !.remove = left]
        /\ UNCHANGED <<imPc, imUid, imWritten, imGone>>
    BY DEF RemoveOne
  <1>2. /\ imWork \in ImWorks /\ imWork.target \in ImBoxes /\ imView \in Seq(ImEntries)
        /\ imBox \in [ImBoxes -> Seq(ImEntries)]
        /\ 0 \notin imWritten /\ ImNamed(imBox, imView, imUid) /\ ImKept(imBox, imGone, imWritten)
        /\ ImMoving(imBox, imView, imGone, imWork.copy, remove)
    BY <1>1 DEF ImSafe, ImData
  <1>3. remove \in Seq(Nat)
    BY <1>2, ImWorkIs
  <1> HIDE DEF remove, uid, left, view1, ImEntries, ImWorks
  <1>4. /\ \A i \in DOMAIN remove : remove[i] \in DOMAIN imView
        /\ \A i, j \in DOMAIN remove : i < j => remove[i] < remove[j]
        /\ \A i \in 1 .. Len(remove) : ImSpared(imBox, imView, imGone, imView[remove[i]].text)
    BY <1>1, <1>2, <1>3 DEF ImMoving
  <1>5. /\ Len(remove) \in Nat /\ Len(remove) > 0 /\ DOMAIN remove = 1 .. Len(remove)
        /\ at = remove[1] /\ \A i \in 1 .. Len(remove) : remove[i] \in Nat
    BY <1>1, <1>3 DEF remove
  <1> HIDE DEF at
  <1>6. at \in DOMAIN imView /\ ImSpared(imBox, imView, imGone, imView[at].text)
    BY <1>4, <1>5
  <1>7. /\ view1 \in Seq(ImEntries) /\ DOMAIN view1 = 1 .. Len(imView) - 1
        /\ \A e \in Range(view1) : e \in Range(imView)
        /\ \A i \in DOMAIN imView : i > at => view1[i - 1] = imView[i]
    BY <1>2, <1>6, WithoutIs DEF view1
  \* what is held: nothing new, and only the UID removed may be missing
  <1>8. /\ imBox' \in [ImBoxes -> Seq(ImEntries)]
        /\ \A e \in Held(imBox') : e \in Held(imBox)
        /\ \A e \in Held(imBox) : e \in Held(imBox') \/ e.uid = uid
    <2>1. CASE imBox' = imBox
      BY <1>2, <2>1
    <2>2. CASE imBox' = [imBox EXCEPT ![imSel.box] = WithoutUid(imBox[imSel.box], uid)]
      <3> DEFINE s == WithoutUid(imBox[imSel.box], uid)
      <3>1. imBox[imSel.box] \in Seq(ImEntries)
        BY <1>0, <1>2
      <3>2. /\ s \in Seq(ImEntries) /\ \A e \in Range(s) : e \in Range(imBox[imSel.box])
            /\ \A e \in Range(imBox[imSel.box]) : e \in Range(s) \/ e.uid = uid
        BY <3>1, WithoutUidIs
      <3> HIDE DEF s
      <3>3. imBox' = [imBox EXCEPT ![imSel.box] = s]
        BY <2>2 DEF s
      <3>4. /\ imBox' \in [ImBoxes -> Seq(ImEntries)]
            /\ \A e \in Held(imBox') : e \in Held(imBox) \/ e \in Range(s)
            /\ \A e \in Held(imBox) : e \in Held(imBox') \/ e \in Range(imBox[imSel.box])
            /\ \A e \in Range(s) : e \in Held(imBox')
            /\ \A e \in Range(imBox[imSel.box]) : e \in Held(imBox)
        BY <1>0, <1>2, <3>2, <3>3, HeldOne
      <3> QED
        BY <3>2, <3>4
    <2> QED
      BY <1>1, <2>1, <2>2
  <1>9. uid \in Uids(imView) /\ \A u \in Uids(view1) : u \in Uids(imView)
    <2>1. uid \in Uids(imView)
      BY <1>6, Zenon DEF Uids, uid
    <2>2. ASSUME NEW i \in DOMAIN view1 PROVE view1[i].uid \in Uids(imView)
      <3>1. view1[i] \in Range(imView)
        BY <1>7, RangeAt
      <3> QED
        BY <3>1, RangeAt, Zenon DEF Uids
    <2> QED
      BY <2>1, <2>2, Zenon DEF Uids
  <1>10. ASSUME NEW t, ImSpared(imBox, imView, imGone, t) PROVE ImSpared(imBox', view1, imGone, t)
    <2>1. CASE t \in imGone \cup {0}
      BY <2>1 DEF ImSpared
    <2>2. CASE t \notin imGone \cup {0}
      <3>1. PICK e \in Held(imBox) : e.text = t /\ e.uid \notin Uids(imView)
        BY <1>10, <2>2, Zenon DEF ImSpared
      <3>2. e \in Held(imBox') /\ e.uid \notin Uids(view1)
        BY <1>8, <1>9, <3>1
      <3> QED
        BY <3>1, <3>2, Zenon DEF ImSpared
    <2> QED
      BY <2>1, <2>2
  <1>11. ImKept(imBox', imGone, imWritten)
    <2> SUFFICES ASSUME NEW t \in imWritten, t \notin imGone PROVE \E e \in Held(imBox') : e.text = t
      BY DEF ImKept
    <2>1. PICK e \in Held(imBox) : e.text = t
      BY <1>2 DEF ImKept
    <2>2. CASE e \in Held(imBox')
      BY <2>1, <2>2
    <2>3. CASE e \notin Held(imBox')
      <3>1. e.uid = imView[at].uid /\ imView[at] \in Range(imView)
        BY <1>6, <1>8, <2>3, RangeAt DEF uid
      <3>2. t = imView[at].text
        BY <1>2, <2>1, <3>1 DEF ImNamed
      <3>3. ImSpared(imBox', view1, imGone, t)
        BY <1>6, <1>10, <3>2
      <3> QED
        BY <1>2, <3>3, Zenon DEF ImSpared
    <2> QED
      BY <2>2, <2>3
  <1>12. ImNamed(imBox', view1, imUid)
    BY <1>2, <1>7, <1>8, Zenon DEF ImNamed
  <1>13. left \in Seq(Nat) /\ DOMAIN left = 1 .. Len(remove) - 1 /\ Len(left) = Len(remove) - 1
         /\ \A i \in 1 .. Len(remove) - 1 : left[i] = remove[i + 1] - 1
    <2>1. ASSUME NEW i \in 1 .. Len(remove) - 1 PROVE remove[i + 1] - 1 \in Nat
      <3>1. i + 1 \in DOMAIN remove /\ 1 \in DOMAIN remove /\ 1 < i + 1
        BY <1>5
      <3>2. remove[1] < remove[i + 1]
        BY <1>4, <3>1
      <3> QED
        BY <1>5, <3>1, <3>2
    <2>2. left \in [1 .. Len(remove) - 1 -> Nat] /\ Len(remove) - 1 \in Nat
      BY <1>5, <2>1 DEF left
    <2>3. left \in Seq(Nat)
      BY <2>2, SeqDef
    <2>4. DOMAIN left = 1 .. Len(remove) - 1 /\ Len(left) = Len(remove) - 1
      BY <2>2, <2>3, LenProperties
    <2> QED
      BY <2>3, <2>4 DEF left
  <1>14. ImMoving(imBox', view1, imGone, <<>>, left)
    <2>0. Len(imView) \in Nat /\ DOMAIN imView = 1 .. Len(imView)
      BY <1>2, LenProperties
    <2>1. ASSUME NEW i \in DOMAIN left
          PROVE  left[i] \in DOMAIN view1 /\ ImSpared(imBox', view1, imGone, view1[left[i]].text)
      <3>1. i + 1 \in DOMAIN remove /\ 1 \in DOMAIN remove /\ 1 < i + 1 /\ left[i] = remove[i + 1] - 1
        BY <1>5, <1>13
      <3>2. remove[i + 1] > at /\ remove[i + 1] \in DOMAIN imView /\ at \in DOMAIN imView
        BY <1>4, <1>5, <1>6, <3>1
      <3>3. view1[left[i]] = imView[remove[i + 1]]
        BY <1>7, <3>1, <3>2
      <3>4. left[i] \in DOMAIN view1
        BY <1>7, <2>0, <3>1, <3>2
      <3>5. ImSpared(imBox, imView, imGone, imView[remove[i + 1]].text)
        BY <1>4, <1>5, <3>1
      <3> QED
        BY <1>10, <3>3, <3>4, <3>5
    <2>2. ASSUME NEW i \in DOMAIN left, NEW j \in DOMAIN left, i < j PROVE left[i] < left[j]
      <3>1. i + 1 \in DOMAIN remove /\ j + 1 \in DOMAIN remove /\ i + 1 < j + 1
            /\ left[i] = remove[i + 1] - 1 /\ left[j] = remove[j + 1] - 1
        BY <1>5, <1>13, <2>2
      <3>2. remove[i + 1] < remove[j + 1]
        BY <1>4, <3>1
      <3> QED
        BY <1>5, <3>1, <3>2
    <2>3. /\ Len(<<>>) = 0 /\ DOMAIN <<>> = {} /\ Len(<<>>) <= Len(left)
          /\ 1 .. Len(left) - Len(<<>>) = DOMAIN left
      BY <1>5, <1>13
    <2>4. \A i \in DOMAIN <<>> : <<>>[i] = left[Len(left) - Len(<<>>) + i]
      BY <2>3
    <2> QED
      BY <2>1, <2>2, <2>3, <2>4, Zenon DEF ImMoving
  <1>15. imWork' \in ImWorks /\ imWork'.copy = <<>> /\ imWork'.remove = left /\ imWork'.target \in ImBoxes
    BY <1>1, <1>2, <1>13, ImWorkIs
  <1> QED
    BY <1>1, <1>2, <1>7, <1>8, <1>11, <1>12, <1>14, <1>15 DEF ImSafe, ImData

LEMMA ImSafeOpens == ImInit => ImSafe
  <1> SUFFICES ASSUME ImInit PROVE ImSafe
    OBVIOUS
  <1>1. /\ imBox = [b \in ImBoxes |-> IF b = ImInbox THEN <<>> ELSE Missing]
        /\ imView = <<>> /\ imWork = NoWork /\ imPc = "command" /\ imWritten = {} /\ imUid = 1
    BY Zenon DEF ImInit
  <1> HIDE DEF Missing, ImEntries, Blank, ImWorks
  <1>2. <<>> \in Seq(ImEntries) /\ Range(<<>>) = {}
    BY DEF Range
  <1>3. imBox \in [ImBoxes -> Seq(ImEntries)] /\ \A b \in ImBoxes : imBox[b] \in {<<>>, Missing}
    BY <1>1, <1>2, MissingIs
  <1>4. \A e \in Held(imBox) \cup Range(imView) : e = Blank
    <2>1. ASSUME NEW b \in ImBoxes, NEW e \in Range(imBox[b]) PROVE e = Blank
      BY <1>2, <1>3, <2>1, MissingIs
    <2> QED
      BY <1>1, <1>2, <2>1, HeldWhere
  <1>5. ImNamed(imBox, imView, imUid)
    <2>1. Blank.uid < imUid
      BY <1>1, MissingIs
    <2> QED
      BY <1>4, <2>1, MissingIs, Zenon DEF ImNamed
  <1>6. ImKept(imBox, imGone, imWritten)
    BY <1>1 DEF ImKept
  <1> QED
    BY <1>1, <1>2, <1>3, <1>5, <1>6, NoWorkIs DEF ImSafe, ImData

LEMMA ImSafeStays == ImOpen /\ ImSafe /\ [ImNext]_imVars => ImSafe'
  <1> SUFFICES ASSUME ImOpen, ImSafe, [ImNext]_imVars PROVE ImSafe'
    OBVIOUS
  <1>0. /\ imBox \in [ImBoxes -> Seq(ImEntries)] /\ imView \in Seq(ImEntries) /\ imWork \in ImWorks
        /\ imPc \in {"copy", "literal"} => imWork.target \in ImBoxes
        /\ imUid \in Nat /\ imUid >= 1
    BY ImNumbers DEF ImSafe, ImData, ImOpen, ImFields
  <1> HIDE DEF ImEntries, ImWorks, Blank, Missing, NoWork
  <1>1. ASSUME UNCHANGED <<imBox, imView, imUid, imGone, imWritten, imWork>>, imPc' \notin {"literal", "copy"}
        PROVE  ImSafe'
    BY <1>0, <1>1, ImSafeQuiet
  <1>2. ASSUME BadLine \/ (\E text \in BOOLEAN : Read(text)) PROVE ImSafe'
    <2>1. imPc' \in {"command", "closed"}
      BY <1>2, ImAnswers DEF BadLine, Read
    <2> QED
      BY <1>1, <1>2, <2>1 DEF BadLine, Read, imSelection, imDisk
  <1>3. ASSUME Hangup \/ IdleDone \/ AuthCancel PROVE ImSafe'
    <2>1. imPc' \in {"command", "closed"}
      BY <1>3 DEF Hangup, IdleDone, AuthCancel
    <2> QED
      BY <1>1, <1>3, <2>1 DEF Hangup, IdleDone, AuthCancel, imSelection, imDisk
  <1>4. ASSUME ImStartTls \/ EnableUidOnly \/ (\E on \in BOOLEAN : Notify(on)) PROVE ImSafe'
    <2>1. imPc' = "command"
      BY <1>4, ImAnswers DEF ImStartTls, EnableUidOnly, Notify
    <2> QED
      BY <1>1, <1>4, <2>1 DEF ImStartTls, EnableUidOnly, Notify, imSelection, imDisk
  <1>5. ASSUME NEW ok \in BOOLEAN, LoginCommand(ok) \/ AuthResponse(ok) PROVE ImSafe'
    <2>1. imPc' \in {"command", "sasl", "closed"}
      BY <1>5 DEF LoginCommand, AuthResponse, Accepted, AuthFailure
    <2> QED
      BY <1>1, <1>5, <2>1 DEF LoginCommand, AuthResponse, imSelection, imDisk
  <1>6. ASSUME NEW m, Authenticate(m) PROVE ImSafe'
    <2>1. imPc' = "sasl"
      BY <1>6, ImAnswers DEF Authenticate
    <2> QED
      BY <1>1, <1>6, <2>1 DEF Authenticate, imSelection, imDisk
  <1>7. ASSUME Idle PROVE ImSafe'
    <2>1. imPc' = "idle"
      BY <1>7, ImAnswers DEF Idle
    <2> QED
      BY <1>1, <1>7, <2>1 DEF Idle, imSelection, imDisk
  <1>8. ASSUME NEW hits, NEW uid, SearchSave(hits, uid) PROVE ImSafe'
    <2>1. imPc' = "command"
      BY <1>8, ImAnswers DEF SearchSave
    <2> QED
      BY <1>1, <1>8, <2>1 DEF SearchSave, imSelection, imDisk
  <1>9. ASSUME NEW b \in ImBoxes, AppendBegin(b) PROVE ImSafe'
    <2>1. imPc' = "literal" /\ imWork' = [NoWork EXCEPT !.target = b]
      BY <1>9, ImAnswers DEF AppendBegin
    <2>2. imWork' \in ImWorks /\ imWork'.target = b
      BY <2>1, NoWorkIs
    <2> QED
      BY <1>9, <2>1, <2>2, ImSafeQuiet DEF AppendBegin, imSelection, imDisk
  <1>10. ASSUME CopyFails \/ CopyDone PROVE ImSafe'
    <2>1. imPc' = "command" /\ imWork' = NoWork
      BY <1>10 DEF CopyFails, CopyDone
    <2> QED
      BY <1>10, <2>1, NoWorkIs, ImSafeQuiet DEF CopyFails, CopyDone, imSelection, imDisk
  <1>11. ASSUME NEW b \in ImBoxes, NEW readOnly, Select(b, readOnly) PROVE ImSafe'
    <2>1. imPc' = "command" /\ imView' = imBox[b]
      BY <1>11, ImAnswers DEF Select
    <2>2. imView' \in Seq(ImEntries) /\ \A e \in Range(imView') : e \in Held(imBox)
      BY <1>0, <2>1, HeldWhere
    <2> QED
      BY <1>11, <2>1, <2>2, ImSafeView DEF Select, imDisk
  <1>12. ASSUME CloseMailbox PROVE ImSafe'
    <2>1. imPc' = "command" /\ imView' = <<>>
      BY <1>12, ImAnswers DEF CloseMailbox
    <2>2. imView' \in Seq(ImEntries) /\ \A e \in Range(imView') : e \in Held(imBox)
      BY <2>1, RangeAt
    <2> QED
      BY <1>12, <2>1, <2>2, ImSafeView DEF CloseMailbox, imDisk
  <1>13. ASSUME Poll PROVE ImSafe'
    <2>1. imPc' \in {"idle", "command"} /\ imView' = imBox[imSel.box] /\ imSel.box \in ImBoxes
      BY <1>13 DEF Poll, ImOpen, ImStanding
    <2>2. imView' \in Seq(ImEntries) /\ \A e \in Range(imView') : e \in Held(imBox)
      BY <1>0, <2>1, HeldWhere
    <2> QED
      BY <1>13, <2>1, <2>2, ImSafeView DEF Poll, imDisk
  <1>14. ASSUME NEW ok \in BOOLEAN, LiteralDone(ok) PROVE ImSafe'
    <2>1. /\ imPc = "literal" /\ imPc' = "command" /\ imWork' = NoWork /\ imWork' \in ImWorks
          /\ imView' = imView /\ imGone' = imGone /\ imWork.target \in ImBoxes
      BY <1>0, <1>14, NoWorkIs DEF LiteralDone, imSelection
    <2>2. CASE ok
      <3>1. /\ imBox' = Written(imWork.target, imUid) /\ imUid' = imUid + 1
            /\ imWritten' = imWritten \cup {imUid}
        BY <1>14, <2>2 DEF LiteralDone
      <3> DEFINE fresh == [uid |-> imUid, text |-> imUid]
      <3>2. /\ ImChange(imBox, imBox', imUid, imUid', imGone, imGone', fresh)
            /\ imBox' \in [ImBoxes -> Seq(ImEntries)]
        BY <1>0, <2>1, <3>1, ImFresh
      <3>3. fresh \in Held(imBox') /\ fresh.text = imUid
        BY <1>0, <2>1, <3>1, ImWritesOne
      <3> HIDE DEF fresh
      <3>4. imWritten' = imWritten \cup {fresh.text} /\ fresh.text # 0
        BY <1>0, <3>1, <3>3
      <3> QED
        BY <2>1, <3>2, <3>3, <3>4, ImSafeDisk
    <2>3. CASE ~ok
      BY <1>14, <2>1, <2>3, ImSafeQuiet DEF LiteralDone
    <2> QED
      BY <2>2, <2>3
  <1>15. ASSUME ImDeliver PROVE ImSafe'
    <2>1. /\ imBox' = Written(ImInbox, imUid) /\ imUid' = imUid + 1 /\ imWritten' = imWritten \cup {imUid}
          /\ UNCHANGED <<imPc, imWork, imView, imGone>> /\ ImInbox \in ImBoxes
      BY <1>15 DEF ImDeliver, imSelection, ImBoxes
    <2> DEFINE fresh == [uid |-> imUid, text |-> imUid]
    <2>2. /\ ImChange(imBox, imBox', imUid, imUid', imGone, imGone', fresh)
          /\ imBox' \in [ImBoxes -> Seq(ImEntries)]
      BY <1>0, <2>1, ImFresh
    <2>3. fresh \in Held(imBox') /\ fresh.text = imUid
      BY <1>0, <2>1, ImWritesOne
    <2> HIDE DEF fresh
    <2>4. imWritten' = imWritten \cup {fresh.text} /\ fresh.text # 0
      BY <1>0, <2>1, <2>3
    <2>5. imWork' \in ImWorks /\ (imPc' \in {"copy", "literal"} => imWork'.target \in ImBoxes)
      BY <1>0, <2>1
    <2> QED
      BY <2>1, <2>2, <2>3, <2>4, <2>5, ImSafeDisk
  <1>16. ASSUME NEW b \in ImBoxes, NEW i, OtherExpunge(b, i) PROVE ImSafe'
    <2>1. /\ i \in DOMAIN imBox[b] /\ imBox' = [imBox EXCEPT ![b] = Without(imBox[b], i)]
          /\ imGone' = imGone \cup {imBox[b][i].text}
          /\ UNCHANGED <<imPc, imUid, imView, imWritten, imWork>>
      BY <1>16 DEF OtherExpunge, imSelection
    <2> DEFINE s == Without(imBox[b], i)
    <2>2. /\ s \in Seq(ImEntries) /\ \A e \in Range(s) : e \in Range(imBox[b])
          /\ \A e \in Range(imBox[b]) : e \in Range(s) \/ e = imBox[b][i]
      BY <1>0, <2>1, WithoutIs
    <2>3. imBox' = [imBox EXCEPT ![b] = s]
      BY <2>1
    <2> HIDE DEF s
    <2>4. \A e \in Range(s) : e \in Held(imBox) \/ e = Blank
      BY <2>2, HeldWhere
    <2>5. \A e \in Range(imBox[b]) : e \in Held(imBox') \/ e.text \in imGone' \/ e.text = 0
      <3>1. \A e \in Range(s) : e \in Held(imBox')
        BY <1>0, <2>2, <2>3, HeldOne
      <3> QED
        BY <2>1, <2>2, <3>1
    <2> QED
      BY <2>1, <2>2, <2>3, <2>4, <2>5, ImSafeBox
  <1>17. ASSUME NEW own \in BOOLEAN, MailboxOp(own)
         PROVE  /\ UNCHANGED <<imUid, imView, imWritten, imWork>>
                /\ imPc' \in {"copy", "literal"} => imPc' = imPc
    <2>1. CASE own
      BY <1>17, <2>1, ImAnswers DEF MailboxOp, imSelection
    <2>2. CASE ~own
      BY <1>17, <2>2 DEF MailboxOp, imSelection
    <2> QED
      BY <2>1, <2>2
  <1>18. ASSUME NEW b \in ImFolders, NEW own \in BOOLEAN, Create(b, own) PROVE ImSafe'
    <2>1. /\ b \in ImBoxes /\ imBox[b] = Missing /\ imBox' = [imBox EXCEPT ![b] = <<>>] /\ imGone' = imGone
          /\ MailboxOp(own)
      BY <1>18 DEF Create, Exists, ImBoxes
    <2>2. <<>> \in Seq(ImEntries) /\ \A e \in Range(<<>>) : e \in Held(imBox) \/ e = Blank
      BY RangeAt
    <2>3. \A e \in Range(imBox[b]) : e.text = 0
      BY <2>1, MissingIs
    <2> QED
      BY <1>17, <2>1, <2>2, <2>3, ImSafeBox
  <1>19. ASSUME NEW b \in ImFolders, NEW own \in BOOLEAN, Delete(b, own) PROVE ImSafe'
    <2>1. /\ b \in ImBoxes /\ imBox' = [imBox EXCEPT ![b] = Missing]
          /\ imGone' = imGone \cup Texts(imBox[b]) /\ MailboxOp(own)
      BY <1>19 DEF Delete, ImBoxes
    <2>2. Missing \in Seq(ImEntries) /\ \A e \in Range(Missing) : e \in Held(imBox) \/ e = Blank
      BY MissingIs
    <2>3. \A e \in Range(imBox[b]) : e.text \in imGone' \/ e.text = 0
      BY <2>1, RangeAt DEF Texts
    <2> QED
      BY <1>17, <2>1, <2>2, <2>3, ImSafeBox
  <1>20. ASSUME NEW a \in ImFolders, NEW b \in ImFolders, NEW own \in BOOLEAN, Rename(a, b, own) PROVE ImSafe'
    <2>1. /\ a \in ImBoxes /\ b \in ImBoxes /\ a # b /\ imBox[b] = Missing
          /\ imBox' = [imBox EXCEPT ![b] = imBox[a], ![a] = Missing]
          /\ imGone' = imGone /\ MailboxOp(own)
      BY <1>20 DEF Rename, Exists, ImBoxes
    <2> DEFINE box1 == [imBox EXCEPT ![b] = imBox[a]]
               fresh == [uid |-> imUid, text |-> 0]
    <2>2. imBox' = [box1 EXCEPT ![a] = Missing] /\ box1[a] = imBox[a] /\ imBox'[b] = imBox[a]
      BY <1>0, <2>1
    <2>3. /\ box1 \in [ImBoxes -> Seq(ImEntries)]
          /\ \A e \in Held(box1) : e \in Held(imBox) \/ e \in Range(imBox[a])
          /\ \A e \in Held(imBox) : e \in Held(box1) \/ e \in Range(imBox[b])
          /\ \A e \in Range(imBox[a]) : e \in Held(imBox)
      BY <1>0, <2>1, HeldOne, HeldWhere
    <2> HIDE DEF box1
    <2>4. /\ imBox' \in [ImBoxes -> Seq(ImEntries)]
          /\ \A e \in Held(imBox') : e \in Held(box1) \/ e \in Range(Missing)
          /\ \A e \in Held(box1) : e \in Held(imBox') \/ e \in Range(imBox[a])
      <3> DEFINE box2 == [box1 EXCEPT ![a] = Missing]
      <3>1. Missing \in Seq(ImEntries)
        BY MissingIs
      <3>2. /\ box2 \in [ImBoxes -> Seq(ImEntries)]
            /\ \A e \in Held(box2) : e \in Held(box1) \/ e \in Range(Missing)
            /\ \A e \in Held(box1) : e \in Held(box2) \/ e \in Range(box1[a])
        BY <2>1, <2>3, <3>1, HeldOne
      <3>3. imBox' = box2
        BY <2>2
      <3> HIDE DEF box2
      <3> QED
        BY <2>2, <3>2, <3>3
    <2>5. \A e \in Range(imBox[a]) : e \in Held(imBox')
      BY <2>1, <2>2, HeldWhere
    <2>6. fresh \in ImEntries /\ fresh.uid = imUid
      BY <1>0 DEF ImEntries
    <2> HIDE DEF fresh
    <2>7. \A e \in Held(imBox') : e \in Held(imBox) \/ e = Blank
      BY <2>3, <2>4, MissingIs
    <2>8. \A e \in Held(imBox) : e \in Held(imBox') \/ e.text = 0
      BY <2>1, <2>3, <2>4, <2>5, MissingIs
    <2>9. imUid' = imUid /\ imView' = imView /\ imWritten' = imWritten /\ imWork' = imWork
          /\ (imPc' \in {"copy", "literal"} => imPc' = imPc)
      BY <1>17, <2>1
    <2>10. ImChange(imBox, imBox', imUid, imUid', imGone, imGone', fresh)
      <3>1. imUid' \in Nat /\ imUid' >= imUid /\ \A t \in imGone : t \in imGone'
        BY <1>0, <2>1, <2>9
      <3> QED
        BY <2>6, <2>7, <2>8, <3>1, Zenon DEF ImChange
    <2>11. imWork' \in ImWorks /\ (imPc' \in {"copy", "literal"} => imWork'.target \in ImBoxes)
      BY <1>0, <2>9
    <2> QED
      BY <2>4, <2>9, <2>10, <2>11, ImSafeDisk
  <1>21. ASSUME UNCHANGED imVars PROVE ImSafe'
    BY <1>21 DEF imVars, imSelection, imDisk, ImSafe, ImData
  <1> QED
    BY <1>2, <1>3, <1>4, <1>5, <1>6, <1>7, <1>8, <1>9, <1>10, <1>11, <1>12, <1>13, <1>14, <1>15, <1>16,
       <1>18, <1>19, <1>20, <1>21, ImSafeCopy, ImSafeCopyOne, ImSafeRemoveOne DEF ImNext

----------------------------------------------------------------------------
(* The saved search: what $ stands for.                                    *)

\* Saved UIDs are what the search found; saved numbers still are, in the mailbox that was
\* searched, as long as the numbering is the one the search used.
ImResult ==
    /\ imSaved.uids \in BOOLEAN
    /\ imSaved.uids = TRUE => imSaved.values = imFound.uids
    /\ imSaved.uids = FALSE /\ imRenumbered = FALSE /\ imSel.box = imFound.box
          => \A i \in DOMAIN imView : i \in imSaved.values => imView[i].uid \in imFound.uids
    /\ imPc # "copy" => imAddressed = {}
    /\ imSel.box = imFound.box /\ (imSaved.uids = TRUE \/ imRenumbered = FALSE)
          => imAddressed \subseteq imFound.uids

\* The search and the selection stay; a command in hand goes on, or none is in hand.
LEMMA ImResultQuiet ==
  ASSUME ImResult, UNCHANGED <<imSel, imView, imSaved, imFound, imRenumbered>>,
         \/ imAddressed' = {}
         \/ imAddressed' = imAddressed /\ (imPc' = "copy" \/ imPc # "copy")
  PROVE  ImResult'
  BY DEF ImResult

\* The numbering changes: saved numbers mean nothing any more.
LEMMA ImResultRenumbered ==
  ASSUME ImResult, UNCHANGED <<imSaved, imFound, imAddressed>>, imRenumbered' = TRUE,
         \/ imSel' = imSel /\ imPc' = imPc
         \/ imPc # "copy"
  PROVE  ImResult'
  <1>1. imRenumbered' # FALSE
    BY Zenon
  <1> QED
    BY <1>1 DEF ImResult

LEMMA ImResultOpens == ImInit => ImResult
  <1> SUFFICES ASSUME ImInit PROVE ImResult
    OBVIOUS
  <1>1. imSaved = NoSaved /\ imView = <<>> /\ imPc = "command" /\ imAddressed = {}
    BY Zenon DEF ImInit
  <1>2. imSaved.uids = FALSE
    BY <1>1 DEF NoSaved
  <1>3. imSaved.uids \in BOOLEAN /\ imSaved.uids # TRUE
    BY <1>2, Zenon
  <1>4. DOMAIN imView = {}
    BY <1>1
  <1> QED
    BY <1>1, <1>3, <1>4, Zenon DEF ImResult

LEMMA ImResultStays == ImOpen /\ ImResult /\ [ImNext]_imVars => ImResult'
  <1> SUFFICES ASSUME ImOpen, ImResult, [ImNext]_imVars PROVE ImResult'
    OBVIOUS
  <1>1. ASSUME UNCHANGED <<imSel, imView, imSaved, imFound, imRenumbered, imAddressed>>,
               imPc' = "copy" \/ imPc # "copy"
        PROVE  ImResult'
    BY <1>1, ImResultQuiet
  <1>2. ASSUME NEW answer, NEW text, NEW next, Answer(answer, text, next) PROVE imPc = "command"
    BY <1>2 DEF Answer
  <1>3. ASSUME BadLine \/ (\E text \in BOOLEAN : Read(text)) PROVE ImResult'
    BY <1>1, <1>2, <1>3 DEF BadLine, Read, imSelection, imSearch
  <1>4. ASSUME Hangup \/ IdleDone \/ AuthCancel PROVE ImResult'
    BY <1>1, <1>4 DEF Hangup, IdleDone, AuthCancel, imSelection, imSearch
  <1>5. ASSUME ImStartTls \/ EnableUidOnly \/ Idle \/ (\E on \in BOOLEAN : Notify(on)) PROVE ImResult'
    BY <1>1, <1>2, <1>5 DEF ImStartTls, EnableUidOnly, Idle, Notify, imSelection, imSearch
  <1>6. ASSUME NEW ok \in BOOLEAN, LoginCommand(ok) \/ AuthResponse(ok) PROVE ImResult'
    BY <1>1, <1>6 DEF LoginCommand, AuthResponse, imSelection, imSearch
  <1>7. ASSUME NEW m, Authenticate(m) PROVE ImResult'
    BY <1>1, <1>2, <1>7 DEF Authenticate, imSelection, imSearch
  <1>8. ASSUME NEW b, AppendBegin(b) PROVE ImResult'
    BY <1>1, <1>2, <1>8 DEF AppendBegin, imSelection, imSearch
  <1>9. ASSUME NEW ok, LiteralDone(ok) PROVE ImResult'
    BY <1>1, <1>9 DEF LiteralDone, imSelection, imSearch
  <1>10. ASSUME CopyOne \/ ImDeliver \/ (\E b, i : OtherExpunge(b, i)) PROVE ImResult'
    BY <1>1, <1>10 DEF CopyOne, ImDeliver, OtherExpunge, imSelection, imSearch
  <1>11. ASSUME NEW own \in BOOLEAN, MailboxOp(own) PROVE ImResult'
    <2>1. CASE own
      BY <1>1, <1>2, <1>11, <2>1 DEF MailboxOp, imSelection, imSearch
    <2>2. CASE ~own
      BY <1>1, <1>11, <2>2 DEF MailboxOp, imSelection, imSearch
    <2> QED
      BY <2>1, <2>2
  <1>12. ASSUME CopyFails \/ CopyDone PROVE ImResult'
    BY <1>12, ImResultQuiet DEF CopyFails, CopyDone, imSelection
  <1>13. ASSUME NEW b, NEW readOnly, Select(b, readOnly) PROVE ImResult'
    BY <1>2, <1>13, ImResultRenumbered DEF Select
  <1>14. ASSUME Poll PROVE ImResult'
    BY <1>14, ImResultRenumbered DEF Poll
  <1>15. ASSUME NEW ok, RemoveOne(ok) PROVE ImResult'
    BY <1>15, ImResultRenumbered DEF RemoveOne
  <1>16. ASSUME CloseMailbox PROVE ImResult'
    <2>1. imPc = "command" /\ imView' = <<>> /\ UNCHANGED <<imSaved, imFound, imRenumbered, imAddressed>>
      BY <1>2, <1>16 DEF CloseMailbox, imSearch
    <2> QED
      BY <2>1 DEF ImResult
  <1>17. ASSUME NEW hits, NEW uid \in BOOLEAN, SearchSave(hits, uid) PROVE ImResult'
    <2>1. /\ imSaved' = [uids |-> uid, values |-> {Value(i, uid) : i \in hits}]
          /\ imFound' = [box |-> imSel.box, uids |-> {imView[i].uid : i \in hits}]
          /\ imAddressed' = {} /\ UNCHANGED <<imSel, imView>>
      BY <1>17 DEF SearchSave, imSelection
    <2>2. imSaved'.uids = uid /\ imFound'.uids = {imView[i].uid : i \in hits}
          /\ imSaved'.values = {Value(i, uid) : i \in hits}
      BY <2>1
    <2>3. CASE uid = TRUE
      <3>1. {Value(i, uid) : i \in hits} = {imView[i].uid : i \in hits}
        BY <2>3 DEF Value
      <3> QED
        BY <2>1, <2>2, <2>3, <3>1 DEF ImResult
    <2>4. CASE uid = FALSE
      <3>1. \A i \in imSaved'.values : i \in hits
        BY <2>2, <2>4 DEF Value
      <3>2. \A i \in imSaved'.values : imView[i].uid \in imFound'.uids
        BY <2>2, <3>1
      <3> QED
        BY <2>1, <2>2, <2>4, <3>2 DEF ImResult
    <2> QED
      BY <2>3, <2>4
  <1>18. ASSUME NEW positions, NEW dollar \in BOOLEAN, NEW uid \in BOOLEAN, NEW move \in BOOLEAN, NEW b,
                Copy(positions, dollar, uid, b, move)
         PROVE  ImResult'
    <2>1. imPc' = "copy" /\ UNCHANGED <<imSel, imView, imSaved, imFound, imRenumbered>>
      BY <1>18, ImAnswers DEF Copy, imSelection
    <2>2. CASE ~dollar
      <3>1. imAddressed' = {}
        BY <1>18, <2>2 DEF Copy
      <3> QED
        BY <2>1, <3>1, ImResultQuiet
    <2>3. CASE dollar
      <3>1. /\ imSaved.uids = uid /\ positions = {i \in DOMAIN imView : Value(i, uid) \in imSaved.values}
            /\ imAddressed' = {imView[i].uid : i \in positions}
        BY <1>18, <2>3 DEF Copy, SavedSearchOk, Dollar
      <3>2. ASSUME imSel.box = imFound.box, imSaved.uids = TRUE \/ imRenumbered = FALSE,
                   NEW i \in positions
            PROVE  imView[i].uid \in imFound.uids
        <4>1. CASE uid = TRUE
          <5>1. imView[i].uid \in imSaved.values
            BY <3>1, <3>2, <4>1 DEF Value
          <5> QED
            BY <3>1, <4>1, <5>1 DEF ImResult
        <4>2. CASE uid = FALSE
          <5>1. i \in imSaved.values /\ i \in DOMAIN imView
            BY <3>1, <3>2, <4>2 DEF Value
          <5>2. imRenumbered = FALSE
            BY <3>1, <3>2, <4>2
          <5> QED
            BY <3>1, <3>2, <4>2, <5>1, <5>2 DEF ImResult
        <4> QED
          BY <4>1, <4>2
      <3> QED
        BY <2>1, <3>1, <3>2 DEF ImResult
    <2> QED
      BY <2>2, <2>3
  <1>19. ASSUME UNCHANGED imVars PROVE ImResult'
    BY <1>19 DEF imVars, imSelection, imSearch, ImResult
  <1> QED
    BY <1>3, <1>4, <1>5, <1>6, <1>7, <1>8, <1>9, <1>10, <1>11, <1>12, <1>13, <1>14, <1>15, <1>16, <1>17,
       <1>18, <1>19 DEF ImNext, Create, Delete, Rename

----------------------------------------------------------------------------

LEMMA ImSound == ImOpen /\ ImSafe /\ ImResult => ImapSessionCorrect
  <1> SUFFICES ASSUME ImOpen, ImSafe, ImResult PROVE ImapSessionCorrect
    OBVIOUS
  <1>0. ImFields /\ ImStanding
    BY DEF ImOpen
  <1>1. ImTypeOK
    <2>1. {imTls, imUidOnly, imNotify, imRenumbered, imRaced} \subseteq BOOLEAN
      BY <1>0, Zenon DEF ImFields
    <2>2. (imState = "Selected") = (imSel # NoSel)
      <3>1. NoSel.box \notin ImBoxes
        BY ImNumbers DEF NoSel
      <3>2. CASE imState = "Selected"
        BY <1>0, <3>1, <3>2 DEF ImStanding
      <3>3. CASE imState # "Selected"
        BY <1>0, <3>3 DEF ImStanding
      <3> QED
        BY <3>2, <3>3
    <2>3. imState \in {"NotAuthenticated", "Authenticated", "Selected"}
      BY <1>0 DEF ImStanding
    <2> QED
      BY <1>0, <2>1, <2>2, <2>3, Zenon DEF ImTypeOK, ImFields
  <1>2. RefusalsBounded
    BY <1>0, ImNumbers DEF RefusalsBounded, ImFields, ImStanding
  <1>3. NothingLost
    <2> SUFFICES ASSUME NEW t \in imWritten, t \notin imGone PROVE \E b \in ImBoxes : t \in Texts(imBox[b])
      BY Zenon DEF NothingLost
    <2>1. PICK e \in Held(imBox) : e.text = t
      BY DEF ImSafe, ImKept
    <2>2. PICK b \in ImBoxes : e \in Range(imBox[b])
      BY HeldWhere
    <2>3. PICK i \in DOMAIN imBox[b] : imBox[b][i] = e
      BY <2>2, RangeAt
    <2>4. t # 0
      BY DEF ImSafe, ImData
    <2> QED
      BY <2>1, <2>3, <2>4 DEF Texts
  <1>4. DollarFound
    <2>1. imSaved.uids => imSaved.uids = TRUE
      BY Zenon DEF ImResult
    <2>2. ~imRenumbered => imRenumbered = FALSE
      BY <1>0, Zenon DEF ImFields
    <2>3. imSel.box = imFound.box /\ (imSaved.uids = TRUE \/ imRenumbered = FALSE)
             => imAddressed \subseteq imFound.uids
      BY DEF ImResult
    <2> QED
      BY <2>1, <2>2, <2>3, Zenon DEF DollarFound
  <1> QED
    BY <1>1, <1>2, <1>3, <1>4 DEF ImapSessionCorrect

\* Over every mechanism a connection has at most ImMaxFailures refusals, no MOVE loses a message
\* that nobody expunged or deleted, however it is interrupted, and $ works on nothing the saved
\* search did not find (imap/session: auth_failure, copy, remove_at, saved_search_ok).
THEOREM SessionSound == ImSpec => []ImapSessionCorrect
  <1>1. ImInit => ImOpen /\ ImSafe /\ ImResult
    BY ImOpens, ImSafeOpens, ImResultOpens
  <1>2. ImOpen /\ ImSafe /\ ImResult /\ [ImNext]_imVars => (ImOpen /\ ImSafe /\ ImResult)'
    BY ImStays, ImSafeStays, ImResultStays
  <1> QED
    BY <1>1, <1>2, ImSound, PTL DEF ImSpec
=============================================================================

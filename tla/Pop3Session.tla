---------------------------- MODULE Pop3Session ----------------------------
(***************************************************************************)
(* POP3 access to one INBOX: the session of pop3/session.rs, the loop of   *)
(* pop3/server.rs around it and the backend of pop3/backend.rs, for        *)
(* several connections at once.  A login copies the messages; QUIT removes *)
(* the marked ones, file by file.  Delivery and an IMAP session work on    *)
(* the same directory, and a connection may be lost at any moment.         *)
(*                                                                         *)
(* Octets are "c" (any character), ".", "r" (CR) and "n" (LF): what the    *)
(* dot-stuffing tells apart.                                               *)
(***************************************************************************)
EXTENDS Integers, Sequences, FiniteSets, SequencesExt

CONSTANTS
    PopConns,       \* connections
    PopUids,        \* file stems, numbered in the order of their UUIDv7 names
    PopUndecodable, \* stems whose content the message key does not open
    PopBodies,      \* message contents the framing is checked for
    PopErrorStreak  \* MAX_ERROR_STREAK

\* a stem is used once, and later ones sort behind it; error_streak counts from one
ASSUME PopAssumption ==
    /\ PopUids \subseteq Nat /\ IsFiniteSet(PopUids)
    /\ PopErrorStreak \in Nat \ {0}

VARIABLES
    popFiles,       \* stems of the .eml files of INBOX
    popArrived,     \* stems used so far
    popState,       \* Authorization, Listed, Transaction, Removing, Closed
    popUser,        \* whether USER has been given
    popMsgs,        \* the messages of the session, in order
    popLeft,        \* stems QUIT has still to remove
    popStreak,      \* error_streak
    popAnswer,      \* status of the last response
    \* history
    popWish,        \* stems the client has deleted since its last RSET
    popMarked,      \* stems clients asked to delete with a QUIT
    popElsewhere,   \* stems an IMAP session expunged
    popFailed       \* stems whose removal failed, unnoticed

popVars == <<popFiles, popArrived, popState, popUser, popMsgs, popLeft, popStreak, popAnswer,
             popWish, popMarked, popElsewhere, popFailed>>
popDisk == <<popFiles, popArrived, popMarked, popElsewhere, popFailed>>

PopInit ==
    /\ popFiles = {} /\ popArrived = {}
    /\ popState = [c \in PopConns |-> "Authorization"]
    /\ popUser = [c \in PopConns |-> FALSE]
    /\ popMsgs = [c \in PopConns |-> <<>>]
    /\ popLeft = [c \in PopConns |-> {}]
    /\ popStreak = [c \in PopConns |-> 0]
    /\ popAnswer = [c \in PopConns |-> "OK"]
    /\ popWish = [c \in PopConns |-> {}]
    /\ popMarked = {} /\ popElsewhere = {} /\ popFailed = {}

----------------------------------------------------------------------------
(* Encoding of responses *)

\* mutant: only the first line is looked at
DotStuffOnce(body) == IF body # <<>> /\ body[1] = "." THEN <<".">> \o body ELSE body

\* dot_stuff: a dot at the start of a line is doubled, a bare LF becomes CRLF
DotStuff(body) ==
    LET Push(acc, b) ==
            [out   |-> acc.out \o (IF acc.start /\ b = "." THEN <<".">> ELSE <<>>)
                               \o (IF b = "n" /\ acc.prev # "r" THEN <<"r">> ELSE <<>>)
                               \o <<b>>,
             start |-> b = "n",
             prev  |-> b]
    IN  FoldLeft(Push, [out |-> <<>>, start |-> TRUE, prev |-> "0"], body).out

\* Response::encode for a multi-line response, after its status line
Encode(body) == DotStuff(body) \o <<".", "r", "n">>

\* find_header_end: past the first empty line, CRLF before LF, or the end
FindHeaderEnd(data) ==
    LET Places(w) == {i \in 0..Len(data) - Len(w) : SubSeq(data, i + 1, i + Len(w)) = w}
        crlf == Places(<<"r", "n", "r", "n">>)
        lf == Places(<<"n", "n">>)
    IN  IF crlf # {} THEN Min(crlf) + 4 ELSE IF lf # {} THEN Min(lf) + 2 ELSE Len(data)

\* top_of: the headers and the first lines of the body
TopOf(data, lines) ==
    LET split == FindHeaderEnd(data)
        ends == {i \in split + 1..Len(data) : data[i] = "n" \/ i = Len(data)}
        upTo == {i \in ends : Cardinality({j \in ends : j <= i}) <= lines}
    IN  SubSeq(data, 1, Max({split} \cup upTo))

----------------------------------------------------------------------------
(* The loop around the session: answers and the error streak *)

Reply(c, answer) ==
    /\ popAnswer' = [popAnswer EXCEPT ![c] = answer]
    /\ popStreak' = [popStreak EXCEPT ![c] = IF answer = "ERR" THEN @ + 1 ELSE 0]

\* the connection is dropped at the twentieth error in a row
AfterReply(c, next) ==
    popState' = [popState EXCEPT ![c] = IF popStreak'[c] >= PopErrorStreak THEN "Closed" ELSE next]

\* a line that is not UTF-8, does not parse, or whose command is refused
Refused(c) ==
    /\ popState[c] \in {"Authorization", "Transaction"}
    /\ Reply(c, "ERR") /\ AfterReply(c, popState[c])
    /\ UNCHANGED <<popUser, popMsgs, popLeft, popWish, popDisk>>

\* AUTH without a mechanism and CAPA; STAT, LIST, UIDL, RETR, TOP and NOOP in
\* the transaction state
Query(c) ==
    /\ popState[c] \in {"Authorization", "Transaction"}
    /\ Reply(c, "OK")
    /\ UNCHANGED <<popState, popUser, popMsgs, popLeft, popWish, popDisk>>

User(c) ==
    /\ popState[c] = "Authorization"
    /\ popUser' = [popUser EXCEPT ![c] = TRUE]
    /\ Reply(c, "OK")
    /\ UNCHANGED <<popState, popMsgs, popLeft, popWish, popDisk>>

\* PASS or AUTH PLAIN with a wrong password, or an account that may not use
\* POP3; a failed PASS forgets the user
AuthFailed(c, pass) ==
    /\ popState[c] = "Authorization"
    /\ pass => popUser[c]
    /\ popUser' = [popUser EXCEPT ![c] = @ /\ ~pass]
    /\ Reply(c, "ERR") /\ AfterReply(c, "Authorization")
    /\ UNCHANGED <<popMsgs, popLeft, popWish, popDisk>>

\* the messages of a set of stems, in the order of their names
Listings(stems) ==
    {msgs \in [1..Cardinality(stems) -> [uid : stems, deleted : {FALSE}]] :
        \A i, j \in DOMAIN msgs : i < j => msgs[i].uid < msgs[j].uid}

\* complete_login: the names in the directory are listed and sorted ...
Login(c, pass) ==
    /\ popState[c] = "Authorization"
    /\ pass => popUser[c]
    /\ popState' = [popState EXCEPT ![c] = "Listed"]
    /\ \E msgs \in Listings(popFiles) : popMsgs' = [popMsgs EXCEPT ![c] = msgs]
    /\ UNCHANGED <<popUser, popLeft, popStreak, popAnswer, popWish, popDisk>>

Listed(c) == {popMsgs[c][i].uid : i \in DOMAIN popMsgs[c]}

\* ... and the files are read: one that is gone or does not decode is left out
Load(c) ==
    /\ popState[c] = "Listed"
    /\ \E msgs \in Listings((Listed(c) \cap popFiles) \ PopUndecodable) :
          popMsgs' = [popMsgs EXCEPT ![c] = msgs]
    /\ popState' = [popState EXCEPT ![c] = "Transaction"]
    /\ Reply(c, "OK")
    /\ UNCHANGED <<popUser, popLeft, popWish, popDisk>>

LiveMessage(c, n) == n \in DOMAIN popMsgs[c] /\ ~popMsgs[c][n].deleted

Dele(c, n) ==
    /\ popState[c] = "Transaction"
    /\ LiveMessage(c, n)
    /\ popMsgs' = [popMsgs EXCEPT ![c][n].deleted = TRUE]
    /\ popWish' = [popWish EXCEPT ![c] = @ \cup {popMsgs[c][n].uid}]
    /\ Reply(c, "OK")
    /\ UNCHANGED <<popState, popUser, popLeft, popDisk>>

\* mutant: RSET answers but keeps the marks
UndeletedNot(msgs) == msgs

Undeleted(msgs) == [i \in DOMAIN msgs |-> [msgs[i] EXCEPT !.deleted = FALSE]]

Rset(c) ==
    /\ popState[c] = "Transaction"
    /\ popMsgs' = [popMsgs EXCEPT ![c] = Undeleted(@)]
    /\ popWish' = [popWish EXCEPT ![c] = {}]
    /\ Reply(c, "OK")
    /\ UNCHANGED <<popState, popUser, popLeft, popDisk>>

Marked(c) == {popMsgs[c][i].uid : i \in {j \in DOMAIN popMsgs[c] : popMsgs[c][j].deleted}}

\* mutant: the removal is left to whoever comes next
QuitAtOnce(c) ==
    /\ popState[c] \in {"Authorization", "Transaction"}
    /\ popState' = [popState EXCEPT ![c] = "Closed"]
    /\ popAnswer' = [popAnswer EXCEPT ![c] = "BYE"]
    /\ popMarked' = popMarked \cup popWish[c]
    /\ UNCHANGED <<popUser, popMsgs, popLeft, popStreak, popWish, popFiles, popArrived, popElsewhere, popFailed>>

\* QUIT before the login only closes; after it, the marked messages go
Quit(c) ==
    /\ popState[c] \in {"Authorization", "Transaction"}
    /\ popState' = [popState EXCEPT ![c] = IF popState[c] = "Transaction" THEN "Removing" ELSE "Closed"]
    /\ popLeft' = [popLeft EXCEPT ![c] = Marked(c)]
    /\ popMarked' = popMarked \cup popWish[c]
    /\ UNCHANGED <<popUser, popMsgs, popStreak, popAnswer, popWish, popFiles, popArrived, popElsewhere, popFailed>>

\* Backend::remove, one file at a time; its failures are ignored
RemoveFile(c, u, ok) ==
    /\ popState[c] = "Removing" /\ u \in popLeft[c]
    /\ popLeft' = [popLeft EXCEPT ![c] = @ \ {u}]
    /\ popFiles' = IF ok THEN popFiles \ {u} ELSE popFiles
    /\ popFailed' = IF ok THEN popFailed ELSE popFailed \cup {u}
    /\ UNCHANGED <<popArrived, popState, popUser, popMsgs, popStreak, popAnswer, popWish, popMarked, popElsewhere>>

Bye(c) ==
    /\ popState[c] = "Removing" /\ popLeft[c] = {}
    /\ popState' = [popState EXCEPT ![c] = "Closed"]
    /\ popAnswer' = [popAnswer EXCEPT ![c] = "BYE"]
    /\ UNCHANGED <<popUser, popMsgs, popLeft, popStreak, popWish, popDisk>>

\* the peer goes away, is idle for TIMEOUT, or sends a line that is too long;
\* a crash of the server also ends a removal in the middle
Lost(c) ==
    /\ popState[c] # "Closed"
    /\ popState' = [popState EXCEPT ![c] = "Closed"]
    /\ UNCHANGED <<popUser, popMsgs, popLeft, popStreak, popAnswer, popWish, popDisk>>

\* a message is delivered, or an IMAP session expunges one
PopDeliver(u) ==
    /\ u \in PopUids \ popArrived
    /\ \A v \in popArrived : v < u
    /\ popArrived' = popArrived \cup {u}
    /\ popFiles' = popFiles \cup {u}
    /\ UNCHANGED <<popState, popUser, popMsgs, popLeft, popStreak, popAnswer, popWish, popMarked, popElsewhere,
                   popFailed>>

PopExpunge(u) ==
    /\ u \in popFiles
    /\ popFiles' = popFiles \ {u}
    /\ popElsewhere' = popElsewhere \cup {u}
    /\ UNCHANGED <<popArrived, popState, popUser, popMsgs, popLeft, popStreak, popAnswer, popWish, popMarked,
                   popFailed>>

PopNext ==
    \/ \E c \in PopConns :
          \/ Refused(c) \/ Query(c) \/ User(c) \/ Load(c) \/ Rset(c) \/ Quit(c) \/ Bye(c) \/ Lost(c)
          \/ \E pass \in BOOLEAN : AuthFailed(c, pass) \/ Login(c, pass)
          \/ \E n \in 1..Cardinality(PopUids) : Dele(c, n)
          \/ \E u \in PopUids, ok \in BOOLEAN : RemoveFile(c, u, ok)
    \/ \E u \in PopUids : PopDeliver(u) \/ PopExpunge(u)

PopSpec == PopInit /\ [][PopNext]_popVars

----------------------------------------------------------------------------
(* Properties *)

PopTypeOK ==
    /\ popFiles \subseteq popArrived /\ popArrived \subseteq PopUids
    /\ popState \in [PopConns -> {"Authorization", "Listed", "Transaction", "Removing", "Closed"}]
    /\ popUser \in [PopConns -> BOOLEAN]
    /\ \A c \in PopConns : popMsgs[c] \in Seq([uid : PopUids, deleted : BOOLEAN])
    /\ popLeft \in [PopConns -> SUBSET PopUids]
    /\ popStreak \in [PopConns -> 0..PopErrorStreak]
    /\ popAnswer \in [PopConns -> {"OK", "ERR", "BYE"}]

\* A message leaves the maildrop only because an IMAP session expunged it or a
\* client deleted it, did not take that back with RSET, and said QUIT: a
\* connection that is lost, times out or errs too often removes nothing, and
\* neither does what another connection did to the numbering.
RemovedWereDeleted == popArrived \ popFiles \subseteq popMarked \cup popElsewhere

\* Once QUIT is answered, every message the client deleted is gone, except one
\* whose file could not be removed (the backend ignores that).
QuitCommits ==
    \A c \in PopConns : popAnswer[c] = "BYE" => popWish[c] \cap popFiles \subseteq popFailed

\* A message POP3 removed was deleted by a QUIT of its client, and a QUIT
\* removes all that was deleted (pop3/session.rs, pop3/backend.rs).
Pop3Correct == PopTypeOK /\ RemovedWereDeleted /\ QuitCommits

\* What a client makes of a response: the lines up to a lone dot, unstuffed,
\* and whether it got to see that dot.
ClientReads(octets) ==
    LET Step(acc, b) ==
            IF acc.done THEN acc
            ELSE LET line == Append(acc.line, b) IN
                 IF b # "n" \/ acc.prev # "r" THEN [acc EXCEPT !.line = line, !.prev = b]
                 ELSE IF line = <<".", "r", "n">> THEN [acc EXCEPT !.done = TRUE]
                 ELSE [acc EXCEPT !.out = @ \o (IF line[1] = "." THEN Tail(line) ELSE line),
                                  !.line = <<>>, !.prev = b]
    IN  FoldLeft(Step, [out |-> <<>>, line |-> <<>>, prev |-> "0", done |-> FALSE], octets)

\* A bare LF stands for CRLF.
Normalised(body) ==
    FoldLeft(LAMBDA acc, b : acc \o (IF b = "n" /\ (acc = <<>> \/ Last(acc) # "r") THEN <<"r", "n">>
                                     ELSE <<b>>), <<>>, body)

\* RETR and TOP deliver what is stored: a client that undoes the dot-stuffing
\* sees the end of the response, and before it the message with CRLF line ends.
\* It holds for messages whose last line is terminated; the encoder appends the
\* final dot to an unterminated line, so that the client waits for more.
FramingFaithful ==
    \A body \in PopBodies : \A lines \in 0..2 :
        LET top == TopOf(body, lines)
            read == ClientReads(Encode(top))
        IN  (body = <<>> \/ Last(body) = "n") => read.done /\ read.out = Normalised(top)

============================================================================

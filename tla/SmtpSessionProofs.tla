------------------------- MODULE SmtpSessionProofs -------------------------
(***************************************************************************)
(* Proofs about SmtpSession for any accounts, addresses, mechanisms,       *)
(* listeners and limits: everything the session run checks.                *)
(*                                                                         *)
(* None of the properties is inductive.  What reaches delivery depends on  *)
(* the transaction that was handed over, that one on the phase it was      *)
(* collected in, and the bound on errors on how the loop's streak trails   *)
(* the replies.  SessionInv says what holds of a transaction in progress.  *)
(***************************************************************************)
EXTENDS SmtpSession, FiniteSetTheorems, TLAPS

\* The loop's mode and the session's state move together; a message is
\* screened while the session is between transactions.
Phases ==
    /\ mode = "auth" => state = "greeted"
    /\ mode = "data" => state = "data"
    /\ busy => state = "greeted" /\ mode = "commands"

\* The limits close the connection when they are reached.  The error replies in
\* a row exceed the streak by at most the answer to one message, because the
\* next message is preceded by replies that end the streak.
Counters ==
    /\ open => streak < MaxErrorStreak /\ failures < MaxAuthFailures
    /\ errors <= streak + 1
    /\ state \in {"recipients", "data"} \/ busy => errors <= streak
    /\ ErrorsBounded

\* A transaction in progress is authorised already.
TxnAuthorised == state \in {"recipients", "data"} => Authorised(txn)

\* Below the ceiling every octet was kept.
TxnWhole == txn.size <= MaxMessageSize => txn.body = txn.size

\* DATA is read in data mode, BDAT between commands, after a recipient.
TxnFraming ==
    /\ state = "recipients" => txn.framing = {}
    /\ state = "data" => txn.rcpts # {}
    /\ open /\ mode = "data" => txn.framing = {"data"}
    /\ open /\ mode # "data" /\ state = "data" => txn.framing \subseteq {"bdat"}

\* The message handed over has one framing and recipients.
MsgFraming == busy => msg.framing \in {{"data"}, {"bdat"}} /\ msg.rcpts # {}

SessionInv ==
    /\ TypeOK /\ Phases /\ Counters
    /\ TxnAuthorised /\ AuthorisedDelivery
    /\ NothingFromCleartext /\ MechanismHonoured
    /\ TxnWhole /\ DeliveredWhole
    /\ TxnFraming /\ MsgFraming

\* Steps that leave the transaction and the message alone, whatever they do to
\* the loop: commands without effect, the end of a connection.
Session == RefuseCommand \/ RawCommand \/ Noop \/ Quit

\* Steps that drop the transaction.
Restarts == Greet \/ Rset \/ \E identity \in Accounts \cup {Nobody} : StartTls(identity)

\* Steps of an authentication.
AuthStarts ==
    \E m \in Mechanisms : \/ AuthInitial(m) \/ AuthChallenge(m)
                          \/ \E account \in Accounts : AuthFirstStep(m, account)
AuthLines ==
    \/ AuthCancel \/ ExternalLine \/ LoginLine \/ ScramFinalLine \/ PlainLine
    \/ \E account \in Accounts : ScramFirstLine(account)

\* Steps of a mail transaction.
Chunk == \E n \in 0 .. MaxMessageSize, last \in BOOLEAN : Bdat(n, last)
Transaction ==
    \/ \E path \in Paths, requireTls \in BOOLEAN : MailFrom(path, requireTls)
    \/ \E a \in Addresses : RcptTo(a)
    \/ Data \/ DataEnd
    \/ \E n \in 2 .. MaxMessageSize + 1 : DataLine(n)
    \/ Chunk
    \/ \E accepted \in BOOLEAN : Answer(accepted)

\* Next, in those groups.
LEMMA NextGroups == Next <=> Session \/ Restarts \/ AuthStarts \/ AuthLines \/ Transaction
BY DEF Next, Session, Restarts, AuthStarts, AuthLines, Transaction, Chunk

LEMMA Limits ==
    /\ MaxMessageSize \in Nat /\ MaxRecipients \in Nat
    /\ MaxErrorStreak \in Nat /\ MaxErrorStreak > 0
    /\ MaxAuthFailures \in Nat /\ MaxAuthFailures > 0
BY LimitsAssumption

\* A chunk is refused, collected, or the last of its message.
BdatRefused == Reset /\ ReplyError /\ UNCHANGED <<msg, busy>>
Chunked(n) == [txn EXCEPT !.size = @ + n, !.body = @ + n, !.framing = @ \cup {"bdat"}]
BdatMore(n) == /\ state = "data" /\ txn.size + n <= MaxMessageSize
               /\ txn' = Chunked(n)
               /\ ReplyOk
               /\ UNCHANGED <<state, msg, busy>>
BdatLast(n) == state = "data" /\ txn.size + n <= MaxMessageSize /\ HandOver(Chunked(n))

LEMMA BdatCases ==
    ASSUME TypeOK, Chunk
    PROVE  /\ Reads("commands") /\ UNCHANGED <<tls, helo, authVars>>
           /\ BdatRefused \/ \E n \in 0 .. MaxMessageSize : BdatMore(n) \/ BdatLast(n)
<1>1. PICK n \in 0 .. MaxMessageSize, last \in BOOLEAN : Bdat(n, last)
  BY DEF Chunk
<1>2. (txn.size + n > MaxMessageSize) <=> ~(txn.size + n <= MaxMessageSize)
  BY Limits DEF TypeOK, Txns
<1> QED BY <1>1, <1>2 DEF Bdat, BdatRefused, BdatMore, BdatLast, Chunked

\* A collected chunk adds its octets and its framing, and nothing else.
LEMMA ChunkedFields ==
    ASSUME txn \in Txns, NEW n \in 0 .. MaxMessageSize
    PROVE  /\ Chunked(n) \in Txns
           /\ Chunked(n).size = txn.size + n /\ Chunked(n).body = txn.body + n
           /\ Chunked(n).framing = txn.framing \cup {"bdat"} /\ Chunked(n).rcpts = txn.rcpts
           /\ Chunked(n).from = txn.from /\ Chunked(n).requireTls = txn.requireTls
<1>1. txn.size + n \in Nat /\ txn.body + n \in Nat
  BY Limits DEF Txns
<1>2. txn.framing \cup {"bdat"} \in SUBSET Framings
  BY DEF Txns, Framings
<1>3. Chunked(n) \in Txns
  BY <1>1, <1>2 DEF Txns, Chunked
<1> QED BY <1>3 DEF Txns, Chunked

LEMMA InitInv == Init => SessionInv
<1> SUFFICES ASSUME Init PROVE SessionInv
  OBVIOUS
<1>1. NoTxn \in Txns
  BY DirectoryAssumption DEF NoTxn, Txns, Paths
<1>2. TypeOK
  <2>1. open \in BOOLEAN /\ busy \in BOOLEAN /\ pendingExternal \in BOOLEAN
    BY DEF Init
  <2>2. txn \in Txns /\ msg \in Txns
    BY <1>1 DEF Init
  <2>3. failures \in 0 .. MaxAuthFailures /\ streak \in 0 .. MaxErrorStreak /\ errors \in Nat
    BY Limits DEF Init
  <2> QED BY <2>1, <2>2, <2>3 DEF Init, TypeOK
<1> QED BY <1>2, Limits DEF Init, SessionInv, Phases, Counters, ErrorsBounded, TxnAuthorised,
        AuthorisedDelivery, NothingFromCleartext, MechanismHonoured, TxnWhole, DeliveredWhole,
        TxnFraming, MsgFraming, NoTxn

(***************************************************************************)
(* The phases and the counters.                                            *)
(***************************************************************************)

LEMMA PhasesStep == SessionInv /\ Next => Phases'
<1> SUFFICES ASSUME SessionInv, Next PROVE Phases'
  OBVIOUS
<1> USE DEF SessionInv, TypeOK, Phases, Reads, ReplyOk, ReplyError, Collect, Closes, authVars, vars
<1>1. CASE Session
  BY <1>1 DEF Session, RefuseCommand, RawCommand, Noop, Quit
<1>2. CASE Restarts
  BY <1>2 DEF Restarts, Greet, Rset, Reset, StartTls
<1>3. CASE AuthStarts
  BY <1>3 DEF AuthStarts, AuthAllowed, AuthInitial, AuthChallenge, AuthFirstStep, Verify, AuthFails,
              AuthSucceeds
<1>4. CASE AuthLines
  BY <1>4 DEF AuthLines, AuthCancel, ExternalLine, LoginLine, ScramFinalLine, PlainLine,
              ScramFirstLine, Verify, AuthFails, AuthSucceeds
<1>5. CASE Transaction
  <2>1. ASSUME NEW path \in Paths, NEW requireTls \in BOOLEAN, MailFrom(path, requireTls)
        PROVE Phases'
    BY <2>1 DEF MailFrom
  <2>2. ASSUME NEW a \in Addresses, RcptTo(a) PROVE Phases'
    BY <2>2 DEF RcptTo
  <2>3. CASE Data
    BY <2>3 DEF Data
  <2>4. ASSUME NEW n \in 2 .. MaxMessageSize + 1, DataLine(n) PROVE Phases'
    BY <2>4 DEF DataLine
  <2>5. CASE DataEnd
    <3>1. CASE txn.size > MaxMessageSize
      BY <2>5, <3>1 DEF DataEnd
    <3>2. CASE ~(txn.size > MaxMessageSize)
      BY <2>5, <3>2 DEF DataEnd, HandOver
    <3> QED BY <3>1, <3>2
  <2>6. CASE Chunk
    <3>1. CASE BdatRefused
      BY <2>6, <3>1, BdatCases DEF BdatRefused, Reset
    <3>2. ASSUME NEW n \in 0 .. MaxMessageSize, BdatMore(n) PROVE Phases'
      BY <2>6, <3>2, BdatCases DEF BdatMore
    <3>3. ASSUME NEW n \in 0 .. MaxMessageSize, BdatLast(n) PROVE Phases'
      BY <2>6, <3>3, BdatCases DEF BdatLast, HandOver
    <3> QED BY <2>6, <3>1, <3>2, <3>3, BdatCases
  <2>7. ASSUME NEW accepted \in BOOLEAN, Answer(accepted) PROVE Phases'
    BY <2>7 DEF Answer
  <2> QED BY <1>5, <2>1, <2>2, <2>3, <2>4, <2>5, <2>6, <2>7 DEF Transaction
<1> QED BY <1>1, <1>2, <1>3, <1>4, <1>5, NextGroups

LEMMA CountersStep == SessionInv /\ Next => Counters'
<1> SUFFICES ASSUME SessionInv, Next PROVE Counters'
  OBVIOUS
<1> USE Limits DEF SessionInv, TypeOK, Phases, Counters, ErrorsBounded, Reads, OneMoreError,
        ErrorsSeen, ReplyOk, ReplyError, Collect, Closes, authVars, vars
<1>1. CASE Session
  BY <1>1 DEF Session, RefuseCommand, RawCommand, Noop, Quit
<1>2. CASE Restarts
  BY <1>2 DEF Restarts, Greet, Rset, Reset, StartTls
<1>3. CASE AuthStarts
  BY <1>3 DEF AuthStarts, AuthAllowed, AuthInitial, AuthChallenge, AuthFirstStep, Verify, AuthFails,
              AuthSucceeds
<1>4. CASE AuthLines
  BY <1>4 DEF AuthLines, AuthCancel, ExternalLine, LoginLine, ScramFinalLine, PlainLine,
              ScramFirstLine, Verify, AuthFails, AuthSucceeds
<1>5. CASE Transaction
  <2>1. ASSUME NEW path \in Paths, NEW requireTls \in BOOLEAN, MailFrom(path, requireTls)
        PROVE Counters'
    BY <2>1 DEF MailFrom
  <2>2. ASSUME NEW a \in Addresses, RcptTo(a) PROVE Counters'
    BY <2>2 DEF RcptTo
  <2>3. CASE Data
    BY <2>3 DEF Data
  <2>4. ASSUME NEW n \in 2 .. MaxMessageSize + 1, DataLine(n) PROVE Counters'
    BY <2>4 DEF DataLine
  <2>5. CASE DataEnd
    <3>1. CASE txn.size > MaxMessageSize
      BY <2>5, <3>1 DEF DataEnd
    <3>2. CASE ~(txn.size > MaxMessageSize)
      BY <2>5, <3>2 DEF DataEnd, HandOver
    <3> QED BY <3>1, <3>2
  <2>6. CASE Chunk
    <3>1. CASE BdatRefused
      BY <2>6, <3>1, BdatCases DEF BdatRefused, Reset
    <3>2. ASSUME NEW n \in 0 .. MaxMessageSize, BdatMore(n) PROVE Counters'
      BY <2>6, <3>2, BdatCases DEF BdatMore
    <3>3. ASSUME NEW n \in 0 .. MaxMessageSize, BdatLast(n) PROVE Counters'
      BY <2>6, <3>3, BdatCases DEF BdatLast, HandOver
    <3> QED BY <2>6, <3>1, <3>2, <3>3, BdatCases
  <2>7. ASSUME NEW accepted \in BOOLEAN, Answer(accepted) PROVE Counters'
    BY <2>7 DEF Answer
  <2> QED BY <1>5, <2>1, <2>2, <2>3, <2>4, <2>5, <2>6, <2>7 DEF Transaction
<1> QED BY <1>1, <1>2, <1>3, <1>4, <1>5, NextGroups

(***************************************************************************)
(* Authorisation, framing and size.                                        *)
(***************************************************************************)

LEMMA AuthorisedStep == SessionInv /\ Next => (TxnAuthorised /\ AuthorisedDelivery)'
<1> SUFFICES ASSUME SessionInv, Next PROVE (TxnAuthorised /\ AuthorisedDelivery)'
  OBVIOUS
<1> USE DEF SessionInv, TypeOK, Phases, TxnAuthorised,
        AuthorisedDelivery, Authorised, Reads, ReplyOk, ReplyError, Collect, Closes, authVars, vars
<1>1. CASE Session
  BY <1>1 DEF Session, RefuseCommand, RawCommand, Noop, Quit
<1>2. CASE Restarts
  BY <1>2 DEF Restarts, Greet, Rset, Reset, StartTls, NoTxn
<1>3. CASE AuthStarts
  BY <1>3 DEF AuthStarts, AuthAllowed, AuthInitial, AuthChallenge, AuthFirstStep, Verify, AuthFails,
              AuthSucceeds
<1>4. CASE AuthLines
  BY <1>4 DEF AuthLines, AuthCancel, ExternalLine, LoginLine, ScramFinalLine, PlainLine,
              ScramFirstLine, Verify, AuthFails, AuthSucceeds
<1>5. CASE Transaction
  <2>1. ASSUME NEW path \in Paths, NEW requireTls \in BOOLEAN, MailFrom(path, requireTls)
        PROVE (TxnAuthorised /\ AuthorisedDelivery)'
    BY <2>1 DEF MailFrom, MaySendAs, NoTxn
  <2>2. ASSUME NEW a \in Addresses, RcptTo(a) PROVE (TxnAuthorised /\ AuthorisedDelivery)'
    BY <2>2 DEF RcptTo, Txns
  <2>3. CASE Data
    BY <2>3 DEF Data, Txns
  <2>4. ASSUME NEW n \in 2 .. MaxMessageSize + 1, DataLine(n) PROVE (TxnAuthorised /\ AuthorisedDelivery)'
    BY <2>4 DEF DataLine, Txns
  <2>5. CASE DataEnd
    <3>1. CASE txn.size > MaxMessageSize
      BY <2>5, <3>1 DEF DataEnd
    <3>2. CASE ~(txn.size > MaxMessageSize)
      BY <2>5, <3>2 DEF DataEnd, HandOver
    <3> QED BY <3>1, <3>2
  <2>6. CASE Chunk
    <3>1. CASE BdatRefused
      BY <2>6, <3>1, BdatCases DEF BdatRefused, Reset
    <3>2. ASSUME NEW n \in 0 .. MaxMessageSize, BdatMore(n) PROVE (TxnAuthorised /\ AuthorisedDelivery)'
      BY <2>6, <3>2, BdatCases, ChunkedFields DEF BdatMore, Txns
    <3>3. ASSUME NEW n \in 0 .. MaxMessageSize, BdatLast(n) PROVE (TxnAuthorised /\ AuthorisedDelivery)'
      BY <2>6, <3>3, BdatCases, ChunkedFields DEF BdatLast, HandOver, Txns
    <3> QED BY <2>6, <3>1, <3>2, <3>3, BdatCases
  <2>7. ASSUME NEW accepted \in BOOLEAN, Answer(accepted) PROVE (TxnAuthorised /\ AuthorisedDelivery)'
    BY <2>7 DEF Answer
  <2> QED BY <1>5, <2>1, <2>2, <2>3, <2>4, <2>5, <2>6, <2>7 DEF Transaction
<1> QED BY <1>1, <1>2, <1>3, <1>4, <1>5, NextGroups

LEMMA CleartextStep == SessionInv /\ Next => NothingFromCleartext'
<1> SUFFICES ASSUME SessionInv, Next PROVE NothingFromCleartext'
  OBVIOUS
<1> USE DEF SessionInv, TypeOK, NothingFromCleartext,
        Reads, ReplyOk, ReplyError, Collect, Closes, authVars, vars
<1>1. CASE Session
  BY <1>1 DEF Session, RefuseCommand, RawCommand, Noop, Quit
<1>2. CASE Restarts
  BY <1>2 DEF Restarts, Greet, Rset, Reset, StartTls
<1>3. CASE AuthStarts
  BY <1>3 DEF AuthStarts, AuthAllowed, AuthInitial, AuthChallenge, AuthFirstStep, Verify, AuthFails,
              AuthSucceeds
<1>4. CASE AuthLines
  BY <1>4 DEF AuthLines, AuthCancel, ExternalLine, LoginLine, ScramFinalLine, PlainLine,
              ScramFirstLine, Verify, AuthFails, AuthSucceeds
<1>5. CASE Transaction
  <2>1. ASSUME NEW path \in Paths, NEW requireTls \in BOOLEAN, MailFrom(path, requireTls)
        PROVE NothingFromCleartext'
    BY <2>1 DEF MailFrom
  <2>2. ASSUME NEW a \in Addresses, RcptTo(a) PROVE NothingFromCleartext'
    BY <2>2 DEF RcptTo
  <2>3. CASE Data
    BY <2>3 DEF Data
  <2>4. ASSUME NEW n \in 2 .. MaxMessageSize + 1, DataLine(n) PROVE NothingFromCleartext'
    BY <2>4 DEF DataLine
  <2>5. CASE DataEnd
    <3>1. CASE txn.size > MaxMessageSize
      BY <2>5, <3>1 DEF DataEnd
    <3>2. CASE ~(txn.size > MaxMessageSize)
      BY <2>5, <3>2 DEF DataEnd, HandOver
    <3> QED BY <3>1, <3>2
  <2>6. CASE Chunk
    <3>1. CASE BdatRefused
      BY <2>6, <3>1, BdatCases DEF BdatRefused, Reset
    <3>2. ASSUME NEW n \in 0 .. MaxMessageSize, BdatMore(n) PROVE NothingFromCleartext'
      BY <2>6, <3>2, BdatCases, ChunkedFields DEF BdatMore
    <3>3. ASSUME NEW n \in 0 .. MaxMessageSize, BdatLast(n) PROVE NothingFromCleartext'
      BY <2>6, <3>3, BdatCases, ChunkedFields DEF BdatLast, HandOver
    <3> QED BY <2>6, <3>1, <3>2, <3>3, BdatCases
  <2>7. ASSUME NEW accepted \in BOOLEAN, Answer(accepted) PROVE NothingFromCleartext'
    BY <2>7 DEF Answer
  <2> QED BY <1>5, <2>1, <2>2, <2>3, <2>4, <2>5, <2>6, <2>7 DEF Transaction
<1> QED BY <1>1, <1>2, <1>3, <1>4, <1>5, NextGroups

LEMMA MechanismStep == SessionInv /\ Next => MechanismHonoured'
<1> SUFFICES ASSUME SessionInv, Next PROVE MechanismHonoured'
  OBVIOUS
<1> USE DEF SessionInv, TypeOK, Phases, MechanismHonoured,
        Reads, ReplyOk, ReplyError, Collect, Closes, authVars, vars
<1>1. CASE Session
  BY <1>1 DEF Session, RefuseCommand, RawCommand, Noop, Quit
<1>2. CASE Restarts
  BY <1>2 DEF Restarts, Greet, Rset, Reset, StartTls
<1>3. CASE AuthStarts
  BY <1>3 DEF AuthStarts, AuthAllowed, AuthInitial, AuthChallenge, AuthFirstStep, Verify, AuthFails,
              AuthSucceeds
<1>4. CASE AuthLines
  BY <1>4 DEF AuthLines, AuthCancel, ExternalLine, LoginLine, ScramFinalLine, PlainLine,
              ScramFirstLine, Verify, AuthFails, AuthSucceeds
<1>5. CASE Transaction
  <2>1. ASSUME NEW path \in Paths, NEW requireTls \in BOOLEAN, MailFrom(path, requireTls)
        PROVE MechanismHonoured'
    BY <2>1 DEF MailFrom
  <2>2. ASSUME NEW a \in Addresses, RcptTo(a) PROVE MechanismHonoured'
    BY <2>2 DEF RcptTo
  <2>3. CASE Data
    BY <2>3 DEF Data
  <2>4. ASSUME NEW n \in 2 .. MaxMessageSize + 1, DataLine(n) PROVE MechanismHonoured'
    BY <2>4 DEF DataLine
  <2>5. CASE DataEnd
    <3>1. CASE txn.size > MaxMessageSize
      BY <2>5, <3>1 DEF DataEnd
    <3>2. CASE ~(txn.size > MaxMessageSize)
      BY <2>5, <3>2 DEF DataEnd, HandOver
    <3> QED BY <3>1, <3>2
  <2>6. CASE Chunk
    <3>1. CASE BdatRefused
      BY <2>6, <3>1, BdatCases DEF BdatRefused, Reset
    <3>2. ASSUME NEW n \in 0 .. MaxMessageSize, BdatMore(n) PROVE MechanismHonoured'
      BY <2>6, <3>2, BdatCases, ChunkedFields DEF BdatMore
    <3>3. ASSUME NEW n \in 0 .. MaxMessageSize, BdatLast(n) PROVE MechanismHonoured'
      BY <2>6, <3>3, BdatCases, ChunkedFields DEF BdatLast, HandOver
    <3> QED BY <2>6, <3>1, <3>2, <3>3, BdatCases
  <2>7. ASSUME NEW accepted \in BOOLEAN, Answer(accepted) PROVE MechanismHonoured'
    BY <2>7 DEF Answer
  <2> QED BY <1>5, <2>1, <2>2, <2>3, <2>4, <2>5, <2>6, <2>7 DEF Transaction
<1> QED BY <1>1, <1>2, <1>3, <1>4, <1>5, NextGroups

LEMMA WholeStep == SessionInv /\ Next => (TxnWhole /\ DeliveredWhole)'
<1> SUFFICES ASSUME SessionInv, Next PROVE (TxnWhole /\ DeliveredWhole)'
  OBVIOUS
<1> USE Limits DEF SessionInv, TypeOK, Txns, TxnWhole, DeliveredWhole,
        Reads, ReplyOk, ReplyError, Collect, Closes, authVars, vars
<1>1. CASE Session
  BY <1>1 DEF Session, RefuseCommand, RawCommand, Noop, Quit
<1>2. CASE Restarts
  BY <1>2 DEF Restarts, Greet, Rset, Reset, StartTls, NoTxn
<1>3. CASE AuthStarts
  BY <1>3 DEF AuthStarts, AuthAllowed, AuthInitial, AuthChallenge, AuthFirstStep, Verify, AuthFails,
              AuthSucceeds
<1>4. CASE AuthLines
  BY <1>4 DEF AuthLines, AuthCancel, ExternalLine, LoginLine, ScramFinalLine, PlainLine,
              ScramFirstLine, Verify, AuthFails, AuthSucceeds
<1>5. CASE Transaction
  <2>1. ASSUME NEW path \in Paths, NEW requireTls \in BOOLEAN, MailFrom(path, requireTls)
        PROVE (TxnWhole /\ DeliveredWhole)'
    BY <2>1 DEF MailFrom, NoTxn
  <2>2. ASSUME NEW a \in Addresses, RcptTo(a) PROVE (TxnWhole /\ DeliveredWhole)'
    BY <2>2 DEF RcptTo
  <2>3. CASE Data
    BY <2>3 DEF Data
  <2>4. ASSUME NEW n \in 2 .. MaxMessageSize + 1, DataLine(n) PROVE (TxnWhole /\ DeliveredWhole)'
    BY <2>4 DEF DataLine, Grown
  <2>5. CASE DataEnd
    <3>1. CASE txn.size > MaxMessageSize
      BY <2>5, <3>1 DEF DataEnd, NoTxn
    <3>2. CASE ~(txn.size > MaxMessageSize)
      BY <2>5, <3>2 DEF DataEnd, HandOver, NoTxn
    <3> QED BY <3>1, <3>2
  <2>6. CASE Chunk
    <3>1. CASE BdatRefused
      BY <2>6, <3>1, BdatCases DEF BdatRefused, Reset, NoTxn
    <3>2. ASSUME NEW n \in 0 .. MaxMessageSize, BdatMore(n) PROVE (TxnWhole /\ DeliveredWhole)'
      BY <2>6, <3>2, BdatCases, ChunkedFields DEF BdatMore
    <3>3. ASSUME NEW n \in 0 .. MaxMessageSize, BdatLast(n) PROVE (TxnWhole /\ DeliveredWhole)'
      BY <2>6, <3>3, BdatCases, ChunkedFields DEF BdatLast, HandOver, NoTxn
    <3> QED BY <2>6, <3>1, <3>2, <3>3, BdatCases
  <2>7. ASSUME NEW accepted \in BOOLEAN, Answer(accepted) PROVE (TxnWhole /\ DeliveredWhole)'
    BY <2>7 DEF Answer
  <2> QED BY <1>5, <2>1, <2>2, <2>3, <2>4, <2>5, <2>6, <2>7 DEF Transaction
<1> QED BY <1>1, <1>2, <1>3, <1>4, <1>5, NextGroups

LEMMA FramingStep == SessionInv /\ Next => (TxnFraming /\ MsgFraming)'
<1> SUFFICES ASSUME SessionInv, Next PROVE (TxnFraming /\ MsgFraming)'
  OBVIOUS
<1> USE DEF SessionInv, TypeOK, Txns, Phases, TxnFraming, MsgFraming,
        Reads, ReplyOk, ReplyError, Collect, Closes, authVars, vars
<1>1. CASE Session
  BY <1>1 DEF Session, RefuseCommand, RawCommand, Noop, Quit
<1>2. CASE Restarts
  BY <1>2 DEF Restarts, Greet, Rset, Reset, StartTls, NoTxn
<1>3. CASE AuthStarts
  BY <1>3 DEF AuthStarts, AuthAllowed, AuthInitial, AuthChallenge, AuthFirstStep, Verify, AuthFails,
              AuthSucceeds
<1>4. CASE AuthLines
  BY <1>4 DEF AuthLines, AuthCancel, ExternalLine, LoginLine, ScramFinalLine, PlainLine,
              ScramFirstLine, Verify, AuthFails, AuthSucceeds
<1>5. CASE Transaction
  <2>1. ASSUME NEW path \in Paths, NEW requireTls \in BOOLEAN, MailFrom(path, requireTls)
        PROVE (TxnFraming /\ MsgFraming)'
    BY <2>1 DEF MailFrom, NoTxn
  <2>2. ASSUME NEW a \in Addresses, RcptTo(a) PROVE (TxnFraming /\ MsgFraming)'
    BY <2>2 DEF RcptTo
  <2>3. CASE Data
    BY <2>3 DEF Data
  <2>4. ASSUME NEW n \in 2 .. MaxMessageSize + 1, DataLine(n) PROVE (TxnFraming /\ MsgFraming)'
    BY <2>4 DEF DataLine
  <2>5. CASE DataEnd
    <3>1. CASE txn.size > MaxMessageSize
      BY <2>5, <3>1 DEF DataEnd, NoTxn
    <3>2. CASE ~(txn.size > MaxMessageSize)
      BY <2>5, <3>2 DEF DataEnd, HandOver, NoTxn
    <3> QED BY <3>1, <3>2
  <2>6. CASE Chunk
    <3>1. CASE BdatRefused
      BY <2>6, <3>1, BdatCases DEF BdatRefused, Reset, NoTxn
    <3>2. ASSUME NEW n \in 0 .. MaxMessageSize, BdatMore(n) PROVE (TxnFraming /\ MsgFraming)'
      BY <2>6, <3>2, BdatCases, ChunkedFields DEF BdatMore
    <3>3. ASSUME NEW n \in 0 .. MaxMessageSize, BdatLast(n) PROVE (TxnFraming /\ MsgFraming)'
      BY <2>6, <3>3, BdatCases, ChunkedFields DEF BdatLast, HandOver, NoTxn
    <3> QED BY <2>6, <3>1, <3>2, <3>3, BdatCases
  <2>7. ASSUME NEW accepted \in BOOLEAN, Answer(accepted) PROVE (TxnFraming /\ MsgFraming)'
    BY <2>7 DEF Answer
  <2> QED BY <1>5, <2>1, <2>2, <2>3, <2>4, <2>5, <2>6, <2>7 DEF Transaction
<1> QED BY <1>1, <1>2, <1>3, <1>4, <1>5, NextGroups

(***************************************************************************)
(* Type correctness.                                                       *)
(***************************************************************************)

\* TypeOK in three parts: the loop, the transactions, the authentication.
LoopTyped ==
    /\ open \in BOOLEAN /\ busy \in BOOLEAN
    /\ mode \in {"commands", "data", "auth"}
    /\ streak \in 0 .. MaxErrorStreak /\ errors \in Nat
    /\ mech \in AllMechanisms \cup {"none"}
TxnTyped ==
    /\ state \in {"connected", "greeted", "recipients", "data"}
    /\ txn \in Txns /\ msg \in Txns
AuthTyped ==
    /\ tls \in {"none", "offered", "active"}
    /\ helo \in {"none", "clear", "tls"}
    /\ {cert, auth, scramAccount} \subseteq Accounts \cup {Nobody}
    /\ failures \in 0 .. MaxAuthFailures
    /\ pendingExternal \in BOOLEAN
    /\ pendingLogin \in {"none", "username", "password"}
    /\ pendingScram \in {"none", "first", "final"}

LEMMA TypeParts ==
    /\ TypeOK <=> LoopTyped /\ TxnTyped /\ AuthTyped
    /\ TypeOK' <=> LoopTyped' /\ TxnTyped' /\ AuthTyped'
BY DEF TypeOK, LoopTyped, TxnTyped, AuthTyped

LEMMA NoTxnType == NoTxn \in Txns
BY DirectoryAssumption DEF NoTxn, Txns, Paths

\* Whatever an action is answered with, the loop keeps its types.
LEMMA LoopTypeStep == SessionInv /\ Next => LoopTyped'
<1> SUFFICES ASSUME SessionInv, Next PROVE LoopTyped'
  OBVIOUS
<1> DEFINE Loop == /\ open \in BOOLEAN /\ mode \in {"commands", "data", "auth"}
                   /\ streak \in 0 .. MaxErrorStreak /\ errors \in Nat
                   /\ mech \in AllMechanisms \cup {"none"}
<1>a. Loop /\ busy \in BOOLEAN /\ (open => streak < MaxErrorStreak)
  BY TypeParts DEF SessionInv, LoopTyped, Counters
<1>b. Loop' /\ busy' \in BOOLEAN => LoopTyped'
  BY DEF LoopTyped
<1>1. ReplyOk => Loop'
  BY <1>a, Limits DEF ReplyOk
<1>2. open /\ ReplyError => Loop'
  <2>1. open /\ ReplyError => open' \in BOOLEAN
    BY DEF ReplyError
  <2>2. open /\ ReplyError => streak' \in 0 .. MaxErrorStreak /\ errors' \in Nat
    BY <1>a, Limits DEF ReplyError, OneMoreError
  <2> QED BY <2>1, <2>2 DEF ReplyError
<1>3. Closes => Loop'
  BY <1>a DEF Closes
<1>4. ASSUME NEW m \in {"data", "auth"}, NEW mechanism \in AllMechanisms \cup {"none"},
             Collect(m, mechanism)
      PROVE  Loop'
  BY <1>a, <1>4 DEF Collect
<1>5. UNCHANGED <<open, mode, streak, mech, errors>> => Loop'
  BY <1>a
<1>6. UNCHANGED <<open, streak, mech>> /\ mode' \in {"commands", "data", "auth"} /\ errors' \in Nat
      => Loop'
  BY <1>a
<1> HIDE DEF Loop
<1>7. CASE Session
  BY <1>7, <1>1, <1>2, <1>3, <1>5, <1>a, <1>b DEF Session, RefuseCommand, RawCommand, Noop, Quit, Reads, vars
<1>8. CASE Restarts
  <2>1. CASE Greet \/ Rset
    BY <2>1, <1>1, <1>a, <1>b DEF Greet, Rset
  <2>2. ASSUME NEW identity \in Accounts \cup {Nobody}, StartTls(identity) PROVE LoopTyped'
    BY <2>2, <1>6, <1>a, <1>b DEF StartTls, Reads
  <2> QED BY <1>8, <2>1, <2>2 DEF Restarts
<1>9. CASE AuthStarts
  <2>1. PICK m \in Mechanisms : \/ AuthInitial(m) \/ AuthChallenge(m)
                                \/ \E account \in Accounts : AuthFirstStep(m, account)
    BY <1>9 DEF AuthStarts
  <2>2. m \in AllMechanisms \cup {"none"}
    BY MechanismsAssumption
  <2>3. AuthFails \/ (\E account : AuthSucceeds(account)) \/ Collect("auth", m)
    BY <2>1 DEF AuthInitial, AuthChallenge, AuthFirstStep, Verify
  <2>4. open /\ busy' = busy
    BY <2>1 DEF AuthInitial, AuthChallenge, AuthFirstStep, AuthAllowed, Reads
  <2> QED BY <2>2, <2>3, <2>4, <1>1, <1>2, <1>3, <1>4, <1>a, <1>b DEF AuthFails, AuthSucceeds
<1>10. CASE AuthLines
  <2>1. open /\ busy' = busy
    BY <1>10 DEF AuthLines, AuthCancel, ExternalLine, LoginLine, ScramFinalLine, PlainLine,
                ScramFirstLine, Reads
  <2>2. AuthFails \/ (\E account : AuthSucceeds(account)) \/ Collect("auth", mech) \/ ReplyError
    BY <1>10 DEF AuthLines, AuthCancel, ExternalLine, LoginLine, ScramFinalLine, PlainLine,
                ScramFirstLine, Verify
  <2>3. mech \in AllMechanisms \cup {"none"}
    BY <1>a DEF Loop
  <2> QED BY <2>1, <2>2, <2>3, <1>1, <1>2, <1>3, <1>4, <1>a, <1>b DEF AuthFails, AuthSucceeds
<1>11. CASE Transaction
  <2>1. HandOver(txn) \/ (\E n : HandOver(Chunked(n))) => Loop' /\ busy' \in BOOLEAN
    BY <1>a, <1>6 DEF HandOver, Loop
  <2>2. ASSUME NEW path \in Paths, NEW requireTls \in BOOLEAN, MailFrom(path, requireTls)
        PROVE  LoopTyped'
    BY <2>2, <1>1, <1>a, <1>b DEF MailFrom
  <2>3. ASSUME NEW a \in Addresses, RcptTo(a) PROVE LoopTyped'
    BY <2>3, <1>1, <1>a, <1>b DEF RcptTo
  <2>4. CASE Data
    BY <2>4, <1>4, <1>a, <1>b DEF Data
  <2>5. ASSUME NEW n \in 2 .. MaxMessageSize + 1, DataLine(n) PROVE LoopTyped'
    BY <2>5, <1>5, <1>a, <1>b DEF DataLine
  <2>6. CASE DataEnd
    BY <2>6, <2>1, <1>2, <1>a, <1>b DEF DataEnd, Reads
  <2>7. CASE Chunk
    BY <2>7, <2>1, <1>1, <1>2, <1>a, <1>b, BdatCases, TypeParts
       DEF SessionInv, BdatRefused, BdatMore, BdatLast, Reads
  <2>8. ASSUME NEW accepted \in BOOLEAN, Answer(accepted) PROVE LoopTyped'
    <3>1. errors' \in Nat
      BY <2>8, <1>a DEF Answer, OneMoreError, Loop
    <3>2. mode' \in {"commands", "data", "auth"}
      BY <2>8, <1>a DEF Answer, Loop
    <3> QED BY <2>8, <3>1, <3>2, <1>6, <1>b DEF Answer
  <2> QED BY <1>11, <2>2, <2>3, <2>4, <2>5, <2>6, <2>7, <2>8 DEF Transaction
<1> QED BY <1>7, <1>8, <1>9, <1>10, <1>11, NextGroups

LEMMA TxnTypeStep == SessionInv /\ Next => TxnTyped'
<1> SUFFICES ASSUME SessionInv, Next PROVE TxnTyped'
  OBVIOUS
<1>a. TxnTyped
  BY TypeParts DEF SessionInv
<1>1. UNCHANGED <<state, txn, msg>> => TxnTyped'
  BY <1>a DEF TxnTyped
<1>2. ASSUME Reset \/ (txn' = NoTxn /\ state' \in {"connected", "greeted"}), UNCHANGED msg
      PROVE  TxnTyped'
  BY <1>a, <1>2, NoTxnType DEF TxnTyped, Reset
<1>3. CASE Session \/ AuthStarts \/ AuthLines
  BY <1>1, <1>3 DEF Session, RefuseCommand, RawCommand, Noop, Quit, AuthStarts, AuthInitial,
         AuthChallenge, AuthFirstStep, AuthLines, AuthCancel, ExternalLine, LoginLine,
         ScramFinalLine, PlainLine, ScramFirstLine, vars
<1>4. CASE Restarts
  <2>1. CASE Greet \/ Rset
    BY <2>1, <1>2 DEF Greet, Rset
  <2>2. ASSUME NEW identity \in Accounts \cup {Nobody}, StartTls(identity) PROVE TxnTyped'
    BY <2>2, <1>a DEF StartTls, TxnTyped
  <2> QED BY <1>4, <2>1, <2>2 DEF Restarts
<1>5. CASE Transaction
  <2>1. ASSUME NEW path \in Paths, NEW requireTls \in BOOLEAN, MailFrom(path, requireTls)
        PROVE  TxnTyped'
    <3>1. txn' \in Txns
      BY <2>1, NoTxnType DEF MailFrom, Txns
    <3> QED BY <2>1, <3>1, <1>a DEF MailFrom, TxnTyped
  <2>2. ASSUME NEW a \in Addresses, RcptTo(a) PROVE TxnTyped'
    <3>1. txn.rcpts \cup {a} \in SUBSET Addresses /\ txn.count + 1 \in Nat
      BY <1>a DEF TxnTyped, Txns
    <3>2. txn' \in Txns
      BY <2>2, <3>1, <1>a DEF RcptTo, TxnTyped, Txns
    <3> QED BY <2>2, <3>2, <1>a DEF RcptTo, TxnTyped
  <2>3. CASE Data
    <3>1. txn.framing \cup {"data"} \in SUBSET Framings
      BY <1>a DEF TxnTyped, Txns, Framings
    <3>2. txn' \in Txns
      BY <2>3, <3>1, <1>a DEF Data, TxnTyped, Txns
    <3> QED BY <2>3, <3>2, <1>a DEF Data, TxnTyped
  <2>4. ASSUME NEW n \in 2 .. MaxMessageSize + 1, DataLine(n) PROVE TxnTyped'
    <3>1. Grown(txn.size, n) \in Nat /\ txn.body + n \in Nat
      BY Limits, <1>a DEF TxnTyped, Txns, Grown
    <3>2. txn' \in Txns
      BY <2>4, <3>1, <1>a DEF DataLine, TxnTyped, Txns
    <3> QED BY <2>4, <3>2, <1>a DEF DataLine, TxnTyped
  <2>5. CASE DataEnd
    BY <2>5, <1>a, NoTxnType DEF DataEnd, HandOver, TxnTyped
  <2>6. CASE Chunk
    BY <2>6, <1>a, <1>2, NoTxnType, BdatCases, ChunkedFields
       DEF SessionInv, BdatRefused, BdatMore, BdatLast, HandOver, TxnTyped
  <2>7. ASSUME NEW accepted \in BOOLEAN, Answer(accepted) PROVE TxnTyped'
    BY <2>7, <1>a, NoTxnType DEF Answer, TxnTyped
  <2> QED BY <1>5, <2>1, <2>2, <2>3, <2>4, <2>5, <2>6, <2>7 DEF Transaction
<1> QED BY <1>3, <1>4, <1>5, NextGroups

LEMMA AuthTypeStep == SessionInv /\ Next => AuthTyped'
<1> SUFFICES ASSUME SessionInv, Next PROVE AuthTyped'
  OBVIOUS
<1>a. AuthTyped /\ (open => failures < MaxAuthFailures)
  BY TypeParts DEF SessionInv, Counters
<1>1. UNCHANGED <<tls, helo, authVars>> => AuthTyped'
  BY <1>a DEF AuthTyped, authVars
<1>2. open /\ AuthFails => failures' \in 0 .. MaxAuthFailures /\ auth' \in Accounts \cup {Nobody}
  BY <1>a, Limits DEF AuthFails, AuthTyped
<1>3. ASSUME NEW account \in Accounts \cup {Nobody}, AuthSucceeds(account)
      PROVE failures' \in 0 .. MaxAuthFailures /\ auth' \in Accounts \cup {Nobody}
  BY <1>3, <1>a DEF AuthSucceeds, AuthTyped
<1>4. UNCHANGED <<auth, failures>>
      => failures' \in 0 .. MaxAuthFailures /\ auth' \in Accounts \cup {Nobody}
  BY <1>a DEF AuthTyped
<1>5. CASE Session \/ Transaction
  <2>1. CASE Session
    BY <2>1, <1>1 DEF Session, RefuseCommand, RawCommand, Noop, Quit, vars
  <2>2. CASE Transaction
    BY <2>2, <1>1 DEF Transaction, MailFrom, RcptTo, Data, DataEnd, DataLine, Chunk, Bdat, Answer
  <2> QED BY <1>5, <2>1, <2>2
<1>6. CASE Restarts
  BY <1>6, <1>1, <1>a DEF Restarts, Greet, Rset, StartTls, AuthTyped, authVars
<1>7. CASE AuthStarts
  <2>1. PICK m \in Mechanisms : \/ AuthInitial(m) \/ AuthChallenge(m)
                                \/ \E account \in Accounts : AuthFirstStep(m, account)
    BY <1>7 DEF AuthStarts
  <2>2. CASE AuthInitial(m)
    <3>1. failures' \in 0 .. MaxAuthFailures /\ auth' \in Accounts \cup {Nobody}
      BY <2>2, <1>2, <1>3, <1>a DEF AuthInitial, AuthAllowed, Reads, Verify, AuthTyped
    <3> QED BY <2>2, <3>1, <1>a DEF AuthInitial, AuthTyped
  <2>3. CASE AuthChallenge(m)
    BY <2>3, <1>a DEF AuthChallenge, AuthTyped
  <2>4. ASSUME NEW account \in Accounts, AuthFirstStep(m, account) PROVE AuthTyped'
    <3>1. failures' \in 0 .. MaxAuthFailures /\ auth' \in Accounts \cup {Nobody}
      BY <2>4, <1>2, <1>4 DEF AuthFirstStep, AuthAllowed, Reads
    <3> QED BY <2>4, <3>1, <1>a DEF AuthFirstStep, AuthTyped
  <2> QED BY <2>1, <2>2, <2>3, <2>4
<1>8. CASE AuthLines
  <2>1. failures' \in 0 .. MaxAuthFailures /\ auth' \in Accounts \cup {Nobody}
    BY <1>8, <1>2, <1>3, <1>4, <1>a DEF AuthLines, AuthCancel, ExternalLine, LoginLine, ScramFinalLine,
       PlainLine, ScramFirstLine, Verify, Reads, AuthTyped
  <2>2. CASE AuthCancel \/ ExternalLine \/ LoginLine
    BY <2>1, <2>2, <1>a DEF AuthCancel, ExternalLine, LoginLine, AuthTyped
  <2>3. CASE ScramFinalLine \/ PlainLine \/ \E account \in Accounts : ScramFirstLine(account)
    BY <2>1, <2>3, <1>a DEF ScramFinalLine, PlainLine, ScramFirstLine, AuthTyped
  <2> QED BY <1>8, <2>2, <2>3 DEF AuthLines
<1> QED BY <1>5, <1>6, <1>7, <1>8, NextGroups

(***************************************************************************)
(* The theorems.                                                           *)
(***************************************************************************)

LEMMA SessionInductive == SessionInv /\ [Next]_vars => SessionInv'
<1>1. SessionInv /\ Next => SessionInv'
  BY PhasesStep, CountersStep, AuthorisedStep, CleartextStep, MechanismStep, WholeStep, FramingStep,
     LoopTypeStep, TxnTypeStep, AuthTypeStep, TypeParts DEF SessionInv
<1>2. SessionInv /\ UNCHANGED vars => SessionInv'
  BY DEF SessionInv, vars, authVars, TypeOK, Phases, Counters, ErrorsBounded, TxnAuthorised,
         Authorised, AuthorisedDelivery, NothingFromCleartext, MechanismHonoured, TxnWhole,
         DeliveredWhole, TxnFraming, MsgFraming
<1> QED BY <1>1, <1>2

LEMMA SessionAlways == Spec => []SessionInv
BY InitInv, SessionInductive, PTL DEF Spec

\* Every variable of the session keeps its type; the error streak and the
\* failed authentications in particular never pass their limits.
THEOREM TypeCorrect == Spec => []TypeOK
<1>1. SessionInv => TypeOK
  BY DEF SessionInv
<1> QED BY <1>1, SessionAlways, PTL

\* For every directory and configuration: whatever order commands come in, a
\* message that reaches delivery is authorised, a response is judged by the
\* mechanism asked for, and a failing client is dropped (session/mod.rs, auth.rs).
THEOREM Authorisation == Spec => []AuthorisedThroughout
<1>1. SessionInv => AuthorisedThroughout
  BY DEF SessionInv, AuthorisedThroughout, Counters
<1> QED BY <1>1, SessionAlways, PTL

\* Nothing said before STARTTLS counts after it (tls_started, auth).
THEOREM CleartextForgotten == Spec => []NothingFromCleartext
<1>1. SessionInv => NothingFromCleartext
  BY DEF SessionInv
<1> QED BY <1>1, SessionAlways, PTL

\* A delivered message is whole, of one framing, and has recipients, for every
\* size ceiling and every split into lines and chunks (data_line, bdat).
THEOREM Faithful == Spec => []DeliveredFaithfully
<1>1. SessionInv => DeliveredFaithfully
  <2>1. Cardinality({"data"}) = 1 /\ Cardinality({"bdat"}) = 1
    BY FS_Singleton
  <2> QED BY <2>1 DEF SessionInv, DeliveredFaithfully, OneFraming, MsgFraming
<1> QED BY <1>1, SessionAlways, PTL

\* Once data has begun, no step of the session changes the recipients of the
\* transaction (rcpt_to).
THEOREM Final == Spec => RecipientsFinal
<1> DEFINE Fixed == txn.framing # {} /\ txn'.framing # {} => txn'.rcpts = txn.rcpts
<1>1. SessionInv /\ Next => Fixed
  <2> SUFFICES ASSUME SessionInv, Next PROVE Fixed
    OBVIOUS
  <2>1. UNCHANGED txn \/ txn' = NoTxn => Fixed
    BY DEF NoTxn
  <2>2. CASE Session \/ Restarts \/ AuthStarts \/ AuthLines
    <3>1. CASE Restarts
      BY <3>1, <2>1 DEF Restarts, Greet, Rset, Reset, StartTls
    <3>2. CASE Session \/ AuthStarts \/ AuthLines
      BY <3>2, <2>1 DEF Session, RefuseCommand, RawCommand, Noop, Quit, AuthStarts, AuthInitial,
         AuthChallenge, AuthFirstStep, AuthLines, AuthCancel, ExternalLine, LoginLine,
         ScramFinalLine, PlainLine, ScramFirstLine, vars
    <3> QED BY <2>2, <3>1, <3>2
  <2>3. CASE Transaction
    <3>1. ASSUME NEW path \in Paths, NEW requireTls \in BOOLEAN, MailFrom(path, requireTls)
          PROVE  Fixed
      BY <3>1 DEF MailFrom, NoTxn
    <3>2. ASSUME NEW a \in Addresses, RcptTo(a) PROVE Fixed
      BY <3>2 DEF RcptTo, SessionInv, TxnFraming, Reads
    <3>3. CASE Data \/ \E n \in 2 .. MaxMessageSize + 1 : DataLine(n)
      BY <3>3 DEF Data, DataLine, SessionInv, TypeOK, Txns
    <3>4. CASE DataEnd
      BY <3>4, <2>1 DEF DataEnd, HandOver
    <3>5. CASE Chunk
      BY <3>5, <2>1, BdatCases, ChunkedFields
         DEF SessionInv, TypeOK, BdatRefused, BdatMore, BdatLast, Reset, HandOver
    <3>6. ASSUME NEW accepted \in BOOLEAN, Answer(accepted) PROVE Fixed
      BY <3>6, <2>1 DEF Answer
    <3> QED BY <2>3, <3>1, <3>2, <3>3, <3>4, <3>5, <3>6 DEF Transaction
  <2> QED BY <2>2, <2>3, NextGroups
<1>2. SessionInv /\ [Next]_vars => [Fixed]_vars
  BY <1>1
<1> QED BY <1>2, SessionAlways, PTL DEF Spec, RecipientsFinal
=============================================================================

------------------------ MODULE OutboundQueueProofs ------------------------
(***************************************************************************)
(* Proofs about OutboundQueue, for any number of messages, recipients and  *)
(* domains, any times and any number of faults: type correctness, that no  *)
(* accepted message is lost silently, that the queue implements            *)
(* MailCustody, and how much of it leaves the queue: copies, notices and   *)
(* warnings, who ends up suppressed, and that a visible envelope has its   *)
(* message file.                                                           *)
(*                                                                         *)
(* NoSilentLoss is not inductive: that a removal is justified depends on   *)
(* what the worker did in its earlier steps.  QueueInv adds what holds at  *)
(* each of the worker's program points.                                    *)
(***************************************************************************)
EXTENDS OutboundQueue, TLAPS

\* The entry may leave the spool: removed by an operator, or owed to nobody.
Settled(id) == id \in cancelled \/ \A r \in msg[id].rcpts : AccountedFor(id, r)

\* A store that has not renamed its envelope has none, and one that is about
\* to rename it has already put the message next to it.
StoreOrder ==
    \A id \in Ids :
        /\ id \in envFile => Spooled(id)
        /\ st[id] = "eml" => id \in emlFile

\* What was spooled is still there, or settled.
Kept == \A id \in Ids : Spooled(id) => Loads(id) \/ Settled(id)

\* What the worker knows at each of its program points.
WorkerInv ==
    /\ \A id \in todo : Spooled(id)
    /\ wpc \notin {"idle", "scan"} => Spooled(cur)
    /\ wpc \in {"resolve", "talk"} =>
          \A r \in msg[cur].rcpts :
              copies[cur][r] > 0 \/ r \in skipped[cur] \/ DomainOf[r] \in pending
    /\ wpc \in {"suppress", "unlinkEnv", "unlinkEml"} => Settled(cur)

\* An operator past the first unlink has removed an entry that was spooled.
OperatorInv ==
    \A id \in Ids :
        /\ opStage[id] = "eml" => id \in cancelled
        /\ id \in cancelled => Spooled(id)

QueueInv == TypeOK /\ StoreOrder /\ Kept /\ WorkerInv /\ OperatorInv

(***************************************************************************)
(* Type correctness.                                                       *)
(***************************************************************************)

\* The delay backoff_until adds is a number whatever the doubling gives.
LEMMA BackoffType ==
    ASSUME NEW from \in Nat, NEW n \in Nat
    PROVE  BackoffUntil(from, n) \in Nat
<1> DEFINE doubled == BackoffBase * 2^(IF n < 16 THEN n ELSE 16)
<1> HIDE DEF doubled
<1>1. from + (IF doubled \in 0 .. BackoffCap THEN doubled ELSE BackoffCap) \in Nat
  BY TimesAssumption
<1> QED BY <1>1 DEF BackoffUntil, doubled

LEMMA InitType == Init => TypeOK
BY IdsAssumption DEF Init, SpoolInit, TypeOK, SpoolTypeOK, StoreStates, WorkerStates, Verdicts

\* The steps of the store, the operator, the clock and the faults keep the types.
LEMMA EnvironmentType ==
    TypeOK /\ (Operator \/ Fault \/ TimePasses \/ \E id \in Ids : Storing(id)) => TypeOK'
<1> SUFFICES ASSUME TypeOK, Operator \/ Fault \/ TimePasses \/ \E id \in Ids : Storing(id)
             PROVE TypeOK'
  OBVIOUS
<1> USE DEF TypeOK, SpoolTypeOK, workerVars, listVars, worldVars, spoolVars
<1>1. ASSUME NEW id \in Ids, Storing(id) PROVE TypeOK'
  BY <1>1 DEF Storing, StoreTmp, StoreRenameEml, StoreRenameEnv, StoreAck, StoreStates
<1>2. ASSUME NEW id \in Ids, OperatorLoad(id) \/ OperatorUnlinkEnv(id)
                             \/ OperatorUnlinkEml(id) \/ OperatorFails(id)
      PROVE TypeOK'
  BY <1>2 DEF OperatorLoad, OperatorUnlinkEnv, OperatorUnlinkEml, OperatorFails, UnlinkEnv, UnlinkEml
<1>3. ASSUME NEW r \in Recipients, Unsuppress(r) PROVE TypeOK'
  BY <1>3 DEF Unsuppress
<1>4. ASSUME NEW account \in Senders, NEW S \in SUBSET Recipients, UnsuppressFor(account, S)
      PROVE TypeOK'
  BY <1>4 DEF UnsuppressFor
<1>5. CASE TimePasses
  BY <1>5 DEF TimePasses, Tick
<1>6. CASE Crash
  BY <1>6 DEF Crash, OneFault, StoreCrashed, WorkerStates, Verdicts, StoreStates
<1>7. CASE WorkerError
  BY <1>7 DEF WorkerError, OneFault, Goto, WorkerStates
<1>8. ASSUME NEW id \in Ids, StoreError(id) PROVE TypeOK'
  BY <1>8 DEF StoreError, OneFault, StoreFails, StoreStates
<1>9. CASE Operator
  BY <1>2, <1>3, <1>4, <1>9 DEF Operator
<1> QED BY <1>1, <1>5, <1>6, <1>7, <1>8, <1>9 DEF Fault

\* The steps of the worker keep the types.
LEMMA WorkerType == TypeOK /\ (WorkerStep \/ RemoteAnswers) => TypeOK'
<1> SUFFICES ASSUME TypeOK, WorkerStep \/ RemoteAnswers PROVE TypeOK'
  OBVIOUS
<1> USE DEF TypeOK, SpoolTypeOK, workerVars, listVars, worldVars, spoolVars, WorkerStates,
            Verdicts, Goto
<1>1. CASE PassBegin \/ PassEnd
  BY <1>1 DEF PassBegin, PassEnd, Listed
<1>2. ASSUME NEW id \in Ids, SkipEntry(id) \/ UnreadableEntry(id) PROVE TypeOK'
  BY <1>2 DEF SkipEntry, UnreadableEntry
<1>3. ASSUME NEW id \in Ids, LoadEntry(id) PROVE TypeOK'
  <2>1. msg[id].rcpts \subseteq Recipients
    BY MessagesAssumption
  <2>2. SuppressedFor(msg[id]) \subseteq Recipients
    BY <2>1 DEF SuppressedFor
  <2>3. pending' \subseteq Domains
    BY <1>3, <2>1, DomainsAssumption DEF LoadEntry
  <2>4. skipped' \in [Ids -> SUBSET Recipients]
    BY <1>3, <2>2 DEF LoadEntry
  <2> QED BY <1>3, <2>3, <2>4 DEF LoadEntry
<1>4. CASE ResolveDefers
  BY <1>4 DEF ResolveDefers
<1>5. ASSUME NEW d \in Domains, ResolveRejects(d) \/ Connect(d) PROVE TypeOK'
  BY <1>5 DEF ResolveRejects, Connect
<1>6. ASSUME NEW ok \in BOOLEAN, Bounce(ok) PROVE TypeOK'
  <2>1. DsnRecipients(msg[cur]) \subseteq Recipients
    BY MessagesAssumption DEF DsnRecipients
  <2>2. reported' \in [Ids -> SUBSET Recipients]
    BY <1>6, <2>1 DEF Bounce
  <2>3. bounces' \in [Ids -> Nat]
    BY <1>6 DEF Bounce
  <2>6. dsnLost' \subseteq Ids
    BY <1>6 DEF Bounce
  <2>4. wpc' \in WorkerStates
    BY <1>6 DEF Bounce
  <2>5. UNCHANGED <<spoolVars, passNow, todo, cur, pending, verdict, listVars, opStage, copies,
                    skipped, warnings, cancelled, refused, faults>>
    BY <1>6 DEF Bounce
  <2> QED BY <2>2, <2>3, <2>4, <2>5, <2>6
<1>7. ASSUME NEW ok \in BOOLEAN, WarnDelayed(ok) PROVE TypeOK'
  <2>1. wpc' \in WorkerStates
    BY <1>7 DEF WarnDelayed
  <2>2. warnings' \in [Ids -> Nat]
    BY <1>7 DEF WarnDelayed
  <2>3. UNCHANGED <<spoolVars, passNow, todo, cur, pending, verdict, listVars, opStage, copies,
                    skipped, reported, bounces, dsnLost, cancelled, refused, faults>>
    BY <1>7 DEF WarnDelayed
  <2> QED BY <2>1, <2>2, <2>3
<1>8. CASE SuppressEntry
  <2>1. msg[cur].rcpts \subseteq Recipients /\ msg[cur].from \in Senders
    BY MessagesAssumption
  <2>2. suppressed' \subseteq Recipients /\ suppressedFor' \subseteq Senders \X Recipients
    BY <1>8, <2>1 DEF SuppressEntry
  <2> QED BY <1>8, <2>2 DEF SuppressEntry
<1>9. CASE RemoveEnvelope \/ RemoveMessage \/ RemoveFails
  BY <1>9 DEF RemoveEnvelope, RemoveMessage, RemoveFails, UnlinkEnv, UnlinkEml
<1>10. CASE RecordLoad \/ JudgeAge \/ MarkLoad
  BY <1>10 DEF RecordLoad, JudgeAge, MarkLoad
<1>11. CASE RecordRename
  <2>0. passNow \in Nat /\ attempts[cur] + 1 \in Nat
    OBVIOUS
  <2>1. BackoffUntil(passNow, attempts[cur] + 1) \in Nat
    BY <2>0, BackoffType, Zenon
  <2>2. nextAttempt' \in [Ids -> Nat] /\ attempts' \in [Ids -> Nat]
    BY <1>11, <2>1 DEF RecordRename, RenameAttempt
  <2>3. wpc' \in WorkerStates /\ envFile' \subseteq Ids
    BY <1>11 DEF RecordRename, RenameAttempt
  <2>4. UNCHANGED <<clock, st, born, msg, emlFile, delayWarned, passNow, todo, cur, pending,
                    verdict, listVars, opStage, worldVars, faults>>
    BY <1>11 DEF RecordRename, RenameAttempt
  <2> QED BY <2>2, <2>3, <2>4
<1>12. CASE MarkRename
  BY <1>12 DEF MarkRename, RenameWarned
<1>13. ASSUME NEW d \in Domains, RemoteAccepts(d) PROVE TypeOK'
  <2>1. copies' \in [Ids -> [Recipients -> Nat]]
    BY <1>13 DEF RemoteAccepts, OneMoreCopy
  <2> QED BY <1>13, <2>1 DEF RemoteAccepts
<1>14. ASSUME NEW d \in Domains, NEW taken \in BOOLEAN, RemoteDefers(d, taken) PROVE TypeOK'
  <2>1. copies' \in [Ids -> [Recipients -> Nat]]
    <3>1. CASE taken
      <4>1. OneMoreCopy(d)
        BY <1>14, <3>1, Zenon DEF RemoteDefers
      <4> QED BY <4>1 DEF OneMoreCopy
    <3>2. CASE ~taken
      BY <1>14, <3>2 DEF RemoteDefers
    <3> QED BY <3>1, <3>2
  <2>2. wpc' \in WorkerStates /\ verdict' \in Verdicts
    BY <1>14 DEF RemoteDefers
  <2>3. UNCHANGED <<spoolVars, passNow, todo, cur, pending, listVars, opStage, skipped, reported,
                    bounces, warnings, dsnLost, cancelled, refused, faults>>
    BY <1>14 DEF RemoteDefers
  <2> QED BY <2>1, <2>2, <2>3
<1>15. ASSUME NEW d \in Domains, RemoteRefuses(d) PROVE TypeOK'
  <2>1. Conversation(cur, d) \subseteq Recipients
    BY MessagesAssumption DEF Conversation
  <2> QED BY <1>15, <2>1 DEF RemoteRefuses
<1>16. CASE RemoteAnswers
  BY <1>13, <1>14, <1>15, <1>16 DEF RemoteAnswers
<1>17. CASE WorkerStep
  BY <1>1, <1>2, <1>3, <1>4, <1>5, <1>6, <1>7, <1>8, <1>9, <1>10, <1>11, <1>12, <1>17
     DEF WorkerStep
<1> QED BY <1>16, <1>17

LEMMA NextType == TypeOK /\ [Next]_vars => TypeOK'
<1> SUFFICES ASSUME TypeOK, [Next]_vars PROVE TypeOK'
  OBVIOUS
<1>1. CASE Next
  BY <1>1, WorkerType, EnvironmentType DEF Next
<1>2. CASE UNCHANGED vars
  BY <1>2 DEF vars, TypeOK, SpoolTypeOK, spoolVars, workerVars, listVars, worldVars
<1> QED BY <1>1, <1>2

\* Every variable of the queue keeps its type, the files of the spool included.
THEOREM TypeCorrect == Spec => []TypeOK
<1> QED BY InitType, NextType, PTL DEF Spec

(***************************************************************************)
(* The inductive invariant, one step per action.                           *)
(***************************************************************************)
LEMMA InitInv == Init => QueueInv
<1> SUFFICES ASSUME Init PROVE QueueInv
  OBVIOUS
<1>1. TypeOK
  BY InitType
<1>2. StoreOrder /\ Kept /\ WorkerInv /\ OperatorInv
  BY DEF Init, SpoolInit, StoreOrder, Kept, WorkerInv, OperatorInv, Spooled
<1> QED BY <1>1, <1>2 DEF QueueInv

\* Once settled, an entry stays settled while what it was skipped for stands.
LEMMA SettledStable ==
    ASSUME TypeOK, TypeOK', NEW id \in Ids, Settled(id),
           msg' = msg, cancelled \subseteq cancelled', dsnLost \subseteq dsnLost',
           \A r \in Recipients : copies'[id][r] >= copies[id][r],
           skipped[id] \subseteq skipped'[id], reported[id] \subseteq reported'[id]
    PROVE  Settled(id)'
<1>1. CASE id \in cancelled
  BY <1>1 DEF Settled
<1>2. CASE \A r \in msg[id].rcpts : AccountedFor(id, r)
  <2> SUFFICES ASSUME NEW r \in msg[id].rcpts PROVE AccountedFor(id, r)'
    BY DEF Settled
  <2>1. r \in Recipients
    BY MessagesAssumption DEF TypeOK, SpoolTypeOK
  <2>2. copies[id][r] \in Nat /\ copies'[id][r] \in Nat
    BY <2>1 DEF TypeOK
  <2>3. AccountedFor(id, r)
    BY <1>2
  <2> QED BY <2>1, <2>2, <2>3 DEF AccountedFor
<1> QED BY <1>1, <1>2 DEF Settled

\* A step that leaves the spool, the operators and the world as they are.
LEMMA WorkerOnly ==
    ASSUME QueueInv, UNCHANGED <<spoolVars, opStage, worldVars>>
    PROVE  StoreOrder' /\ Kept' /\ OperatorInv'
BY DEF QueueInv, spoolVars, worldVars, StoreOrder, Kept, OperatorInv, Spooled, Loads, Settled,
       AccountedFor

\* The steps of a store that is under way.
LEMMA StoringInv ==
    ASSUME QueueInv, TypeOK', NEW id \in Ids, Storing(id)
    PROVE  QueueInv'
<1> USE DEF QueueInv, workerVars, listVars, worldVars
<1>1. \A other \in Ids : /\ Spooled(other) => Spooled(other)'
                         /\ Settled(other)' <=> Settled(other)
                         /\ Loads(other) => Loads(other)'
  BY DEF Storing, StoreTmp, StoreRenameEml, StoreRenameEnv, StoreAck, Spooled, Settled,
         AccountedFor, Loads, TypeOK, SpoolTypeOK
<1>2. StoreOrder'
  BY DEF Storing, StoreTmp, StoreRenameEml, StoreRenameEnv, StoreAck, StoreOrder, Spooled,
         TypeOK, SpoolTypeOK
<1>3. Kept'
  <2> SUFFICES ASSUME NEW other \in Ids, Spooled(other)', ~Spooled(other)
               PROVE Loads(other)'
    BY <1>1 DEF Kept
  <2> QED BY DEF Storing, StoreTmp, StoreRenameEml, StoreRenameEnv, StoreAck, StoreOrder,
                 Spooled, Loads, TypeOK, SpoolTypeOK
<1>4. WorkerInv'
  BY <1>1 DEF Storing, StoreTmp, StoreRenameEml, StoreRenameEnv, StoreAck, WorkerInv, TypeOK
<1>5. OperatorInv'
  BY <1>1 DEF Storing, OperatorInv
<1> QED BY <1>2, <1>3, <1>4, <1>5

\* The operator's requests.
LEMMA OperatorStepInv ==
    ASSUME QueueInv, TypeOK', Operator
    PROVE  QueueInv'
<1> USE DEF QueueInv
<1>1. ASSUME NEW id \in Ids, OperatorLoad(id) \/ OperatorFails(id) PROVE QueueInv'
  <2>1. UNCHANGED <<spoolVars, workerVars, listVars, worldVars, faults>>
    BY <1>1 DEF OperatorLoad, OperatorFails
  <2>2. OperatorInv'
    BY <1>1 DEF OperatorLoad, OperatorFails, OperatorInv, TypeOK, worldVars, spoolVars, Spooled
  <2> QED BY <2>1, <2>2 DEF spoolVars, workerVars, worldVars, StoreOrder, Kept, WorkerInv, Spooled,
                            Loads, Settled, AccountedFor
<1>2. ASSUME NEW id \in Ids, OperatorUnlinkEnv(id) PROVE QueueInv'
  <2> USE <1>2 DEF OperatorUnlinkEnv, UnlinkEnv
  <2>1. \A other \in Ids : Settled(other) => Settled(other)'
    BY DEF Settled, AccountedFor
  <2>2. Settled(id)'
    BY DEF Settled
  <2>3. \A other \in Ids : Spooled(other)' <=> Spooled(other)
    BY DEF Spooled
  <2>4. StoreOrder'
    BY <2>3 DEF StoreOrder
  <2>5. Kept'
    BY <2>1, <2>2, <2>3 DEF Kept, Loads
  <2>6. WorkerInv'
    BY <2>1, <2>3 DEF WorkerInv, TypeOK, workerVars
  <2>7. OperatorInv'
    BY <2>3 DEF OperatorInv, StoreOrder, TypeOK
  <2> QED BY <2>4, <2>5, <2>6, <2>7
<1>3. ASSUME NEW id \in Ids, OperatorUnlinkEml(id) PROVE QueueInv'
  <2> USE <1>3 DEF OperatorUnlinkEml, UnlinkEml
  <2>1. \A other \in Ids : Settled(other)' <=> Settled(other)
    BY DEF Settled, AccountedFor, worldVars
  <2>2. \A other \in Ids : Spooled(other)' <=> Spooled(other)
    BY DEF Spooled
  <2>3. id \in cancelled
    BY DEF OperatorInv
  <2>4. StoreOrder'
    <3>1. Spooled(id)
      BY <2>3 DEF OperatorInv
    <3> QED BY <2>2, <3>1 DEF StoreOrder, Spooled
  <2>5. Kept'
    BY <2>1, <2>2, <2>3 DEF Kept, Loads, Settled
  <2>6. WorkerInv'
    BY <2>1, <2>2 DEF WorkerInv, TypeOK, workerVars, worldVars
  <2>7. OperatorInv'
    BY <2>2 DEF OperatorInv, TypeOK, worldVars
  <2> QED BY <2>4, <2>5, <2>6, <2>7
<1>4. ASSUME UNCHANGED <<spoolVars, workerVars, opStage, worldVars, faults>> PROVE QueueInv'
  BY <1>4 DEF spoolVars, workerVars, worldVars, StoreOrder, Kept, WorkerInv, OperatorInv,
              Spooled, Loads, Settled, AccountedFor
<1> QED BY <1>1, <1>2, <1>3, <1>4 DEF Operator, Unsuppress, UnsuppressFor

\* Time, crashes and I/O errors.
LEMMA FaultInv ==
    ASSUME QueueInv, TypeOK', Fault \/ TimePasses
    PROVE  QueueInv'
<1> USE DEF QueueInv
<1>1. \A id \in Ids : Settled(id)' <=> Settled(id)
  BY DEF Fault, TimePasses, Tick, Crash, WorkerError, StoreError, StoreFails, spoolVars, worldVars,
         Settled, AccountedFor
<1>2. \A id \in Ids : Spooled(id)' <=> Spooled(id)
  <2>1. CASE Crash
    BY <2>1 DEF Crash, StoreCrashed, Spooled, TypeOK, SpoolTypeOK
  <2>2. ASSUME NEW id \in Ids, StoreError(id) PROVE \A o \in Ids : Spooled(o)' <=> Spooled(o)
    BY <2>2 DEF StoreError, StoreFails, Spooled, TypeOK, SpoolTypeOK
  <2>3. CASE WorkerError \/ TimePasses
    BY <2>3 DEF WorkerError, TimePasses, Tick, Spooled, spoolVars
  <2> QED BY <2>1, <2>2, <2>3 DEF Fault
<1>3. UNCHANGED <<emlFile, envFile, cancelled, msg>>
  BY DEF Fault, TimePasses, Tick, Crash, WorkerError, StoreError, StoreFails, spoolVars, worldVars
<1>4. StoreOrder'
  <2>1. \A id \in Ids : st'[id] = "eml" => st[id] = "eml"
    <3>1. CASE Crash
      BY <3>1 DEF Crash, StoreCrashed, TypeOK, SpoolTypeOK
    <3>2. ASSUME NEW id \in Ids, StoreError(id)
          PROVE  \A o \in Ids : st'[o] = "eml" => st[o] = "eml"
      BY <3>2 DEF StoreError, StoreFails, TypeOK, SpoolTypeOK
    <3>3. CASE WorkerError \/ TimePasses
      BY <3>3 DEF WorkerError, TimePasses, Tick, spoolVars
    <3> QED BY <3>1, <3>2, <3>3 DEF Fault
  <2> QED BY <1>2, <1>3, <2>1 DEF StoreOrder
<1>5. Kept'
  BY <1>1, <1>2, <1>3 DEF Kept, Loads
<1>6. OperatorInv'
  BY <1>2, <1>3 DEF Fault, TimePasses, Crash, WorkerError, StoreError, OperatorInv
<1>7. WorkerInv'
  <2>1. CASE Crash
    BY <2>1 DEF Crash, WorkerInv
  <2>2. CASE WorkerError
    BY <1>1, <1>2, <2>2 DEF WorkerError, WorkerInv, Goto, spoolVars, worldVars, TypeOK
  <2>3. CASE TimePasses \/ \E id \in Ids : StoreError(id)
    BY <1>1, <1>2, <1>3, <2>3 DEF TimePasses, StoreError, WorkerInv, workerVars, worldVars, TypeOK
  <2> QED BY <2>1, <2>2, <2>3 DEF Fault
<1> QED BY <1>4, <1>5, <1>6, <1>7

\* The conversations with the exchangers.
LEMMA RemoteInv ==
    ASSUME QueueInv, TypeOK', RemoteAnswers
    PROVE  QueueInv'
<1> USE DEF QueueInv
<1> PICK d \in Domains : \/ RemoteAccepts(d)
                         \/ \E taken \in BOOLEAN : RemoteDefers(d, taken)
                         \/ RemoteRefuses(d)
  BY DEF RemoteAnswers
<1>1. UNCHANGED <<spoolVars, todo, cur, opStage, skipped, reported, dsnLost, cancelled>>
  BY DEF RemoteAccepts, RemoteDefers, RemoteRefuses
<1>2. \A id \in Ids, r \in Recipients : copies'[id][r] >= copies[id][r]
  <2>1. OneMoreCopy(d) \/ copies' = copies
    BY Zenon DEF RemoteAccepts, RemoteDefers, RemoteRefuses
  <2>2. ASSUME OneMoreCopy(d), NEW id \in Ids, NEW r \in Recipients
        PROVE  copies'[id][r] >= copies[id][r]
    BY <2>2 DEF OneMoreCopy, TypeOK
  <2>3. ASSUME copies' = copies, NEW id \in Ids, NEW r \in Recipients
        PROVE  copies'[id][r] >= copies[id][r]
    BY <2>3 DEF TypeOK
  <2> QED BY <2>1, <2>2, <2>3
<1>3. \A id \in Ids : Settled(id) => Settled(id)'
  BY <1>1, <1>2, SettledStable DEF spoolVars, TypeOK, SpoolTypeOK
<1>4. StoreOrder' /\ Kept' /\ OperatorInv'
  BY <1>1, <1>3 DEF StoreOrder, Kept, OperatorInv, Spooled, Loads, spoolVars
<1>5. \A id \in Ids : Spooled(id)' <=> Spooled(id)
  BY <1>1 DEF Spooled, spoolVars
<1>6. WorkerInv'
  <2>1. CASE RemoteAccepts(d)
    <3>1. \A r \in msg[cur].rcpts :
             copies'[cur][r] > 0 \/ r \in skipped[cur] \/ DomainOf[r] \in pending'
      <4> SUFFICES ASSUME NEW r \in msg[cur].rcpts, r \notin skipped[cur],
                          DomainOf[r] \notin pending'
                   PROVE copies'[cur][r] > 0
        OBVIOUS
      <4>1. r \in Recipients /\ copies[cur][r] \in Nat /\ copies'[cur][r] \in Nat
        BY MessagesAssumption DEF TypeOK, SpoolTypeOK
      <4>2. CASE DomainOf[r] = d
        <5>1. r \in Conversation(cur, d)
          BY <4>2 DEF Conversation
        <5> QED BY <2>1, <4>1, <5>1 DEF RemoteAccepts, OneMoreCopy, TypeOK
      <4>3. CASE DomainOf[r] # d
        <5>1. copies[cur][r] > 0
          BY <2>1, <4>3 DEF RemoteAccepts, WorkerInv
        <5> QED BY <1>2, <4>1, <5>1 DEF TypeOK
      <4> QED BY <4>2, <4>3
    <3>2. CASE pending = {d}
      <4>1. pending' = {}
        BY <2>1, <3>2 DEF RemoteAccepts
      <4>2. Settled(cur)'
        BY <1>1, <3>1, <4>1 DEF Settled, AccountedFor, spoolVars
      <4> QED BY <2>1, <1>1, <1>5, <3>2, <4>2 DEF RemoteAccepts, WorkerInv, Goto, TypeOK
    <3>3. CASE pending # {d}
      BY <2>1, <1>1, <1>5, <3>1, <3>3 DEF RemoteAccepts, WorkerInv, Goto, TypeOK, spoolVars
    <3> QED BY <3>2, <3>3
  <2>2. CASE RemoteRefuses(d)
    BY <2>2, <1>1, <1>5 DEF RemoteRefuses, WorkerInv, Goto, TypeOK
  <2>3. ASSUME NEW taken \in BOOLEAN, RemoteDefers(d, taken) PROVE WorkerInv'
    <3>1. wpc = "talk" /\ wpc' = "record"
      BY <2>3, Zenon DEF RemoteDefers, Goto
    <3> QED BY <3>1, <1>1, <1>5 DEF WorkerInv, TypeOK
  <2> QED BY <2>1, <2>2, <2>3
<1> QED BY <1>4, <1>6

\* The worker's own steps.
LEMMA WorkerStepInv ==
    ASSUME QueueInv, TypeOK', WorkerStep
    PROVE  QueueInv'
<1> USE DEF QueueInv
<1>1. CASE PassBegin \/ PassEnd
  <2>1. StoreOrder' /\ Kept' /\ OperatorInv'
    BY <1>1, WorkerOnly DEF PassBegin, PassEnd
  <2>2. WorkerInv'
    BY <1>1 DEF PassBegin, PassEnd, Listed, Goto, WorkerInv, StoreOrder, Spooled, TypeOK,
                SpoolTypeOK, spoolVars
  <2> QED BY <2>1, <2>2
<1>2. ASSUME NEW id \in Ids, SkipEntry(id) \/ UnreadableEntry(id) PROVE QueueInv'
  <2>1. StoreOrder' /\ Kept' /\ OperatorInv'
    BY <1>2, WorkerOnly DEF SkipEntry, UnreadableEntry
  <2>2. WorkerInv'
    BY <1>2 DEF SkipEntry, UnreadableEntry, Oldest, Goto, WorkerInv, Spooled, TypeOK, spoolVars
  <2> QED BY <2>1, <2>2
<1>3. ASSUME NEW id \in Ids, LoadEntry(id) PROVE QueueInv'
  <2> USE <1>3 DEF LoadEntry
  <2>1. Loads(id) /\ id \in todo
    BY DEF Oldest
  <2>2. \A other \in Ids : /\ Spooled(other)' <=> Spooled(other)
                           /\ Loads(other)' <=> Loads(other)
    BY DEF Spooled, Loads, spoolVars
  <2>3. \A other \in Ids \ {id} : Settled(other) => Settled(other)'
    BY DEF Settled, AccountedFor, spoolVars, TypeOK
  <2>4. Kept'
    BY <2>1, <2>2, <2>3 DEF Kept
  <2>5. StoreOrder' /\ OperatorInv'
    BY <2>2 DEF StoreOrder, OperatorInv, spoolVars, Spooled
  <2>6. WorkerInv'
    <3>1. Spooled(id)' /\ \A other \in todo' : Spooled(other)'
      BY <2>1, <2>2 DEF WorkerInv, TypeOK
    <3>2. skipped'[id] = SuppressedFor(msg[id]) /\ cur' = id /\ msg' = msg
      BY DEF TypeOK, spoolVars
    <3>3. CASE wpc' = "unlinkEnv"
      <4>1. msg[id].rcpts \subseteq skipped'[id]
        BY <3>2, <3>3 DEF Goto
      <4>2. Settled(cur)'
        BY <3>2, <4>1 DEF Settled, AccountedFor
      <4> QED BY <3>1, <3>2, <3>3, <4>2 DEF WorkerInv
    <3>4. CASE wpc' = "bounce"
      BY <3>1, <3>2, <3>4 DEF WorkerInv
    <3>5. CASE wpc' = "resolve"
      <4>1. \A r \in msg[id].rcpts : r \in skipped'[id] \/ DomainOf[r] \in pending'
        BY <3>2, <3>5 DEF Goto
      <4> QED BY <3>1, <3>2, <3>5, <4>1 DEF WorkerInv
    <3> QED BY <3>3, <3>4, <3>5 DEF Goto
  <2> QED BY <2>4, <2>5, <2>6
<1>4. ASSUME ResolveDefers \/ \E d \in Domains : ResolveRejects(d) \/ Connect(d)
      PROVE  QueueInv'
  <2>1. StoreOrder' /\ Kept' /\ OperatorInv'
    BY <1>4, WorkerOnly DEF ResolveDefers, ResolveRejects, Connect
  <2>2. WorkerInv'
    BY <1>4 DEF ResolveDefers, ResolveRejects, Connect, Goto, WorkerInv, Spooled, spoolVars,
                worldVars
  <2> QED BY <2>1, <2>2
<1>5. ASSUME NEW ok \in BOOLEAN, Bounce(ok) PROVE QueueInv'
  <2>1. /\ wpc = "bounce" /\ wpc' \in {"suppress", "unlinkEnv"}
        /\ UNCHANGED <<spoolVars, todo, cur, opStage, copies, skipped, cancelled>>
    BY <1>5 DEF Bounce, Goto
  <2>2. \/ /\ Loads(cur) /\ BuildsDsn(msg[cur])
           /\ reported' = [reported EXCEPT ![cur] = @ \cup DsnRecipients(msg[cur])]
           /\ dsnLost' = dsnLost
        \/ dsnLost' = dsnLost \cup {cur} /\ reported' = reported
        \/ ~(Loads(cur) /\ BuildsDsn(msg[cur])) /\ reported' = reported /\ dsnLost' = dsnLost
    BY <1>5, Zenon DEF Bounce
  <2>3. dsnLost \subseteq dsnLost' /\ \A id \in Ids : reported[id] \subseteq reported'[id]
    BY <2>2 DEF TypeOK
  <2>4. \A id \in Ids, r \in Recipients : copies'[id][r] >= copies[id][r]
    BY <2>1 DEF TypeOK
  <2>5. \A id \in Ids : Settled(id) => Settled(id)'
    BY <2>1, <2>3, <2>4, SettledStable DEF spoolVars, TypeOK
  <2>6. Settled(cur)'
    <3>1. CASE reported' = [reported EXCEPT ![cur] = @ \cup DsnRecipients(msg[cur])]
      <4>1. \A r \in msg[cur].rcpts : r \in reported'[cur] \/ r \in msg[cur].noDsn
        BY <3>1 DEF DsnRecipients, TypeOK
      <4> QED BY <2>1, <4>1 DEF Settled, AccountedFor, spoolVars
    <3>2. CASE dsnLost' = dsnLost \cup {cur}
      BY <2>1, <3>2 DEF Settled, AccountedFor
    <3>3. CASE ~Loads(cur)
      <4>1. Settled(cur)
        BY <2>1, <3>3 DEF WorkerInv, Kept, TypeOK
      <4> QED BY <2>1, <2>5, <4>1 DEF TypeOK, Settled, AccountedFor
    <3>4. CASE ~BuildsDsn(msg[cur])
      <4>1. \A r \in msg[cur].rcpts : r \in msg[cur].noDsn \/ msg[cur].from = NullSender
        BY <3>4 DEF BuildsDsn, DsnRecipients
      <4> QED BY <2>1, <4>1 DEF Settled, AccountedFor, spoolVars
    <3> QED BY <2>2, <3>1, <3>2, <3>3, <3>4
  <2>7. StoreOrder' /\ Kept' /\ OperatorInv'
    BY <2>1, <2>5 DEF StoreOrder, Kept, OperatorInv, Spooled, Loads, spoolVars
  <2>8. WorkerInv'
    BY <2>1, <2>6 DEF WorkerInv, Spooled, spoolVars
  <2> QED BY <2>7, <2>8
<1>6. ASSUME NEW ok \in BOOLEAN, WarnDelayed(ok) PROVE QueueInv'
  <2>1. /\ wpc = "warn" /\ wpc' \in {"mark", "scan"}
        /\ UNCHANGED <<spoolVars, todo, cur, opStage, copies, skipped, reported, dsnLost, cancelled>>
    BY <1>6 DEF WarnDelayed, Goto
  <2>2. StoreOrder' /\ Kept' /\ OperatorInv'
    BY <2>1 DEF StoreOrder, Kept, OperatorInv, Spooled, Loads, Settled, AccountedFor, spoolVars
  <2>3. WorkerInv'
    BY <2>1 DEF WorkerInv, Spooled, spoolVars
  <2> QED BY <2>2, <2>3
<1>7. CASE SuppressEntry \/ RecordLoad \/ JudgeAge \/ MarkLoad \/ RemoveFails
  <2>1. StoreOrder' /\ Kept' /\ OperatorInv'
    BY <1>7, WorkerOnly DEF SuppressEntry, RecordLoad, JudgeAge, MarkLoad, RemoveFails
  <2>2. WorkerInv'
    BY <1>7 DEF SuppressEntry, RecordLoad, JudgeAge, MarkLoad, RemoveFails, Goto, WorkerInv,
                Spooled, Settled, AccountedFor, spoolVars, worldVars
  <2> QED BY <2>1, <2>2
<1>8. CASE RemoveEnvelope \/ RemoveMessage
  <2>1. /\ Spooled(cur) /\ Settled(cur)
        /\ wpc' \in {"unlinkEml", "scan"}
        /\ wpc' = "unlinkEml" => wpc = "unlinkEnv"
        /\ envFile' \in SUBSET envFile
        /\ UNCHANGED <<st, msg, todo, cur, opStage, worldVars>>
        /\ \A id \in Ids \ {cur} : id \in emlFile' <=> id \in emlFile
        /\ \A id \in Ids \ {cur} : id \in envFile' <=> id \in envFile
    BY <1>8 DEF RemoveEnvelope, RemoveMessage, UnlinkEnv, UnlinkEml, Goto, WorkerInv
  <2>2. \A id \in Ids : Settled(id)' <=> Settled(id)
    BY <2>1 DEF Settled, AccountedFor, worldVars
  <2>3. \A id \in Ids : Spooled(id)' <=> Spooled(id)
    BY <2>1 DEF Spooled
  <2>4. StoreOrder'
    BY <2>1, <2>3 DEF StoreOrder, Spooled, TypeOK
  <2>5. Kept'
    BY <2>1, <2>2, <2>3 DEF Kept, Loads
  <2>6. OperatorInv'
    BY <2>1, <2>3 DEF OperatorInv, worldVars
  <2>7. WorkerInv'
    BY <2>1, <2>2, <2>3 DEF WorkerInv, TypeOK, worldVars
  <2> QED BY <2>4, <2>5, <2>6, <2>7
<1>9. CASE RecordRename \/ MarkRename
  <2>1. /\ Spooled(cur)
        /\ wpc' \in {"aged", "scan"}
        /\ wpc \notin {"idle", "scan"}
        /\ envFile' = envFile \cup {cur}
        /\ UNCHANGED <<st, msg, emlFile, todo, cur, opStage, worldVars>>
    BY <1>9 DEF RecordRename, MarkRename, RenameAttempt, RenameWarned, Goto, WorkerInv
  <2>2. \A id \in Ids : Settled(id)' <=> Settled(id)
    BY <2>1 DEF Settled, AccountedFor, worldVars
  <2>3. \A id \in Ids : Spooled(id)' <=> Spooled(id)
    BY <2>1 DEF Spooled
  <2>4. StoreOrder' /\ Kept' /\ OperatorInv'
    BY <2>1, <2>2, <2>3 DEF StoreOrder, Kept, OperatorInv, Loads, worldVars, TypeOK
  <2>5. WorkerInv'
    BY <2>1, <2>3 DEF WorkerInv, TypeOK
  <2> QED BY <2>4, <2>5
<1> QED BY <1>1, <1>2, <1>3, <1>4, <1>5, <1>6, <1>7, <1>8, <1>9 DEF WorkerStep

LEMMA StepInv == QueueInv /\ [Next]_vars => QueueInv'
<1> SUFFICES ASSUME QueueInv, [Next]_vars PROVE QueueInv'
  OBVIOUS
<1>1. TypeOK'
  BY NextType DEF QueueInv
<1>2. CASE Next
  BY <1>1, <1>2, StoringInv, OperatorStepInv, FaultInv, RemoteInv, WorkerStepInv DEF Next
<1>3. CASE UNCHANGED vars
  BY <1>1, <1>3 DEF vars, QueueInv, StoreOrder, Kept, WorkerInv, OperatorInv, Spooled, Loads,
         Settled, AccountedFor, spoolVars, workerVars, worldVars
<1> QED BY <1>2, <1>3

\* No accepted message is lost silently: whatever the worker, the operators,
\* the exchangers, crashes and I/O errors do, an acknowledged message that can
\* no longer be loaded was removed by an operator or is accounted for, for
\* every recipient.
THEOREM NoLoss == Spec => []NoSilentLoss
<1>1. QueueInv => NoSilentLoss
  BY DEF QueueInv, Kept, Settled, Spooled, NoSilentLoss
<1> QED BY <1>1, InitInv, StepInv, PTL DEF Spec

(***************************************************************************)
(* The queue implements MailCustody.  WorkerHolds is what the mapping asks *)
(* for beyond QueueInv: while the worker holds an entry it loaded, only an *)
(* operator can have taken the files away.                                 *)
(***************************************************************************)
WorkerHolds ==
    wpc \in {"resolve", "talk", "rename", "markRename"} => Loads(cur) \/ cur \in cancelled

CustodyInv == QueueInv /\ WorkerHolds

\* The worker gets to a conversation or a rewrite only after a load, and only an
\* operator removes files it did not remove itself.
LEMMA HoldsStep == CustodyInv /\ [Next]_vars => CustodyInv'
<1> SUFFICES ASSUME CustodyInv, [Next]_vars PROVE WorkerHolds'
  BY StepInv DEF CustodyInv
<1> USE DEF CustodyInv, QueueInv, WorkerHolds, Loads
<1>1. ASSUME UNCHANGED <<wpc, cur>>, envFile \subseteq envFile', emlFile \subseteq emlFile',
             cancelled \subseteq cancelled'
      PROVE  WorkerHolds'
  BY <1>1
<1>2. ASSUME NEW id \in Ids, Storing(id) PROVE WorkerHolds'
  BY <1>1, <1>2 DEF Storing, StoreTmp, StoreRenameEml, StoreRenameEnv, StoreAck, workerVars, worldVars
<1>3. CASE Operator
  <2>1. ASSUME NEW id \in Ids, OperatorUnlinkEnv(id) PROVE WorkerHolds'
    BY <2>1 DEF OperatorUnlinkEnv, UnlinkEnv, workerVars
  <2>2. ASSUME NEW id \in Ids, OperatorUnlinkEml(id) PROVE WorkerHolds'
    BY <2>2 DEF OperatorUnlinkEml, UnlinkEml, OperatorInv, workerVars, worldVars
  <2>3. ASSUME UNCHANGED <<spoolVars, workerVars, worldVars>> PROVE WorkerHolds'
    BY <1>1, <2>3 DEF spoolVars, workerVars, worldVars
  <2> QED BY <1>3, <2>1, <2>2, <2>3 DEF Operator, OperatorLoad, OperatorFails, Unsuppress, UnsuppressFor
<1>4. CASE Fault \/ TimePasses
  BY <1>1, <1>4 DEF Fault, Crash, WorkerError, StoreError, StoreFails, TimePasses, Tick, Goto, spoolVars,
                    workerVars, worldVars
<1>5. CASE RemoteAnswers
  BY <1>5 DEF RemoteAnswers, RemoteAccepts, RemoteDefers, RemoteRefuses, Goto, spoolVars
<1>6. CASE WorkerStep
  <2>1. ASSUME wpc' \notin {"resolve", "talk", "rename", "markRename"} PROVE WorkerHolds'
    BY <2>1
  <2>2. ASSUME NEW id \in Ids, SkipEntry(id) \/ UnreadableEntry(id) \/ LoadEntry(id)
        PROVE WorkerHolds'
    BY <2>2 DEF SkipEntry, UnreadableEntry, LoadEntry, Goto, spoolVars
  <2>3. ASSUME NEW d \in Domains, ResolveRejects(d) \/ Connect(d) PROVE WorkerHolds'
    BY <2>3 DEF ResolveRejects, Connect, Goto, spoolVars, worldVars
  <2>4. ASSUME NEW ok \in BOOLEAN, Bounce(ok) \/ WarnDelayed(ok) PROVE WorkerHolds'
    BY <2>1, <2>4 DEF Bounce, WarnDelayed, Goto
  <2>5. CASE RecordLoad \/ MarkLoad
    BY <2>5 DEF RecordLoad, MarkLoad, Goto, spoolVars
  <2> QED BY <1>6, <2>1, <2>2, <2>3, <2>4, <2>5
       DEF WorkerStep, PassBegin, PassEnd, ResolveDefers, SuppressEntry, RemoveEnvelope,
           RemoveMessage, RemoveFails, RecordRename, JudgeAge, MarkRename, Goto
<1>7. CASE UNCHANGED vars
  BY <1>1, <1>7 DEF vars, spoolVars, workerVars, worldVars
<1> QED BY <1>2, <1>3, <1>4, <1>5, <1>6, <1>7 DEF Next

\* An entry that is settled owes nobody anything: custody may end.
LEMMA SettledReleases ==
    ASSUME TypeOK, NEW id \in Ids, Settled(id)
    PROVE  Addressed[id] \subseteq Got[id] \cup reported[id] \cup ExcusedOf[id] \/ id \in cancelled
<1> SUFFICES ASSUME NEW r \in msg[id].rcpts, AccountedFor(id, r)
             PROVE  r \in Got[id] \cup reported[id] \cup ExcusedOf[id]
  BY DEF Settled, Addressed
<1>1. r \in Recipients
  BY MessagesAssumption DEF TypeOK, SpoolTypeOK
<1> QED BY <1>1 DEF AccountedFor, Got, ExcusedOf, Excused

\* What a step must leave alone to be invisible in each abstract variable.
LEMMA HistoryFrame ==
    ASSUME UNCHANGED <<msg, copies, skipped, dsnLost>>
    PROVE  UNCHANGED <<Addressed, Got, ExcusedOf>>
BY DEF Addressed, Got, ExcusedOf, Excused

LEMMA SpoolFrame ==
    ASSUME UNCHANGED <<st, emlFile, envFile>>
    PROVE  UNCHANGED <<Taken, Confirmed, Held>>
BY DEF Taken, Confirmed, Held, Spooled, Loads

LEMMA Invisible ==
    ASSUME UNCHANGED <<st, emlFile, envFile, msg, copies, skipped, reported, dsnLost, cancelled>>
    PROVE  UNCHANGED Custody!custodyVars
BY HistoryFrame, SpoolFrame DEF Custody!custodyVars

\* The stores take custody and confirm it, in this order.
LEMMA StoringCustody ==
    ASSUME CustodyInv, NEW id \in Ids, Storing(id)
    PROVE  [Custody!Next]_Custody!custodyVars
<1> USE DEF CustodyInv, QueueInv
<1>1. UNCHANGED <<Addressed, Got, reported, ExcusedOf, cancelled>>
  BY HistoryFrame DEF Storing, StoreTmp, StoreRenameEml, StoreRenameEnv, StoreAck, worldVars
<1>2. CASE StoreTmp(id) \/ StoreRenameEml(id)
  <2>1. UNCHANGED <<Taken, Confirmed, Held>>
    BY <1>2 DEF StoreTmp, StoreRenameEml, Taken, Confirmed, Held, Spooled, Loads, TypeOK, SpoolTypeOK
  <2> QED BY <1>1, <2>1 DEF Custody!custodyVars
<1>3. CASE StoreRenameEnv(id)
  <2>1. id \notin Taken /\ Taken' = Taken \cup {id} /\ Confirmed' = Confirmed
    BY <1>3 DEF StoreRenameEnv, Taken, Confirmed, Spooled, TypeOK, SpoolTypeOK
  <2>2. Held' = Held \cup {id}
    BY <1>3 DEF StoreRenameEnv, Held, Spooled, Loads, StoreOrder, TypeOK, SpoolTypeOK
  <2>3. Custody!Take(id)
    BY <1>1, <2>1, <2>2 DEF Custody!Take
  <2> QED BY <2>3 DEF Custody!Next
<1>4. CASE StoreAck(id)
  <2>1. id \in Taken /\ Taken' = Taken /\ Held' = Held /\ Confirmed' = Confirmed \cup {id}
    BY <1>4 DEF StoreAck, Taken, Confirmed, Held, Spooled, Loads, TypeOK, SpoolTypeOK
  <2>2. Custody!Confirm(id)
    BY <1>1, <2>1 DEF Custody!Confirm
  <2> QED BY <2>2 DEF Custody!Next
<1> QED BY <1>2, <1>3, <1>4 DEF Storing

\* Unlinking one of the two files of a settled entry releases it, once.
LEMMA UnlinkCustody ==
    ASSUME CustodyInv, NEW id \in Ids, Settled(id), UnlinkEnv(id) \/ UnlinkEml(id),
           UNCHANGED worldVars
    PROVE  [Custody!Next]_Custody!custodyVars
<1>1. UNCHANGED <<Addressed, Got, reported, ExcusedOf, cancelled>>
  BY HistoryFrame DEF UnlinkEnv, UnlinkEml, worldVars
<1>2. Taken' = Taken /\ Confirmed' = Confirmed /\ Held' = Held \ {id}
  BY DEF UnlinkEnv, UnlinkEml, Taken, Confirmed, Held, Spooled, Loads
<1>3. CASE id \in Held
  <2>1. Addressed[id] \subseteq Got[id] \cup reported[id] \cup ExcusedOf[id] \/ id \in cancelled
    BY SettledReleases DEF CustodyInv, QueueInv
  <2>2. Custody!Release(id)
    BY <1>1, <1>2, <1>3, <2>1 DEF Custody!Release
  <2> QED BY <2>2 DEF Custody!Next
<1>4. CASE id \notin Held
  BY <1>1, <1>2, <1>4 DEF Custody!custodyVars
<1> QED BY <1>3, <1>4

LEMMA OperatorCustody ==
    ASSUME CustodyInv, Operator
    PROVE  [Custody!Next]_Custody!custodyVars
<1> USE DEF CustodyInv, QueueInv
<1>1. ASSUME NEW id \in Ids, OperatorUnlinkEnv(id) PROVE Custody!Withdraw(id)
  <2>1. UNCHANGED <<Addressed, Got, reported, ExcusedOf>> /\ cancelled' = cancelled \cup {id}
    BY <1>1, HistoryFrame DEF OperatorUnlinkEnv, UnlinkEnv
  <2>2. id \in Taken /\ Taken' = Taken /\ Confirmed' = Confirmed /\ Held' = Held \ {id}
    BY <1>1 DEF OperatorUnlinkEnv, UnlinkEnv, Taken, Confirmed, Held, Spooled, Loads, StoreOrder
  <2> QED BY <2>1, <2>2 DEF Custody!Withdraw
<1>2. ASSUME NEW id \in Ids, OperatorUnlinkEml(id) PROVE [Custody!Next]_Custody!custodyVars
  BY <1>2, UnlinkCustody DEF OperatorUnlinkEml, OperatorInv, Settled
<1>3. ASSUME UNCHANGED <<spoolVars, worldVars>> PROVE UNCHANGED Custody!custodyVars
  BY <1>3, Invisible DEF spoolVars, worldVars
<1> QED BY <1>1, <1>2, <1>3 DEF Operator, OperatorLoad, OperatorFails, Unsuppress, UnsuppressFor,
                                Custody!Next

\* A crash loses no custody and confirms nothing.
LEMMA FaultCustody ==
    ASSUME CustodyInv, Fault \/ TimePasses
    PROVE  UNCHANGED Custody!custodyVars
<1>1. UNCHANGED <<msg, emlFile, envFile, worldVars>>
  BY DEF Fault, Crash, WorkerError, StoreError, StoreFails, TimePasses, Tick, spoolVars
<1>2. UNCHANGED <<Addressed, Got, reported, ExcusedOf, cancelled>>
  BY <1>1, HistoryFrame DEF worldVars
<1>3. \A id \in Ids : (Spooled(id)' <=> Spooled(id)) /\ (st'[id] = "acked" <=> st[id] = "acked")
  <2>1. CASE Crash
    BY <2>1 DEF Crash, StoreCrashed, Spooled, CustodyInv, QueueInv, TypeOK, SpoolTypeOK
  <2>2. ASSUME NEW other \in Ids, StoreError(other)
        PROVE \A id \in Ids : (Spooled(id)' <=> Spooled(id)) /\ (st'[id] = "acked" <=> st[id] = "acked")
    BY <2>2 DEF StoreError, StoreFails, Spooled, CustodyInv, QueueInv, TypeOK, SpoolTypeOK
  <2>3. CASE UNCHANGED st
    BY <2>3 DEF Spooled
  <2> QED BY <2>1, <2>2, <2>3 DEF Fault, WorkerError, TimePasses, Tick, spoolVars
<1>4. UNCHANGED <<Taken, Confirmed, Held>>
  BY <1>1, <1>3 DEF Taken, Confirmed, Held, Loads
<1> QED BY <1>2, <1>4 DEF Custody!custodyVars

\* A copy more for the recipients of the conversation in hand is a delivery.
LEMMA CopyCustody ==
    ASSUME CustodyInv, NEW d \in Domains, wpc = "talk", OneMoreCopy(d),
           UNCHANGED <<spoolVars, skipped, reported, dsnLost, cancelled>>
    PROVE  Custody!Deliver(cur, Conversation(cur, d)) /\ Conversation(cur, d) \subseteq Recipients
<1> USE DEF CustodyInv, QueueInv
<1>1. cur \in Ids /\ copies \in [Ids -> [Recipients -> Nat]]
  BY DEF TypeOK
<1>2. Conversation(cur, d) \subseteq msg[cur].rcpts /\ msg[cur].rcpts \subseteq Recipients
  BY <1>1, MessagesAssumption DEF Conversation, TypeOK, SpoolTypeOK
<1>3. cur \in Held \cup cancelled
  BY <1>1 DEF WorkerHolds, WorkerInv, Held
<1>4. UNCHANGED <<Taken, Confirmed, Held, Addressed, ExcusedOf>>
  BY SpoolFrame DEF spoolVars, Addressed, ExcusedOf, Excused
<1>5. Got' = [Got EXCEPT ![cur] = @ \cup Conversation(cur, d)]
  <2>1. ASSUME NEW id \in Ids PROVE Got'[id] = [Got EXCEPT ![cur] = @ \cup Conversation(cur, d)][id]
    <3>1. CASE id = cur
      <4>1. \A r \in Recipients :
               copies'[cur][r] = IF r \in Conversation(cur, d) THEN copies[cur][r] + 1 ELSE copies[cur][r]
        BY <1>1 DEF OneMoreCopy
      <4>2. \A r \in Recipients :
               copies'[cur][r] > 0 <=> (r \in Conversation(cur, d) \/ copies[cur][r] > 0)
        BY <1>1, <4>1
      <4> QED BY <1>1, <1>2, <3>1, <4>2 DEF Got
    <3>2. CASE id # cur
      BY <1>1, <3>2 DEF OneMoreCopy, Got
    <3> QED BY <3>1, <3>2
  <2> QED BY <2>1 DEF Got
<1> QED BY <1>1, <1>2, <1>3, <1>4, <1>5 DEF Custody!Deliver, Addressed

LEMMA RemoteCustody ==
    ASSUME CustodyInv, RemoteAnswers
    PROVE  [Custody!Next]_Custody!custodyVars
<1>0. cur \in Ids
  BY DEF CustodyInv, QueueInv, TypeOK
<1>1. ASSUME NEW d \in Domains, wpc = "talk", OneMoreCopy(d),
             UNCHANGED <<spoolVars, skipped, reported, dsnLost, cancelled>>
      PROVE  Custody!Next
  BY <1>0, <1>1, CopyCustody DEF Custody!Next
<1>2. ASSUME NEW d \in Domains, RemoteAccepts(d) PROVE Custody!Next
  BY <1>1, <1>2 DEF RemoteAccepts
<1>3. ASSUME NEW d \in Domains, NEW took \in BOOLEAN, RemoteDefers(d, took)
      PROVE  [Custody!Next]_Custody!custodyVars
  <2>1. wpc = "talk" /\ (OneMoreCopy(d) \/ copies' = copies)
        /\ UNCHANGED <<spoolVars, skipped, reported, dsnLost, cancelled>>
    BY <1>3, Zenon DEF RemoteDefers
  <2> QED BY <1>1, <2>1, Invisible DEF spoolVars
<1>4. ASSUME NEW d \in Domains, RemoteRefuses(d) PROVE UNCHANGED Custody!custodyVars
  BY <1>4, Invisible DEF RemoteRefuses, spoolVars
<1> QED BY <1>2, <1>3, <1>4 DEF RemoteAnswers

\* Loading an entry finds out anew who is suppressed.
LEMMA LoadCustody ==
    ASSUME CustodyInv, NEW id \in Ids, LoadEntry(id)
    PROVE  Custody!Next
<1> USE DEF CustodyInv, QueueInv
<1>1. id \in Held
  BY DEF LoadEntry, Oldest, WorkerInv, Held
<1>2. /\ UNCHANGED <<spoolVars, copies, reported, dsnLost, cancelled>>
      /\ skipped' = [skipped EXCEPT ![id] = SuppressedFor(msg[id])]
  BY DEF LoadEntry
<1>3. UNCHANGED <<Taken, Confirmed, Held, Addressed, Got, reported, cancelled>>
  BY <1>2, SpoolFrame DEF spoolVars, Addressed, Got
<1>4. ExcusedOf' = [ExcusedOf EXCEPT ![id] = Excused(id)'] /\ Excused(id)' \subseteq Recipients
  BY <1>2 DEF ExcusedOf, Excused, spoolVars, TypeOK
<1>5. Custody!Excuse(id, Excused(id)')
  BY <1>1, <1>3, <1>4 DEF Custody!Excuse
<1> QED BY <1>4, <1>5 DEF Custody!Next

\* A notice tells the sender; one that the sink refused excuses everybody.
LEMMA BounceCustody ==
    ASSUME CustodyInv, NEW ok \in BOOLEAN, Bounce(ok)
    PROVE  [Custody!Next]_Custody!custodyVars
<1> USE DEF CustodyInv, QueueInv
<1>1. /\ wpc = "bounce" /\ cur \in Ids /\ reported \in [Ids -> SUBSET Recipients]
      /\ UNCHANGED <<spoolVars, copies, skipped, cancelled>>
  BY DEF Bounce, TypeOK
<1>2. \/ /\ Loads(cur) /\ dsnLost' = dsnLost
         /\ reported' = [reported EXCEPT ![cur] = @ \cup DsnRecipients(msg[cur])]
      \/ Loads(cur) /\ dsnLost' = dsnLost \cup {cur} /\ reported' = reported
      \/ reported' = reported /\ dsnLost' = dsnLost
  BY Zenon DEF Bounce
<1>3. UNCHANGED <<Taken, Confirmed, Held, Addressed, Got>>
  BY <1>1, SpoolFrame DEF spoolVars, Addressed, Got
<1>4. Loads(cur) => cur \in Held
  BY <1>1 DEF WorkerInv, Held
<1>5. CASE Loads(cur) /\ dsnLost' = dsnLost
           /\ reported' = [reported EXCEPT ![cur] = @ \cup DsnRecipients(msg[cur])]
  <2>1. ExcusedOf' = ExcusedOf
    BY <1>1, <1>5, HistoryFrame DEF spoolVars
  <2>2. DsnRecipients(msg[cur]) \in SUBSET Recipients
    BY <1>1, MessagesAssumption DEF DsnRecipients, TypeOK, SpoolTypeOK
  <2>3. Custody!Tell(cur, DsnRecipients(msg[cur]))
    BY <1>1, <1>3, <1>4, <1>5, <2>1 DEF Custody!Tell
  <2> QED BY <1>1, <2>2, <2>3 DEF Custody!Next
<1>6. CASE Loads(cur) /\ dsnLost' = dsnLost \cup {cur} /\ reported' = reported
  <2>1. ExcusedOf' = [ExcusedOf EXCEPT ![cur] = Recipients]
    BY <1>1, <1>6 DEF ExcusedOf, Excused, spoolVars
  <2>2. Custody!Excuse(cur, Recipients)
    BY <1>1, <1>3, <1>4, <1>6, <2>1 DEF Custody!Excuse
  <2> QED BY <1>1, <2>2 DEF Custody!Next
<1>7. CASE reported' = reported /\ dsnLost' = dsnLost
  BY <1>1, <1>7, Invisible DEF spoolVars
<1> QED BY <1>2, <1>5, <1>6, <1>7

\* A rewrite that comes after an operator's removal puts the envelope back.
LEMMA RenameCustody ==
    ASSUME CustodyInv, RecordRename \/ MarkRename
    PROVE  [Custody!Next]_Custody!custodyVars
<1> USE DEF CustodyInv, QueueInv
<1>1. /\ wpc \in {"rename", "markRename"} /\ cur \in Ids /\ Spooled(cur)
      /\ envFile' = envFile \cup {cur} /\ UNCHANGED <<st, msg, emlFile, worldVars>>
  BY DEF RecordRename, MarkRename, RenameAttempt, RenameWarned, WorkerInv, TypeOK
<1>2. UNCHANGED <<Addressed, Got, reported, ExcusedOf, cancelled>>
  BY <1>1, HistoryFrame DEF worldVars
<1>3. Taken' = Taken /\ Confirmed' = Confirmed
  BY <1>1 DEF Taken, Confirmed, Spooled
<1>4. Held' = Held \/ (cur \in cancelled /\ Held' = Held \cup {cur})
  BY <1>1 DEF Held, Spooled, Loads, WorkerHolds
<1>5. CASE Held' = Held
  BY <1>2, <1>3, <1>5 DEF Custody!custodyVars
<1>6. CASE cur \in cancelled /\ Held' = Held \cup {cur}
  <2>1. Custody!Return(cur)
    BY <1>2, <1>3, <1>6 DEF Custody!Return
  <2> QED BY <1>1, <2>1 DEF Custody!Next
<1> QED BY <1>4, <1>5, <1>6

LEMMA WorkerCustody ==
    ASSUME CustodyInv, WorkerStep
    PROVE  [Custody!Next]_Custody!custodyVars
<1>1. ASSUME UNCHANGED <<spoolVars, worldVars>> PROVE UNCHANGED Custody!custodyVars
  BY <1>1, Invisible DEF spoolVars, worldVars
<1>2. ASSUME NEW id \in Ids, SkipEntry(id) \/ UnreadableEntry(id) PROVE UNCHANGED Custody!custodyVars
  BY <1>1, <1>2 DEF SkipEntry, UnreadableEntry
<1>3. ASSUME NEW d \in Domains, ResolveRejects(d) \/ Connect(d) PROVE UNCHANGED Custody!custodyVars
  BY <1>1, <1>3 DEF ResolveRejects, Connect
<1>4. ASSUME NEW ok \in BOOLEAN, WarnDelayed(ok) PROVE UNCHANGED Custody!custodyVars
  <2>1. UNCHANGED <<spoolVars, copies, skipped, reported, dsnLost, cancelled>>
    BY <1>4 DEF WarnDelayed
  <2> QED BY <2>1, Invisible DEF spoolVars
<1>5. CASE RemoveEnvelope \/ RemoveMessage
  <2>1. cur \in Ids /\ Settled(cur) /\ (UnlinkEnv(cur) \/ UnlinkEml(cur)) /\ UNCHANGED worldVars
    BY <1>5 DEF RemoveEnvelope, RemoveMessage, CustodyInv, QueueInv, WorkerInv, TypeOK
  <2> QED BY <2>1, UnlinkCustody
<1>6. CASE PassBegin \/ PassEnd \/ ResolveDefers \/ SuppressEntry \/ RemoveFails \/ RecordLoad
           \/ JudgeAge \/ MarkLoad
  BY <1>1, <1>6 DEF PassBegin, PassEnd, ResolveDefers, SuppressEntry, RemoveFails, RecordLoad,
                    JudgeAge, MarkLoad
<1> QED BY <1>2, <1>3, <1>4, <1>5, <1>6, LoadCustody, BounceCustody, RenameCustody DEF WorkerStep

LEMMA StepCustody == CustodyInv /\ [Next]_vars => [Custody!Next]_Custody!custodyVars
<1> SUFFICES ASSUME CustodyInv, [Next]_vars PROVE [Custody!Next]_Custody!custodyVars
  OBVIOUS
<1>1. CASE UNCHANGED vars
  BY <1>1, Invisible DEF vars, spoolVars, worldVars
<1>2. CASE Next
  BY <1>2, StoringCustody, OperatorCustody, FaultCustody, RemoteCustody, WorkerCustody DEF Next
<1> QED BY <1>1, <1>2

LEMMA InitCustody == Init => Custody!Init /\ CustodyInv
<1> SUFFICES ASSUME Init PROVE Custody!Init /\ WorkerHolds
  BY InitInv DEF CustodyInv
<1>1. WorkerHolds
  BY DEF Init, WorkerHolds
<1>2. Taken = {} /\ Confirmed = {} /\ Held = {} /\ cancelled = {}
  BY DEF Init, SpoolInit, Taken, Confirmed, Held, Spooled
<1>3. Addressed \in [Ids -> SUBSET Recipients]
  BY MessagesAssumption DEF Init, SpoolInit, Addressed
<1>4. Got = [id \in Ids |-> {}] /\ reported = [id \in Ids |-> {}]
  BY DEF Init, Got
<1>5. ExcusedOf \in [Ids -> SUBSET Recipients]
  BY DEF ExcusedOf, Excused
<1> QED BY <1>1, <1>2, <1>3, <1>4, <1>5 DEF Custody!Init

\* The queue implements the custody of MailCustody for every set of messages and
\* any number of faults: no 250 before custody is taken, and no custody given up
\* while somebody is owed the message or a notice, unless an operator withdrew it.
THEOREM Refinement == Spec => KeepsCustody
<1> QED BY InitCustody, HoldsStep, StepCustody, PTL DEF Spec, KeepsCustody, Custody!Spec

-----------------------------------------------------------------------------
(* What the queue sends.  None of the bounds is inductive: an entry may    *)
(* owe its excess over the attempts and faults counted so far only to the  *)
(* round the worker is in, or because it can never be loaded again; the    *)
(* invariants below say which program points of the worker may carry it.   *)

\* The worker is at one of these points with this entry.
At(id, states) == cur = id /\ wpc \in states

\* The entry cannot be loaded and the worker will not bring it back: it is in
\* no conversation about it, and holds no envelope to rename over it.
Gone(id) ==
    Spooled(id) /\ ~Loads(id) /\ ~At(id, {"resolve", "talk", "rename", "markRename"})

\* One more than the faults allow is open: this notice, warning or copy was sent
\* in the round the worker is in, or for an entry that is gone.
BounceOpen(id) == Gone(id) \/ At(id, {"suppress", "unlinkEnv"})
WarningOpen(id) == delayWarned[id] = TRUE \/ Gone(id) \/ At(id, {"mark", "markRename"})
CopyOpen(id, r) ==
    \/ Gone(id)
    \/ At(id, {"record", "rename", "bounce", "suppress", "unlinkEnv"})
    \/ At(id, {"resolve", "talk"}) /\ DomainOf[r] \notin pending

BouncesInv ==
    \A id \in Ids : bounces[id] <= faults \/ (bounces[id] <= faults + 1 /\ BounceOpen(id))

WarningsInv ==
    \A id \in Ids : warnings[id] <= faults \/ (warnings[id] <= faults + 1 /\ WarningOpen(id))

CopiesInv ==
    \A id \in Ids, r \in Recipients :
        copies[id][r] <= attempts[id] + faults
        \/ (copies[id][r] <= attempts[id] + faults + 1 /\ CopyOpen(id, r))

Counts == BouncesInv /\ WarningsInv /\ CopiesInv

\* What is dropped and suppressed failed for good.
FailInv ==
    /\ wpc \in {"resolve", "talk"} =>
          \A d \in pending : \E r \in msg[cur].rcpts \ skipped[cur] : DomainOf[r] = d
    /\ wpc \in {"record", "rename", "aged", "warn", "mark", "markRename"} => verdict = "retry"
    /\ wpc = "suppress" \/ (wpc = "bounce" /\ verdict = "dropped") => FailedForGood(msg[cur])
    /\ SuppressedOnFailure

LedgerInv == QueueInv /\ Counts /\ FailInv

(***************************************************************************)
(* The counts.                                                             *)
(***************************************************************************)

\* A step that sends nothing keeps the counts if what was open stays open, or
\* if nothing is owed for it.
LEMMA CountsFrame ==
    ASSUME Counts, faults' = faults, UNCHANGED <<bounces, warnings, copies, attempts>>,
           \A id \in Ids : BounceOpen(id) => BounceOpen(id)',
           \A id \in Ids : WarningOpen(id) => WarningOpen(id)',
           \A id \in Ids, r \in Recipients : CopyOpen(id, r) => CopyOpen(id, r)'
    PROVE  Counts'
<1>1. BouncesInv'
  BY DEF Counts, BouncesInv
<1>2. WarningsInv'
  BY DEF Counts, WarningsInv
<1>3. CopiesInv'
  BY DEF Counts, CopiesInv
<1> QED BY <1>1, <1>2, <1>3 DEF Counts

\* A fault pays for whatever is open.
LEMMA CountsFault ==
    ASSUME TypeOK, TypeOK', Counts, faults' = faults + 1, UNCHANGED <<bounces, warnings, copies, attempts>>
    PROVE  Counts'
<1>1. BouncesInv'
  BY DEF Counts, BouncesInv, TypeOK
<1>2. WarningsInv'
  BY DEF Counts, WarningsInv, TypeOK
<1>3. CopiesInv'
  <2> SUFFICES ASSUME NEW id \in Ids, NEW r \in Recipients
               PROVE  copies'[id][r] <= attempts'[id] + faults'
    BY DEF CopiesInv
  <2>1. copies[id][r] \in Nat /\ attempts[id] \in Nat /\ faults \in Nat
    BY DEF TypeOK, SpoolTypeOK
  <2>2. copies[id][r] <= attempts[id] + faults + 1
    BY <2>1 DEF Counts, CopiesInv
  <2> QED BY <2>1, <2>2
<1> QED BY <1>1, <1>2, <1>3 DEF Counts

\* Stores, operators, the clock and the faults.
LEMMA EnvironmentCounts ==
    ASSUME QueueInv, TypeOK', Counts,
           Operator \/ Fault \/ TimePasses \/ \E id \in Ids : Storing(id)
    PROVE  Counts'
<1>0. TypeOK /\ StoreOrder
  BY DEF QueueInv
<1>1. ASSUME UNCHANGED <<cur, wpc, pending, faults, bounces, warnings, copies, attempts, delayWarned>>,
             \A id \in Ids : Spooled(id) /\ ~Loads(id) => Spooled(id)' /\ ~Loads(id)'
      PROVE  Counts'
  <2>1. \A id \in Ids : Gone(id) => Gone(id)'
    BY <1>1 DEF Gone, At
  <2>2. \A id \in Ids : BounceOpen(id) => BounceOpen(id)'
    BY <1>1, <2>1 DEF BounceOpen, At
  <2>3. \A id \in Ids : WarningOpen(id) => WarningOpen(id)'
    BY <1>1, <2>1 DEF WarningOpen, At
  <2>4. \A id \in Ids, r \in Recipients : CopyOpen(id, r) => CopyOpen(id, r)'
    BY <1>1, <2>1 DEF CopyOpen, At
  <2> QED BY <1>1, <2>2, <2>3, <2>4, CountsFrame
<1>2. ASSUME NEW id \in Ids, Storing(id) PROVE Counts'
  <2>1. \A o \in Ids : Spooled(o) /\ ~Loads(o) => Spooled(o)' /\ ~Loads(o)'
    BY <1>0, <1>2 DEF Storing, StoreTmp, StoreRenameEml, StoreRenameEnv, StoreAck, Spooled, Loads, TypeOK,
                SpoolTypeOK
  <2>2. UNCHANGED <<cur, wpc, pending, faults, bounces, warnings, copies, attempts, delayWarned>>
    BY <1>2 DEF Storing, StoreTmp, StoreRenameEml, StoreRenameEnv, StoreAck, workerVars, worldVars
  <2> QED BY <1>1, <2>1, <2>2
<1>3. ASSUME NEW id \in Ids,
             OperatorLoad(id) \/ OperatorUnlinkEnv(id) \/ OperatorUnlinkEml(id) \/ OperatorFails(id)
      PROVE  Counts'
  <2>1. \A o \in Ids : Spooled(o) /\ ~Loads(o) => Spooled(o)' /\ ~Loads(o)'
    BY <1>3 DEF OperatorLoad, OperatorUnlinkEnv, OperatorUnlinkEml, OperatorFails, UnlinkEnv, UnlinkEml,
                Spooled, Loads, spoolVars
  <2>2. UNCHANGED <<cur, wpc, pending, faults, bounces, warnings, copies, attempts, delayWarned>>
    BY <1>3 DEF OperatorLoad, OperatorUnlinkEnv, OperatorUnlinkEml, OperatorFails, UnlinkEnv, UnlinkEml,
                spoolVars, workerVars, worldVars
  <2> QED BY <1>1, <2>1, <2>2
<1>4. ASSUME UNCHANGED <<st, envFile, emlFile, workerVars, worldVars, faults, attempts, delayWarned>>
      PROVE  Counts'
  BY <1>1, <1>4 DEF workerVars, worldVars, Spooled, Loads
<1>5. CASE Operator
  BY <1>3, <1>4, <1>5 DEF Operator, Unsuppress, UnsuppressFor, spoolVars
<1>6. CASE TimePasses
  BY <1>4, <1>6 DEF TimePasses, Tick
<1>7. CASE Fault
  BY <1>0, <1>7, CountsFault DEF Fault, Crash, WorkerError, StoreError, StoreFails, OneFault, spoolVars, worldVars
<1> QED BY <1>2, <1>5, <1>6, <1>7

\* One more copy of the entry in hand, for the recipients of one conversation.
LEMMA CopyStep ==
    ASSUME QueueInv, TypeOK', Counts, NEW d \in pending, wpc = "talk", OneMoreCopy(d),
           cur' = cur, UNCHANGED <<spoolVars, bounces, warnings, faults>>,
           \/ wpc' \in {"record", "unlinkEnv"}
           \/ wpc' = "resolve" /\ pending' = pending \ {d}
    PROVE  Counts'
<1>0. TypeOK
  BY DEF QueueInv
<1>1. \A id \in Ids : Gone(id) => Gone(id)' \/ id = cur'
  BY DEF Gone, At, Spooled, Loads, spoolVars
<1>2. ~Gone(cur) /\ ~At(cur, {"suppress", "unlinkEnv"}) /\ ~At(cur, {"mark", "markRename"})
  BY DEF Gone, At
<1>3. BouncesInv'
  BY <1>1, <1>2 DEF Counts, BouncesInv, BounceOpen, At
<1>4. WarningsInv'
  BY <1>1, <1>2 DEF Counts, WarningsInv, WarningOpen, At, spoolVars
<1>5. CopiesInv'
  <2> SUFFICES ASSUME NEW id \in Ids, NEW r \in Recipients
               PROVE  \/ copies'[id][r] <= attempts'[id] + faults'
                      \/ copies'[id][r] <= attempts'[id] + faults' + 1 /\ CopyOpen(id, r)'
    BY DEF CopiesInv
  <2>1. copies[id][r] \in Nat /\ attempts[id] \in Nat /\ faults \in Nat /\ attempts' = attempts
    BY <1>0 DEF TypeOK, SpoolTypeOK, spoolVars
  <2>2. \/ copies[id][r] <= attempts[id] + faults
        \/ copies[id][r] <= attempts[id] + faults + 1 /\ CopyOpen(id, r)
    BY DEF Counts, CopiesInv
  <2>3. CASE id # cur
    <3>1. copies'[id][r] = copies[id][r]
      BY <1>0, <2>3 DEF OneMoreCopy, TypeOK
    <3>2. CopyOpen(id, r) => CopyOpen(id, r)'
      BY <1>1, <2>3 DEF CopyOpen, At
    <3> QED BY <2>1, <2>2, <3>1, <3>2
  <2>4. CASE id = cur /\ DomainOf[r] = d
    <3>1. copies[id][r] <= attempts[id] + faults
      BY <1>2, <2>2, <2>4 DEF CopyOpen, At
    <3>2. copies'[id][r] <= copies[id][r] + 1
      BY <1>0, <2>1, <2>4 DEF OneMoreCopy, TypeOK
    <3>3. CopyOpen(id, r)'
      BY <2>4 DEF CopyOpen, At
    <3>4. copies'[id][r] \in Nat
      BY DEF TypeOK
    <3> QED BY <2>1, <3>1, <3>2, <3>3, <3>4
  <2>5. CASE id = cur /\ DomainOf[r] # d
    <3>1. copies'[id][r] = copies[id][r]
      BY <1>0, <2>5 DEF OneMoreCopy, Conversation, TypeOK
    <3>2. CopyOpen(id, r) => CopyOpen(id, r)'
      BY <1>2, <2>5 DEF CopyOpen, At
    <3> QED BY <2>1, <2>2, <3>1, <3>2
  <2> QED BY <2>3, <2>4, <2>5
<1> QED BY <1>3, <1>4, <1>5 DEF Counts

\* A step of the worker that sends nothing and leaves the spool alone.
LEMMA QuietStep ==
    ASSUME Counts, UNCHANGED <<spoolVars, bounces, warnings, copies, faults>>,
           \A id \in Ids : Gone(id) => Gone(id)',
           \A id \in Ids : At(id, {"suppress", "unlinkEnv"}) => BounceOpen(id)',
           \A id \in Ids : At(id, {"mark", "markRename"}) => WarningOpen(id)',
           \A id \in Ids, r \in Recipients : CopyOpen(id, r) => CopyOpen(id, r)'
    PROVE  Counts'
<1>1. \A id \in Ids : BounceOpen(id) => BounceOpen(id)'
  BY DEF BounceOpen
<1>2. \A id \in Ids : WarningOpen(id) => WarningOpen(id)'
  BY DEF WarningOpen, spoolVars
<1>3. UNCHANGED <<bounces, warnings, copies, attempts>> /\ faults' = faults
  BY DEF spoolVars
<1> QED BY <1>1, <1>2, <1>3, CountsFrame

LEMMA RemoteCounts ==
    ASSUME QueueInv, TypeOK', Counts, RemoteAnswers
    PROVE  Counts'
<1> PICK d \in Domains : \/ RemoteAccepts(d)
                         \/ \E taken \in BOOLEAN : RemoteDefers(d, taken)
                         \/ RemoteRefuses(d)
  BY DEF RemoteAnswers
<1>1. CASE RemoteAccepts(d)
  BY <1>1, CopyStep DEF RemoteAccepts, Oldest, Goto
<1>2. ASSUME copies' = copies, wpc = "talk", wpc' \in {"record", "bounce"},
             UNCHANGED <<cur, spoolVars, bounces, warnings, faults>>
      PROVE  Counts'
  <2>1. \A id \in Ids : Gone(id) => Gone(id)'
    BY <1>2 DEF Gone, At, Spooled, Loads, spoolVars
  <2>2. \A id \in Ids : ~At(id, {"suppress", "unlinkEnv"}) /\ ~At(id, {"mark", "markRename"})
    BY <1>2 DEF At
  <2>3. \A id \in Ids, r \in Recipients : CopyOpen(id, r) => CopyOpen(id, r)'
    BY <1>2, <2>1 DEF CopyOpen, At
  <2> QED BY <1>2, <2>1, <2>2, <2>3, QuietStep
<1>3. CASE RemoteRefuses(d)
  BY <1>2, <1>3 DEF RemoteRefuses, Goto
<1>4. ASSUME RemoteDefers(d, TRUE) PROVE Counts'
  BY <1>4, CopyStep DEF RemoteDefers, Oldest, Goto
<1>5. ASSUME RemoteDefers(d, FALSE) PROVE Counts'
  BY <1>2, <1>5 DEF RemoteDefers, Goto
<1> QED BY <1>1, <1>3, <1>4, <1>5

\* The steps of the worker.
LEMMA WorkerCounts ==
    ASSUME QueueInv, TypeOK', Counts, WorkerStep
    PROVE  Counts'
<1>0. TypeOK /\ (wpc \notin {"idle", "scan"} => Spooled(cur))
  BY DEF QueueInv, WorkerInv
<1> DEFINE Holding == {"resolve", "talk", "rename", "markRename"}
<1>1. ASSUME UNCHANGED <<spoolVars, bounces, warnings, copies, faults>>,
             wpc \in {"idle", "scan"}, wpc' \notin Holding
      PROVE  Counts'
  <2>1. \A id \in Ids : Gone(id) => Gone(id)'
    BY <1>1 DEF Gone, At, Spooled, Loads, spoolVars
  <2>2. \A id \in Ids, r \in Recipients : CopyOpen(id, r) => CopyOpen(id, r)'
    BY <1>1, <2>1 DEF CopyOpen, At
  <2>3. \A id \in Ids : ~At(id, {"suppress", "unlinkEnv"}) /\ ~At(id, {"mark", "markRename"})
    BY <1>1 DEF At
  <2> QED BY <1>1, <2>1, <2>2, <2>3, QuietStep
<1>2. CASE PassBegin \/ PassEnd
  BY <1>1, <1>2 DEF PassBegin, PassEnd, Goto, worldVars
<1>3. ASSUME NEW id \in Ids, SkipEntry(id) \/ UnreadableEntry(id) PROVE Counts'
  BY <1>1, <1>3 DEF SkipEntry, UnreadableEntry, Goto, worldVars
<1>4. ASSUME NEW id \in Ids, LoadEntry(id) PROVE Counts'
  <2>1. /\ wpc = "scan" /\ Loads(id) /\ cur' = id
        /\ UNCHANGED <<spoolVars, bounces, warnings, copies, faults>>
    BY <1>4 DEF LoadEntry
  <2>2. \A o \in Ids : Gone(o) => Gone(o)'
    BY <2>1 DEF Gone, At, Spooled, Loads, spoolVars
  <2>3. \A o \in Ids, r \in Recipients : CopyOpen(o, r) => CopyOpen(o, r)'
    BY <2>1, <2>2 DEF CopyOpen, At
  <2>4. \A o \in Ids : ~At(o, {"suppress", "unlinkEnv"}) /\ ~At(o, {"mark", "markRename"})
    BY <2>1 DEF At
  <2> QED BY <2>1, <2>2, <2>3, <2>4, QuietStep
<1>5. ASSUME UNCHANGED <<spoolVars, bounces, warnings, copies, faults, cur>>, wpc = "resolve",
             wpc' \in {"record", "bounce"} \/ (wpc' = "talk" /\ pending' = pending)
      PROVE  Counts'
  <2>1. \A id \in Ids : Gone(id) => Gone(id)'
    BY <1>5 DEF Gone, At, Spooled, Loads, spoolVars
  <2>2. \A id \in Ids, r \in Recipients : CopyOpen(id, r) => CopyOpen(id, r)'
    BY <1>5, <2>1 DEF CopyOpen, At
  <2>3. \A id \in Ids : ~At(id, {"suppress", "unlinkEnv"}) /\ ~At(id, {"mark", "markRename"})
    BY <1>5 DEF At
  <2> QED BY <1>5, <2>1, <2>2, <2>3, QuietStep
<1>6. ASSUME ResolveDefers \/ \E d \in Domains : ResolveRejects(d) \/ Connect(d) PROVE Counts'
  BY <1>5, <1>6 DEF ResolveDefers, ResolveRejects, Connect, Goto, worldVars
<1>7. ASSUME NEW ok \in BOOLEAN, Bounce(ok) PROVE Counts'
  <2>1. /\ wpc = "bounce" /\ wpc' \in {"suppress", "unlinkEnv"}
        /\ UNCHANGED <<spoolVars, cur, warnings, copies, faults>>
    BY <1>7 DEF Bounce, Goto
  <2>2. \A id \in Ids : Gone(id) => Gone(id)'
    BY <2>1 DEF Gone, At, Spooled, Loads, spoolVars
  <2>3. WarningsInv'
    BY <2>1, <2>2 DEF Counts, WarningsInv, WarningOpen, At, spoolVars
  <2>4. CopiesInv'
    <3>1. \A id \in Ids, r \in Recipients : CopyOpen(id, r) => CopyOpen(id, r)'
      BY <2>1, <2>2 DEF CopyOpen, At
    <3>2. UNCHANGED <<copies, attempts, faults>>
      BY <2>1 DEF spoolVars
    <3> QED BY <3>1, <3>2 DEF Counts, CopiesInv
  <2>5. BouncesInv'
    <3>1. bounces' = bounces \/ (Loads(cur) /\ bounces' = [bounces EXCEPT ![cur] = @ + 1])
      BY <1>7, Zenon DEF Bounce
    <3>2. \A id \in Ids : BounceOpen(id) => BounceOpen(id)'
      BY <2>1, <2>2 DEF BounceOpen, At
    <3>3. CASE bounces' = bounces
      BY <2>1, <3>2, <3>3 DEF Counts, BouncesInv
    <3>4. CASE Loads(cur) /\ bounces' = [bounces EXCEPT ![cur] = @ + 1]
      <4>1. bounces[cur] <= faults /\ BounceOpen(cur)'
        BY <1>0, <2>1, <3>4 DEF Counts, BouncesInv, BounceOpen, Gone, At, TypeOK
      <4>2. bounces[cur] \in Nat /\ faults \in Nat /\ bounces'[cur] = bounces[cur] + 1
        BY <1>0, <3>4 DEF TypeOK
      <4>3. \A id \in Ids \ {cur} : bounces'[id] = bounces[id]
        BY <1>0, <3>4 DEF TypeOK
      <4> QED BY <2>1, <3>2, <4>1, <4>2, <4>3 DEF Counts, BouncesInv
    <3> QED BY <3>1, <3>3, <3>4
  <2> QED BY <2>3, <2>4, <2>5 DEF Counts
<1>8. ASSUME NEW ok \in BOOLEAN, WarnDelayed(ok) PROVE Counts'
  <2>1. /\ wpc = "warn" /\ wpc' \in {"mark", "scan"}
        /\ UNCHANGED <<spoolVars, cur, bounces, copies, faults>>
    BY <1>8 DEF WarnDelayed, Goto
  <2>2. \A id \in Ids : Gone(id) => Gone(id)'
    BY <2>1 DEF Gone, At, Spooled, Loads, spoolVars
  <2>3. BouncesInv'
    BY <2>1, <2>2 DEF Counts, BouncesInv, BounceOpen, At
  <2>4. CopiesInv'
    <3>1. \A id \in Ids, r \in Recipients : CopyOpen(id, r) => CopyOpen(id, r)'
      BY <2>1, <2>2 DEF CopyOpen, At
    <3>2. UNCHANGED <<copies, attempts, faults>>
      BY <2>1 DEF spoolVars
    <3> QED BY <3>1, <3>2 DEF Counts, CopiesInv
  <2>5. WarningsInv'
    <3>1. \/ warnings' = warnings
          \/ /\ Loads(cur) /\ delayWarned[cur] # TRUE /\ wpc' = "mark"
             /\ warnings' = [warnings EXCEPT ![cur] = @ + 1]
      BY <1>0, <1>8, Zenon DEF WarnDelayed, Goto, TypeOK, SpoolTypeOK
    <3>2. \A id \in Ids : WarningOpen(id) => WarningOpen(id)'
      BY <2>1, <2>2 DEF WarningOpen, At, spoolVars
    <3>3. CASE warnings' = warnings
      BY <2>1, <3>2, <3>3 DEF Counts, WarningsInv
    <3>4. CASE /\ Loads(cur) /\ delayWarned[cur] # TRUE /\ wpc' = "mark"
               /\ warnings' = [warnings EXCEPT ![cur] = @ + 1]
      <4>1. warnings[cur] <= faults /\ WarningOpen(cur)'
        BY <1>0, <2>1, <3>4 DEF Counts, WarningsInv, WarningOpen, Gone, At, TypeOK
      <4>2. warnings[cur] \in Nat /\ faults \in Nat /\ warnings'[cur] = warnings[cur] + 1
        BY <1>0, <3>4 DEF TypeOK
      <4>3. \A id \in Ids \ {cur} : warnings'[id] = warnings[id]
        BY <1>0, <3>4 DEF TypeOK
      <4> QED BY <2>1, <3>2, <4>1, <4>2, <4>3 DEF Counts, WarningsInv
    <3> QED BY <3>1, <3>3, <3>4
  <2> QED BY <2>3, <2>4, <2>5 DEF Counts
<1>9. CASE SuppressEntry \/ RecordLoad \/ JudgeAge \/ MarkLoad \/ RemoveFails
  <2>1. UNCHANGED <<spoolVars, bounces, warnings, copies, faults, cur>>
    BY <1>9 DEF SuppressEntry, RecordLoad, JudgeAge, MarkLoad, RemoveFails, worldVars
  <2>2. \/ wpc = "suppress" /\ wpc' = "unlinkEnv"
        \/ wpc = "record" /\ ((Loads(cur) /\ wpc' = "rename") \/ (~Loads(cur) /\ wpc' = "aged"))
        \/ wpc = "aged" /\ wpc' \in {"bounce", "warn", "scan"}
        \/ wpc = "mark" /\ ((Loads(cur) /\ wpc' = "markRename") \/ (~Loads(cur) /\ wpc' = "scan"))
        \/ wpc \in {"unlinkEnv", "unlinkEml"} /\ ~Loads(cur) /\ wpc' = "idle"
    BY <1>9 DEF SuppressEntry, RecordLoad, JudgeAge, MarkLoad, RemoveFails, Goto, Loads
  <2>3. \A id \in Ids : Gone(id) => Gone(id)'
    BY <2>1, <2>2 DEF Gone, At, Spooled, Loads, spoolVars
  <2>4. \A id \in Ids : At(id, {"suppress", "unlinkEnv"}) => BounceOpen(id)'
    BY <1>0, <2>1, <2>2 DEF BounceOpen, Gone, At, Spooled, Loads, spoolVars
  <2>5. \A id \in Ids : At(id, {"mark", "markRename"}) => WarningOpen(id)'
    BY <1>0, <2>1, <2>2 DEF WarningOpen, Gone, At, Spooled, Loads, spoolVars
  <2>6. \A id \in Ids, r \in Recipients : CopyOpen(id, r) => CopyOpen(id, r)'
    BY <1>0, <2>1, <2>2, <2>3 DEF CopyOpen, Gone, At, Spooled, Loads, spoolVars
  <2> QED BY <2>1, <2>3, <2>4, <2>5, <2>6, QuietStep
<1>10. CASE RemoveEnvelope \/ RemoveMessage
  <2>1. /\ wpc \in {"unlinkEnv", "unlinkEml"} /\ wpc' \in {"unlinkEml", "scan"}
        /\ Spooled(cur) /\ ~Loads(cur)'
        /\ UNCHANGED <<st, cur, attempts, delayWarned, bounces, warnings, copies, faults>>
        /\ \A id \in Ids : Loads(id)' => Loads(id)
    BY <1>0, <1>10 DEF RemoveEnvelope, RemoveMessage, UnlinkEnv, UnlinkEml, Goto, Loads, worldVars
  <2>2. \A id \in Ids : Gone(id) => Gone(id)'
    BY <2>1 DEF Gone, At, Spooled
  <2>3. Gone(cur)'
    BY <2>1 DEF Gone, At, Spooled
  <2>4. \A id \in Ids : BounceOpen(id) => BounceOpen(id)'
    BY <2>1, <2>2, <2>3 DEF BounceOpen, At
  <2>5. \A id \in Ids : WarningOpen(id) => WarningOpen(id)'
    BY <2>1, <2>2, <2>3 DEF WarningOpen, At
  <2>6. \A id \in Ids, r \in Recipients : CopyOpen(id, r) => CopyOpen(id, r)'
    BY <2>1, <2>2, <2>3 DEF CopyOpen, At
  <2> QED BY <2>1, <2>4, <2>5, <2>6, CountsFrame
<1>11. CASE RecordRename
  <2>1. /\ wpc = "rename" /\ wpc' = "aged" /\ envFile' = envFile \cup {cur}
        /\ attempts' = [attempts EXCEPT ![cur] = @ + 1]
        /\ UNCHANGED <<st, emlFile, cur, delayWarned, bounces, warnings, copies, faults>>
    BY <1>11 DEF RecordRename, RenameAttempt, Goto, worldVars
  <2>2. \A id \in Ids : Gone(id) => Gone(id)'
    BY <2>1 DEF Gone, At, Spooled, Loads
  <2>3. BouncesInv'
    BY <2>1, <2>2 DEF Counts, BouncesInv, BounceOpen, At
  <2>4. WarningsInv'
    BY <2>1, <2>2 DEF Counts, WarningsInv, WarningOpen, At
  <2>5. CopiesInv'
    <3> SUFFICES ASSUME NEW id \in Ids, NEW r \in Recipients
                 PROVE  \/ copies'[id][r] <= attempts'[id] + faults'
                        \/ copies'[id][r] <= attempts'[id] + faults' + 1 /\ CopyOpen(id, r)'
      BY DEF CopiesInv
    <3>1. copies[id][r] \in Nat /\ attempts[id] \in Nat /\ faults \in Nat
      BY <1>0 DEF TypeOK, SpoolTypeOK
    <3>2. \/ copies[id][r] <= attempts[id] + faults
          \/ copies[id][r] <= attempts[id] + faults + 1 /\ CopyOpen(id, r)
      BY DEF Counts, CopiesInv
    <3>3. CASE id = cur
      <4>1. attempts'[id] = attempts[id] + 1
        BY <1>0, <2>1, <3>3 DEF TypeOK, SpoolTypeOK
      <4> QED BY <2>1, <3>1, <3>2, <4>1
    <3>4. CASE id # cur
      <4>1. attempts'[id] = attempts[id]
        BY <1>0, <2>1, <3>4 DEF TypeOK, SpoolTypeOK
      <4>2. CopyOpen(id, r) => CopyOpen(id, r)'
        BY <2>1, <2>2, <3>4 DEF CopyOpen, At
      <4> QED BY <2>1, <3>1, <3>2, <4>1, <4>2
    <3> QED BY <3>3, <3>4
  <2> QED BY <2>3, <2>4, <2>5 DEF Counts
<1>12. CASE MarkRename
  <2>1. /\ wpc = "markRename" /\ wpc' = "scan" /\ envFile' = envFile \cup {cur}
        /\ delayWarned' = [delayWarned EXCEPT ![cur] = TRUE]
        /\ UNCHANGED <<st, emlFile, cur, attempts, bounces, warnings, copies, faults>>
    BY <1>12 DEF MarkRename, RenameWarned, Goto, worldVars
  <2>2. \A id \in Ids : Gone(id) => Gone(id)'
    BY <2>1 DEF Gone, At, Spooled, Loads
  <2>3. \A id \in Ids : BounceOpen(id) => BounceOpen(id)'
    BY <2>1, <2>2 DEF BounceOpen, At
  <2>4. \A id \in Ids : WarningOpen(id) => WarningOpen(id)'
    BY <1>0, <2>1, <2>2 DEF WarningOpen, At, TypeOK, SpoolTypeOK
  <2>5. \A id \in Ids, r \in Recipients : CopyOpen(id, r) => CopyOpen(id, r)'
    BY <2>1, <2>2 DEF CopyOpen, At
  <2> QED BY <2>1, <2>3, <2>4, <2>5, CountsFrame
<1> QED BY <1>2, <1>3, <1>4, <1>6, <1>7, <1>8, <1>9, <1>10, <1>11, <1>12 DEF WorkerStep

(***************************************************************************)
(* Who is suppressed.                                                      *)
(***************************************************************************)

\* A step that leaves the worker where it is.
LEMMA EnvironmentFail ==
    ASSUME FailInv, Operator \/ Fault \/ TimePasses \/ \E id \in Ids : Storing(id)
    PROVE  FailInv'
<1>1. ASSUME UNCHANGED <<wpc, cur, pending, verdict, skipped, msg, refused>>, suppressed' \subseteq suppressed
      PROVE  FailInv'
  BY <1>1 DEF FailInv, SuppressedOnFailure, FailedForGood
<1>2. ASSUME NEW id \in Ids, Storing(id) PROVE FailInv'
  BY <1>1, <1>2 DEF Storing, StoreTmp, StoreRenameEml, StoreRenameEnv, StoreAck, workerVars, listVars,
                    worldVars
<1>3. CASE Operator
  BY <1>1, <1>3 DEF Operator, OperatorLoad, OperatorUnlinkEnv, OperatorUnlinkEml, OperatorFails,
                    Unsuppress, UnsuppressFor, UnlinkEnv, UnlinkEml, spoolVars, workerVars, listVars, worldVars
<1>4. CASE TimePasses
  BY <1>1, <1>4 DEF TimePasses, Tick, workerVars, listVars, worldVars
<1>5. ASSUME NEW id \in Ids, StoreError(id) PROVE FailInv'
  BY <1>1, <1>5 DEF StoreError, StoreFails, workerVars, listVars, worldVars
<1>6. ASSUME UNCHANGED <<cur, msg, refused, suppressed, verdict>>,
             wpc' \in {"idle", "scan"} \/ (wpc = "rename" /\ wpc' = "aged")
      PROVE  FailInv'
  BY <1>6 DEF FailInv, SuppressedOnFailure, FailedForGood
<1>7. CASE WorkerError
  BY <1>6, <1>7 DEF WorkerError, Goto, spoolVars, listVars, worldVars
<1>8. CASE Crash
  BY <1>8 DEF Crash, FailInv, SuppressedOnFailure, FailedForGood, listVars, worldVars
<1> QED BY <1>2, <1>3, <1>4, <1>5, <1>7, <1>8 DEF Fault

LEMMA RemoteFail ==
    ASSUME QueueInv, FailInv, RemoteAnswers
    PROVE  FailInv'
<1>0. TypeOK
  BY DEF QueueInv
<1> PICK d \in Domains : \/ RemoteAccepts(d)
                         \/ \E taken \in BOOLEAN : RemoteDefers(d, taken)
                         \/ RemoteRefuses(d)
  BY DEF RemoteAnswers
<1>1. UNCHANGED <<cur, msg, skipped, suppressed>> /\ wpc = "talk" /\ d \in pending
  BY DEF RemoteAccepts, RemoteDefers, RemoteRefuses, Oldest, spoolVars, listVars
<1>2. CASE RemoteAccepts(d)
  <2>1. /\ refused' = refused /\ pending' \subseteq pending
        /\ wpc' \in {"unlinkEnv", "resolve"}
    BY <1>2 DEF RemoteAccepts, Goto
  <2> QED BY <1>1, <2>1 DEF FailInv, SuppressedOnFailure, FailedForGood
<1>3. ASSUME NEW taken \in BOOLEAN, RemoteDefers(d, taken) PROVE FailInv'
  <2>1. refused' = refused /\ verdict' = "retry" /\ wpc' = "record"
    BY <1>3, Zenon DEF RemoteDefers, Goto
  <2> QED BY <1>1, <2>1 DEF FailInv, SuppressedOnFailure, FailedForGood
<1>4. CASE RemoteRefuses(d)
  <2>1. refused' = refused \cup Conversation(cur, d) /\ wpc' = "bounce"
    BY <1>4 DEF RemoteRefuses, Goto
  <2>2. PICK r \in msg[cur].rcpts \ skipped[cur] : DomainOf[r] = d
    BY <1>1 DEF FailInv
  <2>3. r \in Conversation(cur, d)
    BY <2>2 DEF Conversation
  <2>4. FailedForGood(msg[cur])'
    BY <1>1, <2>1, <2>2, <2>3 DEF FailedForGood
  <2>5. \A m : FailedForGood(m) => FailedForGood(m)'
    BY <2>1 DEF FailedForGood
  <2>6. SuppressedOnFailure'
    BY <1>1, <2>5 DEF FailInv, SuppressedOnFailure
  <2> QED BY <1>1, <2>1, <2>4, <2>6 DEF FailInv
<1> QED BY <1>2, <1>3, <1>4

LEMMA WorkerFail ==
    ASSUME QueueInv, FailInv, WorkerStep
    PROVE  FailInv'
<1>0. TypeOK
  BY DEF QueueInv
<1> USE DEF Goto, spoolVars, listVars, worldVars
<1>1. ASSUME UNCHANGED <<msg, refused, suppressed>>,
             wpc' \in {"idle", "scan", "unlinkEnv", "unlinkEml"}
      PROVE  FailInv'
  BY <1>1 DEF FailInv, SuppressedOnFailure, FailedForGood
<1>2. ASSUME UNCHANGED <<msg, refused, suppressed>>, verdict' = "retry",
             wpc' \in {"record", "rename", "aged", "warn", "mark", "markRename", "bounce"}
      PROVE  FailInv'
  BY <1>2 DEF FailInv, SuppressedOnFailure, FailedForGood
<1>3. CASE PassBegin \/ PassEnd \/ RemoveEnvelope \/ RemoveMessage \/ RemoveFails
  BY <1>1, <1>3 DEF PassBegin, PassEnd, RemoveEnvelope, RemoveMessage, RemoveFails, UnlinkEnv, UnlinkEml
<1>4. ASSUME NEW id \in Ids, SkipEntry(id) PROVE FailInv'
  BY <1>1, <1>4 DEF SkipEntry
<1>5. ASSUME NEW id \in Ids, UnreadableEntry(id) PROVE FailInv'
  BY <1>2, <1>5 DEF UnreadableEntry
<1>6. ASSUME NEW id \in Ids, LoadEntry(id) PROVE FailInv'
  <2> DEFINE wanted == msg[id].rcpts \ SuppressedFor(msg[id])
  <2>1. /\ UNCHANGED <<msg, refused, suppressed>> /\ cur' = id
        /\ skipped' = [skipped EXCEPT ![id] = SuppressedFor(msg[id])]
        /\ \/ wpc' = "unlinkEnv"
           \/ wanted \cap Unparseable # {} /\ wpc' = "bounce"
           \/ pending' = {DomainOf[r] : r \in wanted} /\ wpc' = "resolve"
    BY <1>6 DEF LoadEntry
  <2>2. SuppressedOnFailure'
    BY <2>1 DEF FailInv, SuppressedOnFailure, FailedForGood
  <2>3. CASE wpc' = "unlinkEnv"
    BY <1>1, <2>1, <2>3
  <2>4. CASE wanted \cap Unparseable # {} /\ wpc' = "bounce"
    <3>1. FailedForGood(msg[cur])'
      BY <2>1, <2>4 DEF FailedForGood
    <3> QED BY <2>2, <2>4, <3>1 DEF FailInv
  <2>5. CASE pending' = {DomainOf[r] : r \in wanted} /\ wpc' = "resolve"
    <3>1. skipped'[id] = SuppressedFor(msg[id])
      BY <1>0, <2>1 DEF TypeOK
    <3> QED BY <2>1, <2>2, <2>5, <3>1 DEF FailInv
  <2> QED BY <2>1, <2>3, <2>4, <2>5
<1>7. CASE ResolveDefers
  BY <1>2, <1>7 DEF ResolveDefers
<1>8. ASSUME NEW d \in Domains, ResolveRejects(d) PROVE FailInv'
  <2>1. /\ wpc = "resolve" /\ wpc' = "bounce" /\ d \in pending /\ d \in FailDomains \cup RelayDomains
        /\ UNCHANGED <<cur, msg, skipped, refused, suppressed>>
    BY <1>8 DEF ResolveRejects, Oldest
  <2>2. FailedForGood(msg[cur])'
    BY <2>1 DEF FailInv, FailedForGood
  <2> QED BY <2>1, <2>2 DEF FailInv, SuppressedOnFailure, FailedForGood
<1>9. ASSUME NEW d \in Domains, Connect(d) PROVE FailInv'
  BY <1>9 DEF Connect, FailInv, SuppressedOnFailure, FailedForGood
<1>10. ASSUME NEW ok \in BOOLEAN, Bounce(ok) PROVE FailInv'
  <2>1. /\ wpc = "bounce" /\ wpc' = IF verdict = "dropped" THEN "suppress" ELSE "unlinkEnv"
        /\ UNCHANGED <<cur, msg, refused, suppressed>>
    BY <1>10 DEF Bounce
  <2> QED BY <2>1 DEF FailInv, SuppressedOnFailure, FailedForGood
<1>11. ASSUME NEW ok \in BOOLEAN, WarnDelayed(ok) PROVE FailInv'
  <2>1. /\ wpc = "warn" /\ wpc' \in {"mark", "scan"} /\ verdict' = verdict
        /\ UNCHANGED <<cur, msg, refused, suppressed>>
    BY <1>11 DEF WarnDelayed
  <2>2. verdict' = "retry"
    BY <2>1 DEF FailInv
  <2> QED BY <1>1, <1>2, <2>1, <2>2
<1>12. CASE SuppressEntry
  <2>1. /\ wpc = "suppress" /\ wpc' = "unlinkEnv" /\ UNCHANGED <<cur, msg, refused>>
        /\ suppressed' \subseteq suppressed \cup msg[cur].rcpts
    BY <1>12 DEF SuppressEntry
  <2>2. FailedForGood(msg[cur]) /\ cur \in Ids
    BY <1>0, <2>1 DEF FailInv, TypeOK
  <2>3. SuppressedOnFailure'
    BY <2>1, <2>2 DEF FailInv, SuppressedOnFailure, FailedForGood
  <2> QED BY <2>1, <2>3 DEF FailInv
<1>13. CASE RecordLoad \/ RecordRename \/ JudgeAge \/ MarkLoad \/ MarkRename
  <2>1. /\ wpc \in {"record", "rename", "aged", "mark", "markRename"} /\ verdict' = verdict
        /\ wpc' \in {"record", "rename", "aged", "warn", "mark", "markRename", "bounce", "scan"}
        /\ UNCHANGED <<cur, msg, refused, suppressed>>
    BY <1>13 DEF RecordLoad, RecordRename, JudgeAge, MarkLoad, MarkRename, RenameAttempt, RenameWarned
  <2>2. verdict' = "retry"
    BY <2>1 DEF FailInv
  <2> QED BY <1>1, <1>2, <2>1, <2>2
<1> QED BY <1>3, <1>4, <1>5, <1>6, <1>7, <1>8, <1>9, <1>10, <1>11, <1>12, <1>13 DEF WorkerStep

(***************************************************************************)
(* The ledger, and what follows from it.                                   *)
(***************************************************************************)
LEMMA LedgerInit == Init => LedgerInv
<1> SUFFICES ASSUME Init PROVE LedgerInv
  OBVIOUS
<1>1. QueueInv
  BY InitInv
<1>2. Counts
  BY DEF Init, SpoolInit, Counts, BouncesInv, WarningsInv, CopiesInv
<1>3. FailInv
  BY DEF Init, FailInv, SuppressedOnFailure
<1> QED BY <1>1, <1>2, <1>3 DEF LedgerInv

LEMMA LedgerStep == LedgerInv /\ [Next]_vars => LedgerInv'
<1> SUFFICES ASSUME LedgerInv, [Next]_vars PROVE LedgerInv'
  OBVIOUS
<1>1. QueueInv /\ QueueInv' /\ TypeOK'
  BY StepInv DEF LedgerInv, QueueInv
<1>2. Counts'
  <2>1. CASE UNCHANGED vars
    BY <2>1 DEF LedgerInv, Counts, BouncesInv, WarningsInv, CopiesInv, BounceOpen, WarningOpen, CopyOpen,
                Gone, At, Spooled, Loads, vars, spoolVars, workerVars, worldVars
  <2>2. CASE Next
    BY <1>1, <2>2, EnvironmentCounts, RemoteCounts, WorkerCounts DEF Next, LedgerInv
  <2> QED BY <2>1, <2>2
<1>3. FailInv'
  <2>1. CASE UNCHANGED vars
    BY <2>1 DEF LedgerInv, FailInv, SuppressedOnFailure, FailedForGood, vars, spoolVars, workerVars, listVars,
                worldVars
  <2>2. CASE Next
    BY <1>1, <2>2, EnvironmentFail, RemoteFail, WorkerFail DEF Next, LedgerInv
  <2> QED BY <2>1, <2>2
<1> QED BY <1>1, <1>2, <1>3 DEF LedgerInv

\* A sender hears of a failure once, and once more for each fault, and only
\* the recipients of an entry that failed for good are suppressed (the arms of
\* pass, bounce, suppress_entry, warn_delayed).
THEOREM Handled == Spec => []FailureHandled
<1>1. LedgerInv => FailureHandled
  <2> SUFFICES ASSUME LedgerInv, NEW id \in Ids
               PROVE  bounces[id] <= 1 + faults /\ warnings[id] <= 1 + faults
    BY DEF LedgerInv, FailInv, FailureHandled, NoticesOnce
  <2>1. bounces[id] \in Nat /\ warnings[id] \in Nat /\ faults \in Nat
    BY DEF LedgerInv, QueueInv, TypeOK
  <2>2. bounces[id] <= faults \/ bounces[id] <= faults + 1
    BY DEF LedgerInv, Counts, BouncesInv
  <2>3. warnings[id] <= faults \/ warnings[id] <= faults + 1
    BY DEF LedgerInv, Counts, WarningsInv
  <2> QED BY <2>1, <2>2, <2>3
<1> QED BY <1>1, LedgerInit, LedgerStep, PTL DEF Spec

\* A recipient gets one copy for each recorded attempt, one for the last, and
\* one for each fault, and no more (deliver_entry, record_attempt).
THEOREM Bounded == Spec => []CopiesBounded
<1>1. LedgerInv => CopiesBounded
  <2> SUFFICES ASSUME LedgerInv, NEW id \in Ids, NEW r \in Recipients
               PROVE  copies[id][r] <= attempts[id] + 1 + faults
    BY DEF CopiesBounded
  <2>1. copies[id][r] \in Nat /\ attempts[id] \in Nat /\ faults \in Nat
    BY DEF LedgerInv, QueueInv, TypeOK, SpoolTypeOK
  <2>2. copies[id][r] <= attempts[id] + faults \/ copies[id][r] <= attempts[id] + faults + 1
    BY DEF LedgerInv, Counts, CopiesInv
  <2> QED BY <2>1, <2>2
<1> QED BY <1>1, LedgerInit, LedgerStep, PTL DEF Spec

(***************************************************************************)
(* A visible envelope is complete as long as no operator removes entries:  *)
(* nobody but the worker then takes files away, and it takes the envelope  *)
(* first and renames nothing over an entry whose message is gone.          *)
(***************************************************************************)
PairInv ==
    /\ VisibleComplete
    /\ opStage = [id \in Ids |-> "none"]
    /\ wpc \in {"rename", "markRename"} => cur \in emlFile
    /\ wpc = "unlinkEml" => cur \notin envFile

LEMMA PairStep ==
    ASSUME Removable = {}, QueueInv, PairInv, [Next]_vars
    PROVE  PairInv'
<1>0. StoreOrder /\ TypeOK /\ (wpc \notin {"idle", "scan"} => Spooled(cur))
  BY DEF QueueInv, WorkerInv
<1> USE DEF PairInv, VisibleComplete
<1>1. ASSUME UNCHANGED <<emlFile, envFile>>, opStage' = [id \in Ids |-> "none"],
             \/ UNCHANGED <<wpc, cur>>
             \/ wpc' \notin {"rename", "markRename", "unlinkEml"}
             \/ cur' = cur /\ wpc' \in {"rename", "markRename"} /\ Loads(cur)
      PROVE  PairInv'
  BY <1>1 DEF Loads
<1>2. ASSUME NEW id \in Ids, Storing(id) PROVE PairInv'
  <2>1. UNCHANGED <<wpc, cur, opStage>>
    BY <1>2 DEF Storing, workerVars
  <2>2. CASE UNCHANGED <<emlFile, envFile>>
    BY <1>1, <2>1, <2>2
  <2>3. CASE StoreRenameEml(id)
    BY <2>1, <2>3 DEF StoreRenameEml
  <2>4. CASE StoreRenameEnv(id)
    <3>1. id \in emlFile /\ ~Spooled(id)
      BY <1>0, <2>4 DEF StoreOrder, StoreRenameEnv, Spooled
    <3>2. wpc = "unlinkEml" => cur # id
      BY <1>0, <3>1
    <3> QED BY <2>1, <2>4, <3>1, <3>2 DEF StoreRenameEnv
  <2> QED BY <1>2, <2>2, <2>3, <2>4 DEF Storing, StoreTmp, StoreAck
<1>3. CASE Operator
  <2>1. \A id \in Ids : ~OperatorLoad(id) /\ ~OperatorUnlinkEnv(id) /\ ~OperatorUnlinkEml(id)
                        /\ ~OperatorFails(id)
    BY DEF OperatorLoad, OperatorUnlinkEnv, OperatorUnlinkEml, OperatorFails
  <2> QED BY <1>1, <1>3, <2>1 DEF Operator, Unsuppress, UnsuppressFor, spoolVars, workerVars
<1>4. CASE TimePasses
  BY <1>1, <1>4 DEF TimePasses, Tick, workerVars
<1>5. CASE Fault
  BY <1>1, <1>5 DEF Fault, Crash, WorkerError, StoreError, StoreFails, Goto, spoolVars, workerVars
<1>6. CASE RemoteAnswers
  BY <1>1, <1>6 DEF RemoteAnswers, RemoteAccepts, RemoteDefers, RemoteRefuses, Goto, spoolVars
<1>7. CASE WorkerStep
  <2>1. CASE RemoveEnvelope
    BY <2>1 DEF RemoveEnvelope, UnlinkEnv, Goto
  <2>2. CASE RemoveMessage
    BY <2>2 DEF RemoveMessage, UnlinkEml, Goto
  <2>3. CASE RecordRename \/ MarkRename
    BY <2>3 DEF RecordRename, MarkRename, RenameAttempt, RenameWarned, Goto
  <2>4. ASSUME NEW id \in Ids, SkipEntry(id) \/ UnreadableEntry(id) \/ LoadEntry(id) PROVE PairInv'
    BY <1>1, <2>4 DEF SkipEntry, UnreadableEntry, LoadEntry, Goto, spoolVars
  <2>5. ASSUME NEW d \in Domains, ResolveRejects(d) \/ Connect(d) PROVE PairInv'
    BY <1>1, <2>5 DEF ResolveRejects, Connect, Goto, spoolVars
  <2>6. ASSUME NEW ok \in BOOLEAN, Bounce(ok) \/ WarnDelayed(ok) PROVE PairInv'
    <3>1. /\ UNCHANGED <<spoolVars, opStage>> /\ wpc' \in {"suppress", "unlinkEnv", "mark", "scan"}
      BY <2>6 DEF Bounce, WarnDelayed, Goto
    <3> QED BY <1>1, <3>1 DEF spoolVars
  <2>7. CASE PassBegin \/ PassEnd \/ ResolveDefers \/ SuppressEntry \/ RemoveFails \/ JudgeAge
    BY <1>1, <2>7 DEF PassBegin, PassEnd, ResolveDefers, SuppressEntry, RemoveFails, JudgeAge, Goto,
                      spoolVars
  <2>8. CASE RecordLoad \/ MarkLoad
    BY <1>1, <2>8 DEF RecordLoad, MarkLoad, Goto, spoolVars
  <2> QED BY <1>7, <2>1, <2>2, <2>3, <2>4, <2>5, <2>6, <2>7, <2>8 DEF WorkerStep
<1>8. CASE UNCHANGED vars
  BY <1>1, <1>8 DEF vars, spoolVars, workerVars
<1> QED BY <1>2, <1>3, <1>4, <1>5, <1>6, <1>7, <1>8 DEF Next

\* Without removals by operators, a visible envelope guarantees a complete
\* message file, through every crash and I/O error (FsSpool::store, remove).
THEOREM Complete ==
    ASSUME Removable = {}
    PROVE  Spec => []VisibleComplete
<1>1. Init => PairInv
  BY DEF Init, SpoolInit, PairInv, VisibleComplete
<1>2. QueueInv /\ PairInv /\ [Next]_vars => PairInv'
  BY PairStep
<1>3. PairInv => VisibleComplete
  BY DEF PairInv
<1> QED BY <1>1, <1>2, <1>3, InitInv, StepInv, PTL DEF Spec
=============================================================================

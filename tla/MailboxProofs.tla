--------------------------- MODULE MailboxProofs ---------------------------
(***************************************************************************)
(* Proofs about the mailbox on disk: for every set of messages and of      *)
(* connections, every retention and every length of a session, whatever    *)
(* commands are given and whatever gets in the way.  The last part is what *)
(* the mailbox promises a client while handlers take turns: faithful       *)
(* snapshots, UIDs that are never reused, a complete VANISHED answer.      *)
(***************************************************************************)
EXTENDS Mailbox, FiniteSetTheorems, WellFoundedInduction, TLAPS

RefMaps == UNION {[D -> Refs] : D \in SUBSET Messages}
Snapshots == [open : BOOLEAN, messages : RefMaps, highest : Nat, now : Nat]
Pcs == {"idle", "open", "load", "scan", "index", "opened", "bump", "stamp",
        "remove", "move", "body", "record", "literal", "flags"}
Whys == {"none", "select", "idle", "store", "expunge", "destroy", "append", "replace", "source"}
Ops == [pc : Pcs, why : Whys, snap : Snapshots, gen : Nat \X Nat,
        ids : SUBSET Messages, initial : Nat, counter : Nat, new : Nat, source : Nat,
        seq : Nat, since : Nat, flags : SUBSET Flags, gone : SUBSET (Nat \ {0})]
Caches == [uids : SUBSET (Nat \ {0}), modseq : Nat]

Opening == {"load", "scan", "index", "opened"}
Removing == {"remove", "move", "body"}

\* The type of every variable.
DiskTypes ==
    /\ eml \subseteq used /\ used \subseteq Messages
    /\ flags \in [Messages -> SUBSET Flags]
    /\ uid \in [Messages -> Nat] /\ modseq \in [Messages -> Nat]
    /\ uidnext \in Nat /\ modseqctr \in Nat
    /\ vanished \subseteq (Nat \X Nat)
    /\ index \in [gen : Nat \X Nat, messages : RefMaps]
OtherTypes ==
    /\ archived \subseteq used /\ deletedAt \in [Messages -> Int]
    /\ filing \subseteq Messages \X SUBSET Flags
    /\ sweep \subseteq Messages /\ restoring \subseteq Messages /\ clock \in Nat
    /\ leftAt \in [Messages -> Nat] /\ issued \subseteq (Nat \ {0}) \X Messages
SessionTypes ==
    /\ op \in [Sessions -> Ops] /\ snap \in [Sessions -> Snapshots]
    /\ cache \in [Sessions -> Caches]
    /\ disturbed \subseteq {"overlap", "pop3", "crash", "fault"}

\* What a removal still has to do is in its snapshot, and a STORE under way is
\* about a message of the selected one.
Shape(s) ==
    /\ op[s].pc # "idle" => op[s].why # "none"
    /\ op[s].pc \in Removing => op[s].ids \subseteq DOMAIN op[s].snap.messages
    /\ op[s].pc \in {"move", "body"} => op[s].ids # {}
    /\ op[s].pc \in {"bump", "stamp"} => op[s].new \in DOMAIN snap[s].messages
TypeInv == DiskTypes /\ OtherTypes /\ SessionTypes /\ \A s \in Sessions : Shape(s)

\* Nobody works on a message that never arrived, or from a snapshot older than
\* a session may keep one.
KnownOp(o, ms) == DOMAIN o.snap.messages \subseteq ms /\ o.ids \subseteq ms
RecentOp(o) ==
    o.pc \in Opening \union Removing \union {"record"} => clock - o.snap.now <= SessionSpan
RecentSnap(sn, ms) ==
    DOMAIN sn.messages \subseteq ms /\ (sn.open => clock - sn.now <= SessionSpan)
FreshInv ==
    /\ \A s \in Sessions : KnownOp(op[s], used) /\ RecentOp(op[s]) /\ RecentSnap(snap[s], used)
    /\ DOMAIN index.messages \subseteq used

\* A message in the mailbox has a .deleted only while somebody moves it away,
\* and an archived one was stamped at most a session's length before it left.
Moving(s, m) == op[s].pc \in {"move", "body"} /\ m = Min(op[s].ids)
Stamped ==
    /\ \A m \in eml : deletedAt[m] >= 0 =>
          clock - deletedAt[m] <= SessionSpan /\ \E s \in Sessions : Moving(s, m)
    /\ \A m \in archived : deletedAt[m] >= 0 => leftAt[m] <= deletedAt[m] + SessionSpan

\* What a sweep has listed it may delete, whatever became of it since.
Outlived(m) == clock - leftAt[m] > Retention - SessionSpan
Swept ==
    /\ \A m \in sweep \intersect eml : Retention < SessionSpan
    /\ \A m \in sweep \intersect archived : Outlived(m)
    /\ \A m \in used \ (eml \union archived \union erased) : Outlived(m)
ArchiveInv ==
    /\ \A m \in Messages : leftAt[m] <= clock /\ (deletedAt[m] >= 0 => m \in used)
    /\ restoring \subseteq erased /\ sweep \subseteq used
    /\ Spared({"crash", "fault"}) => Stamped /\ Swept

----------------------------------------------------------------------------
(* Least and greatest elements.                                            *)

LEMMA Least ==
  ASSUME NEW T \in SUBSET Nat, T # {}
  PROVE  \E x \in T : \A y \in T : x <= y
  <1> DEFINE R == OpToRel(<, Nat)
  <1>1. PICK x \in T : \A y \in T : ~(<<y, x>> \in R)
    BY NatLessThanWellFounded, WFMin
  <1>2. \A y \in T : ~(y < x)
    BY <1>1 DEF OpToRel
  <1>3. QED
    BY <1>2

LEMMA MinIn ==
  ASSUME NEW T \in SUBSET Nat, T # {}
  PROVE  Min(T) \in T
  BY Least DEF Min

\* A finite set of numbers is bounded: a smallest unbounded one would still be
\* unbounded without one of its elements.
LEMMA FiniteBounded ==
  ASSUME NEW T \in SUBSET Nat, IsFiniteSet(T)
  PROVE  \E b \in Nat : \A y \in T : y <= b
  <1> DEFINE Bounded(S) == \E b \in Nat : \A y \in S : y <= b
             Sizes_ == {n \in Nat : \E S \in SUBSET Nat :
                            IsFiniteSet(S) /\ Cardinality(S) = n /\ ~Bounded(S)}
  <1>1. SUFFICES ASSUME ~Bounded(T) PROVE FALSE
    OBVIOUS
  <1>2. Cardinality(T) \in Sizes_
    BY <1>1, FS_CardinalityType
  <1>3. PICK n \in Sizes_ : \A k \in Sizes_ : n <= k
    BY <1>2, Least
  <1>4. PICK S \in SUBSET Nat : IsFiniteSet(S) /\ Cardinality(S) = n /\ ~Bounded(S)
    BY <1>3
  <1>5. S # {}
    BY <1>4
  <1>6. PICK x \in S : TRUE
    BY <1>5
  <1>7. IsFiniteSet(S \ {x}) /\ Cardinality(S \ {x}) = n - 1 /\ n - 1 \in Nat
    <2>1. IsFiniteSet(S \ {x}) /\ Cardinality(S \ {x}) = Cardinality(S) - 1
      BY <1>4, <1>6, FS_RemoveElement
    <2>2. Cardinality(S \ {x}) \in Nat
      BY <2>1, FS_CardinalityType
    <2>3. QED
      BY <2>1, <2>2, <1>4
  <1>8. n - 1 \notin Sizes_
    BY <1>3, <1>7
  <1>9. Bounded(S \ {x})
    BY <1>7, <1>8
  <1>10. PICK b \in Nat : \A y \in S \ {x} : y <= b
    BY <1>9
  <1>11. CASE x <= b
    BY <1>10, <1>11, <1>4
  <1>12. CASE ~(x <= b)
    <2>1. x \in Nat /\ \A y \in S : y <= x
      BY <1>10, <1>12
    <2>2. QED
      BY <2>1, <1>4
  <1>13. QED
    BY <1>11, <1>12

LEMMA MaxOf ==
  ASSUME NEW T \in SUBSET Nat, IsFiniteSet(T), T # {}
  PROVE  Max(T) \in T /\ \A y \in T : y <= Max(T)
  <1> DEFINE Bounds == {b \in Nat : \A y \in T : y <= b}
  <1>1. Bounds \in SUBSET Nat /\ Bounds # {}
    BY FiniteBounded
  <1>2. PICK b \in Bounds : \A c \in Bounds : b <= c
    BY <1>1, Least
  <1>3. b \in T
    <2>1. SUFFICES ASSUME b \notin T PROVE FALSE
      OBVIOUS
    <2>2. \A y \in T : y < b
      BY <1>2, <2>1
    <2>3. PICK y0 \in T : TRUE
      OBVIOUS
    <2>4. b - 1 \in Nat /\ \A y \in T : y <= b - 1
      BY <2>2, <2>3, <1>2
    <2>5. b - 1 \in Bounds
      BY <2>4
    <2>6. QED
      BY <2>5, <1>2
  <1>4. \A y \in T : b >= y
    BY <1>2
  <1>5. \E x \in T : \A y \in T : x >= y
    BY <1>3, <1>4
  <1>6. Max(T) \in T /\ \A y \in T : Max(T) >= y
    BY <1>5 DEF Max
  <1>7. QED
    BY <1>6

----------------------------------------------------------------------------
(* The maps from messages to what a snapshot says of them.                 *)

LEMMA RefMapFacts ==
  ASSUME NEW f \in RefMaps
  PROVE  /\ DOMAIN f \subseteq Messages /\ f = [m \in DOMAIN f |-> f[m]]
         /\ \A m \in DOMAIN f : /\ f[m] \in Refs /\ f[m].uid \in Nat /\ f[m].uid > 0
                                /\ f[m].flags \in SUBSET Flags /\ f[m].modseq \in Nat
  <1>1. PICK D \in SUBSET Messages : f \in [D -> Refs]
    BY DEF RefMaps
  <1>2. QED
    BY <1>1 DEF Refs

LEMMA RefMapIntro ==
  ASSUME NEW D \in SUBSET Messages, NEW f \in [D -> Refs]
  PROVE  f \in RefMaps
  BY DEF RefMaps

LEMMA NoMessagesMap == NoMessages \in RefMaps /\ DOMAIN NoMessages = {}
  <1>1. NoMessages \in [{} -> Refs] /\ DOMAIN NoMessages = {}
    BY DEF NoMessages
  <1>2. {} \in SUBSET Messages
    OBVIOUS
  <1>3. QED
    BY <1>1, <1>2, RefMapIntro

LEMMA WithMap ==
  ASSUME NEW f \in RefMaps, NEW m \in Messages, NEW ref \in Refs
  PROVE  /\ With(f, m, ref) \in RefMaps
         /\ DOMAIN With(f, m, ref) = DOMAIN f \union {m}
         /\ With(f, m, ref)[m] = ref
         /\ \A k \in DOMAIN f : k # m => With(f, m, ref)[k] = f[k]
  <1>1. DOMAIN f \subseteq Messages /\ \A k \in DOMAIN f : f[k] \in Refs
    BY RefMapFacts
  <1>2. DOMAIN f \union {m} \in SUBSET Messages
    BY <1>1
  <1>3. With(f, m, ref) \in [DOMAIN f \union {m} -> Refs]
    BY <1>1 DEF With
  <1>4. With(f, m, ref) \in RefMaps
    BY <1>2, <1>3, RefMapIntro
  <1>5. QED
    BY <1>4 DEF With

LEMMA WithoutMap ==
  ASSUME NEW f \in RefMaps, NEW m
  PROVE  /\ Without(f, m) \in RefMaps
         /\ DOMAIN Without(f, m) = DOMAIN f \ {m}
         /\ \A k \in DOMAIN f : k # m => Without(f, m)[k] = f[k]
  <1>1. DOMAIN f \subseteq Messages /\ \A k \in DOMAIN f : f[k] \in Refs
    BY RefMapFacts
  <1>2. DOMAIN f \ {m} \in SUBSET Messages
    BY <1>1
  <1>3. Without(f, m) \in [DOMAIN f \ {m} -> Refs]
    BY <1>1 DEF Without
  <1>4. Without(f, m) \in RefMaps
    BY <1>2, <1>3, RefMapIntro
  <1>5. QED
    BY <1>4 DEF Without

LEMMA FiniteMessages ==
  ASSUME NEW S \in SUBSET Messages
  PROVE  S \in SUBSET Nat /\ IsFiniteSet(S) /\ Cardinality(S) \in Nat
  BY MailboxAssumption, FS_Subset, FS_CardinalityType

LEMMA MinMessage ==
  ASSUME NEW S \in SUBSET Messages, S # {}
  PROVE  Min(S) \in S /\ Min(S) \in Messages
  <1>1. S \in SUBSET Nat
    BY FiniteMessages
  <1>2. Min(S) \in S
    BY <1>1, MinIn
  <1>3. QED
    BY <1>2

\* The greatest mod-sequence is a number and bounds them all.
LEMMA HighestBounds ==
  ASSUME NEW f \in RefMaps, modseqctr \in Nat
  PROVE  /\ HighestModseq(f) \in Nat
         /\ (\A m \in DOMAIN f : f[m].modseq <= modseqctr) => HighestModseq(f) <= modseqctr
  <1> DEFINE Seqs == {f[m].modseq : m \in DOMAIN f}
             All == {modseqctr} \union Seqs
  <1>1. DOMAIN f \in SUBSET Messages /\ \A m \in DOMAIN f : f[m].modseq \in Nat
    BY RefMapFacts
  <1>2. IsFiniteSet(Seqs)
    <2>1. IsFiniteSet(DOMAIN f)
      BY <1>1, FiniteMessages
    <2> DEFINE g == [m \in DOMAIN f |-> f[m].modseq]
    <2>2. g \in Surjection(DOMAIN f, Seqs)
      BY DEF Surjection
    <2>3. QED
      BY <2>1, <2>2, FS_Surjection
  <1>3. IsFiniteSet(All)
    BY <1>2, FS_Singleton, FS_Union
  <1>4. All \in SUBSET Nat /\ All # {}
    BY <1>1
  <1>5. Max(All) \in All
    BY <1>3, <1>4, MaxOf
  <1>6. HighestModseq(f) = Max(All)
    BY DEF HighestModseq
  <1> HIDE DEF All
  <1>7. Max(All) \in Nat
    BY <1>4, <1>5
  <1>8. ASSUME \A m \in DOMAIN f : f[m].modseq <= modseqctr
        PROVE  Max(All) <= modseqctr
    BY <1>5, <1>8, modseqctr <= modseqctr DEF All
  <1>9. QED
    BY <1>6, <1>7, <1>8

----------------------------------------------------------------------------
(* Types.                                                                  *)

LEMMA IdleTypes == Idle \in Ops /\ NoSnapshot \in Snapshots
  <1>1. NoSnapshot \in Snapshots
    BY NoMessagesMap DEF NoSnapshot, Snapshots
  <1>2. QED
    BY <1>1 DEF Idle, Ops, Pcs, Whys

\* A step of a connection writes its own record.
LEMMA StepEffect ==
  ASSUME SessionTypes, NEW s \in Sessions, NEW next \in Ops, Step(s, next)
  PROVE  /\ op' \in [Sessions -> Ops] /\ op'[s] = next
         /\ \A t \in Sessions : t # s => op'[t] = op[t]
         /\ disturbed' \subseteq {"overlap", "pop3", "crash", "fault"}
         /\ disturbed \subseteq disturbed'
         /\ "overlap" \notin disturbed' => filing = {} /\ \A t \in Sessions \ {s} : ~Busy(t)
  <1>1. /\ op' = [op EXCEPT ![s] = next]
        /\ op \in [Sessions -> Ops]
    BY DEF Step, SessionTypes
  <1>2. disturbed' = disturbed \union (Overlap(Sessions \ {s}) \union (IF filing = {} THEN {} ELSE {"overlap"}))
    BY DEF Step
  <1>3. Overlap(Sessions \ {s}) \subseteq {"overlap"}
    BY DEF Overlap
  <1>4. "overlap" \notin disturbed' => filing = {} /\ Overlap(Sessions \ {s}) = {}
    BY <1>2, <1>3
  <1>5. QED
    BY <1>1, <1>2, <1>3, <1>4 DEF SessionTypes, Overlap

\* A step of a connection that leaves everything but its own record alone.
LEMMA OwnStepTypes ==
  ASSUME TypeInv, NEW s \in Sessions, NEW next \in Ops, Step(s, next),
         UNCHANGED <<disk, archive, snap, cache, others, history>>,
         next.pc # "idle" => next.why # "none",
         next.pc \in Removing => next.ids \subseteq DOMAIN next.snap.messages,
         next.pc \in {"move", "body"} => next.ids # {},
         next.pc \in {"bump", "stamp"} => next.new \in DOMAIN snap[s].messages
  PROVE  TypeInv'
  <1>1. /\ op' \in [Sessions -> Ops] /\ op'[s] = next
        /\ \A t \in Sessions : t # s => op'[t] = op[t]
        /\ disturbed' \subseteq {"overlap", "pop3", "crash", "fault"}
    BY StepEffect DEF TypeInv
  <1>2. DiskTypes' /\ OtherTypes'
    BY DEF TypeInv, DiskTypes, OtherTypes, disk, archive, others, history
  <1>3. SessionTypes'
    BY <1>1 DEF TypeInv, SessionTypes
  <1>4. ASSUME NEW t \in Sessions PROVE Shape(t)'
    <2>1. Shape(t) /\ snap' = snap
      BY DEF TypeInv
    <2>2. CASE t = s
      BY <1>1, <2>1, <2>2 DEF Shape
    <2>3. CASE t # s
      BY <1>1, <2>1, <2>3 DEF Shape
    <2>4. QED
      BY <2>2, <2>3
  <1>5. QED
    BY <1>2, <1>3, <1>4 DEF TypeInv

\* The same for a step that also writes the disk or the histories.
LEMMA DiskStepTypes ==
  ASSUME TypeInv, NEW s \in Sessions, NEW next \in Ops, Step(s, next),
         UNCHANGED <<snap, cache>>, DiskTypes', OtherTypes',
         next.pc # "idle" => next.why # "none",
         next.pc \in Removing => next.ids \subseteq DOMAIN next.snap.messages,
         next.pc \in {"move", "body"} => next.ids # {},
         next.pc \in {"bump", "stamp"} => next.new \in DOMAIN snap[s].messages
  PROVE  TypeInv'
  <1>1. /\ op' \in [Sessions -> Ops] /\ op'[s] = next
        /\ \A t \in Sessions : t # s => op'[t] = op[t]
        /\ disturbed' \subseteq {"overlap", "pop3", "crash", "fault"}
    BY StepEffect DEF TypeInv
  <1>2. SessionTypes'
    BY <1>1 DEF TypeInv, SessionTypes
  <1>3. ASSUME NEW t \in Sessions PROVE Shape(t)'
    <2>1. Shape(t) /\ snap' = snap
      BY DEF TypeInv
    <2>2. CASE t = s
      BY <1>1, <2>1, <2>2 DEF Shape
    <2>3. CASE t # s
      BY <1>1, <2>1, <2>3 DEF Shape
    <2>4. QED
      BY <2>2, <2>3
  <1>4. QED
    BY <1>2, <1>3 DEF TypeInv

LEMMA OpenTypes ==
  ASSUME TypeInv, NEW s \in Sessions, Open(s)
  PROVE  TypeInv'
  <1> DEFINE o == op[s]
  <1>0. o \in Ops /\ o.snap \in Snapshots /\ o.snap.messages \in RefMaps /\ Shape(s)
    BY DEF TypeInv, SessionTypes, Ops, Snapshots
  <1>1. CASE OpenBegin(s)
    <2> DEFINE next == [o EXCEPT !.pc = "load", !.gen = Generation,
                                 !.snap = [NoSnapshot EXCEPT !.now = clock]]
    <2>1. Generation \in Nat \X Nat
      BY FiniteMessages DEF TypeInv, DiskTypes, Generation
    <2>2. [NoSnapshot EXCEPT !.now = clock] \in Snapshots
      BY IdleTypes DEF Snapshots, TypeInv, OtherTypes
    <2>3. next \in Ops /\ next.pc = "load" /\ next.why = o.why
      BY <1>0, <2>1, <2>2 DEF Ops, Pcs
    <2>4. Step(s, next) /\ UNCHANGED <<disk, archive, snap, cache, others, history>> /\ o.pc = "open"
      BY <1>1 DEF OpenBegin, At
    <2> HIDE DEF next
    <2>5. QED
      BY <1>0, <2>3, <2>4, OwnStepTypes DEF Shape, Removing
  <1>2. CASE OpenFromIndex(s)
    <2> DEFINE next == [o EXCEPT !.pc = "opened", !.snap.open = TRUE,
                         !.snap.messages = index.messages, !.snap.highest = o.gen[1]]
    <2>1. index.messages \in RefMaps /\ o.gen[1] \in Nat
      BY <1>0 DEF TypeInv, DiskTypes, Ops
    <2>2. next \in Ops /\ next.pc = "opened" /\ next.why = o.why
      BY <1>0, <2>1 DEF Ops, Pcs, Snapshots
    <2>4. Step(s, next) /\ UNCHANGED <<disk, archive, snap, cache, others, history>> /\ o.pc = "load"
      BY <1>2 DEF OpenFromIndex, At
    <2> HIDE DEF next
    <2>5. QED
      BY <1>0, <2>2, <2>4, OwnStepTypes DEF Shape, Removing
  <1>3. CASE ScanList(s)
    <2> DEFINE next == [o EXCEPT !.pc = "scan", !.ids = eml, !.initial = uidnext, !.counter = uidnext]
    <2>1. next \in Ops /\ next.pc = "scan" /\ next.why = o.why
      BY <1>0 DEF Ops, Pcs, TypeInv, DiskTypes
    <2>2. Step(s, next) /\ UNCHANGED <<disk, archive, snap, cache, others, history>> /\ o.pc = "load"
      BY <1>3 DEF ScanList, At
    <2> HIDE DEF next
    <2>3. QED
      BY <1>0, <2>1, <2>2, OwnStepTypes DEF Shape, Removing
  <1>4. CASE ScanMessage(s)
    <2> DEFINE m == Min(o.ids)
               u == AssignOrRead(m, o.counter)
               ref == [uid |-> u, flags |-> flags[m], modseq |-> modseq[m], size |-> SizeSeen(o.why)]
               count == IF uid[m] > 0 THEN o.counter ELSE o.counter + 1
               map == With(o.snap.messages, m, ref)
               next == [o EXCEPT !.ids = o.ids \ {m}, !.counter = count, !.snap.messages = map]
    <2>1. o.ids # {} /\ o.ids \in SUBSET Messages /\ o.counter \in Nat
      BY <1>0, <1>4 DEF ScanMessage, Ops
    <2>2. m \in Messages
      BY <2>1, MinMessage
    <2>3. u \in Nat \ {0} /\ uid[m] \in Nat /\ SizeSeen(o.why) \in Sizes
      BY <2>1, <2>2 DEF TypeInv, DiskTypes, AssignOrRead, SizeSeen, Sizes
    <2>4. ref \in Refs
      BY <2>2, <2>3 DEF Refs, TypeInv, DiskTypes
    <2>6. Step(s, next) /\ uid' = [uid EXCEPT ![m] = u]
      BY <1>4 DEF ScanMessage
    <2> HIDE DEF m, u, ref
    <2>5. map \in RefMaps /\ count \in Nat
      <3>1. map \in RefMaps
        BY <1>0, <2>2, <2>4, WithMap
      <3>2. QED
        BY <2>1, <3>1
    <2> HIDE DEF count, map
    <2>7. next \in Ops /\ next.pc = o.pc /\ next.why = o.why
      BY <1>0, <2>1, <2>3, <2>5 DEF Ops, Pcs, Snapshots
    <2>8. o.pc = "scan" /\ UNCHANGED <<snap, cache>>
      BY <1>4 DEF ScanMessage, At
    <2>9. DiskTypes' /\ OtherTypes'
      <3>1. UNCHANGED <<eml, flags, modseq, uidnext, modseqctr, vanished, index, archive, others, history>>
        BY <1>4 DEF ScanMessage
      <3>2. QED
        BY <2>2, <2>3, <2>6, <3>1 DEF TypeInv, DiskTypes, OtherTypes, archive, others, history
    <2> HIDE DEF next
    <2>10. QED
      BY <1>0, <2>6, <2>7, <2>8, <2>9, DiskStepTypes DEF Shape, Removing
  <1>5. CASE ScanCounter(s)
    <2> DEFINE next == [o EXCEPT !.pc = "index"]
    <2>1. next \in Ops /\ next.pc = "index" /\ next.why = o.why
      BY <1>0 DEF Ops, Pcs
    <2>2. Step(s, next) /\ o.pc = "scan" /\ UNCHANGED <<snap, cache>>
      BY <1>5 DEF ScanCounter, At
    <2>3. DiskTypes' /\ OtherTypes'
      <3>1. UNCHANGED <<eml, flags, uid, modseq, modseqctr, vanished, index, archive, others, history>>
        BY <1>5 DEF ScanCounter
      <3>2. uidnext' \in Nat
        BY <1>0, <1>5 DEF ScanCounter, GrownCounter, Ops, TypeInv, DiskTypes
      <3>3. QED
        BY <3>1, <3>2 DEF TypeInv, DiskTypes, OtherTypes, archive, others, history
    <2> HIDE DEF next
    <2>4. QED
      BY <1>0, <2>1, <2>2, <2>3, DiskStepTypes DEF Shape, Removing
  <1>6. CASE WriteIndex(s)
    <2> DEFINE next == [o EXCEPT !.pc = "opened", !.snap.open = TRUE,
                                 !.snap.highest = HighestModseq(o.snap.messages)]
    <2>1. HighestModseq(o.snap.messages) \in Nat
      BY <1>0, HighestBounds DEF TypeInv, DiskTypes
    <2>2. next \in Ops /\ next.pc = "opened" /\ next.why = o.why
      BY <1>0, <2>1 DEF Ops, Pcs, Snapshots
    <2>3. Step(s, next) /\ o.pc = "index" /\ UNCHANGED <<snap, cache>>
      BY <1>6 DEF WriteIndex, At
    <2>4. DiskTypes' /\ OtherTypes'
      <3>1. UNCHANGED <<eml, flags, uid, modseq, uidnext, modseqctr, vanished, archive, others, history>>
        BY <1>6 DEF WriteIndex
      <3>2. index' = [gen |-> o.gen, messages |-> o.snap.messages] /\ o.gen \in Nat \X Nat
        BY <1>0, <1>6 DEF WriteIndex, Ops
      <3>3. QED
        BY <1>0, <3>1, <3>2 DEF TypeInv, DiskTypes, OtherTypes, archive, others, history
    <2> HIDE DEF next
    <2>5. QED
      BY <1>0, <2>2, <2>3, <2>4, DiskStepTypes DEF Shape, Removing
  <1>7. QED
    BY <1>1, <1>2, <1>3, <1>4, <1>5, <1>6 DEF Open

LEMMA RemovedFacts ==
  ASSUME NEW o \in Ops, o.ids # {}, o.ids \subseteq DOMAIN o.snap.messages,
         NEW m, m = Min(o.ids)
  PROVE  /\ Removed(o, m) \in Ops /\ m \in o.ids /\ m \in Messages
         /\ m \in DOMAIN o.snap.messages
         /\ Removed(o, m).pc = "remove" /\ Removed(o, m).why = o.why
         /\ Removed(o, m).ids = o.ids \ {m}
         /\ Removed(o, m).gone = o.gone \union {o.snap.messages[m].uid}
         /\ Removed(o, m).snap.messages = Without(o.snap.messages, m)
         /\ Removed(o, m).snap.now = o.snap.now /\ Removed(o, m).snap.open = o.snap.open
         /\ Removed(o, m).snap.messages \in RefMaps
         /\ DOMAIN Removed(o, m).snap.messages = DOMAIN o.snap.messages \ {m}
         /\ \A k \in DOMAIN o.snap.messages :
               k # m => Removed(o, m).snap.messages[k] = o.snap.messages[k]
  <1>1. o.snap \in Snapshots /\ o.snap.messages \in RefMaps /\ o.ids \in SUBSET Messages
    BY DEF Ops, Snapshots
  <1>2. m \in o.ids /\ m \in Messages
    BY <1>1, MinMessage
  <1> DEFINE w == Without(o.snap.messages, m)
             g == o.gone \union {o.snap.messages[m].uid}
  <1>3. /\ w \in RefMaps /\ DOMAIN w = DOMAIN o.snap.messages \ {m}
        /\ \A k \in DOMAIN o.snap.messages : k # m => w[k] = o.snap.messages[k]
    BY <1>1, WithoutMap
  <1>4. o.snap.messages[m].uid \in Nat \ {0}
    BY <1>1, <1>2, RefMapFacts
  <1>5. g \in SUBSET (Nat \ {0})
    BY <1>4 DEF Ops
  <1> DEFINE left == o.ids \ {m}
             short == [o.snap EXCEPT !.messages = w]
  <1>6. Removed(o, m) = [o EXCEPT !.pc = "remove", !.ids = left, !.gone = g, !.snap = short]
    BY DEF Removed
  <1>a. left \in SUBSET Messages /\ short \in Snapshots
    BY <1>1, <1>3 DEF Snapshots
  <1>b. /\ short.messages = w /\ short.now = o.snap.now /\ short.open = o.snap.open
    BY <1>1 DEF Snapshots
  <1> HIDE DEF w, g, left, short
  <1>7. Removed(o, m) \in Ops
    BY <1>5, <1>6, <1>a DEF Ops, Pcs
  <1>8. /\ Removed(o, m).pc = "remove" /\ Removed(o, m).why = o.why
        /\ Removed(o, m).ids = left /\ Removed(o, m).gone = g
        /\ Removed(o, m).snap = short
    BY <1>6 DEF Ops
  <1>9. QED
    BY <1>2, <1>3, <1>7, <1>8, <1>b DEF w, g, left

LEMMA RemovalTypes ==
  ASSUME TypeInv, NEW s \in Sessions, Removal(s)
  PROVE  TypeInv'
  <1> DEFINE o == op[s]
             m == Min(o.ids)
  <1>0. o \in Ops /\ o.snap \in Snapshots /\ o.snap.messages \in RefMaps /\ Shape(s)
    BY DEF TypeInv, SessionTypes, Ops, Snapshots
  <1>r. ASSUME o.pc \in Removing, o.ids # {}
        PROVE  /\ Removed(o, m) \in Ops /\ m \in Messages
               /\ Removed(o, m).pc = "remove" /\ Removed(o, m).why # "none"
               /\ Removed(o, m).ids \subseteq DOMAIN Removed(o, m).snap.messages
    <2>1. o.ids \subseteq DOMAIN o.snap.messages /\ o.why # "none"
      BY <1>0, <1>r DEF Shape, Removing
    <2>2. m = Min(o.ids)
      OBVIOUS
    <2> HIDE DEF o, m
    <2>3. /\ Removed(o, m) \in Ops /\ m \in Messages
          /\ Removed(o, m).pc = "remove" /\ Removed(o, m).why = o.why
          /\ Removed(o, m).ids = o.ids \ {m}
          /\ DOMAIN Removed(o, m).snap.messages = DOMAIN o.snap.messages \ {m}
      BY <1>0, <1>r, <2>1, <2>2, RemovedFacts
    <2>4. QED
      BY <2>1, <2>3
  <1>1. CASE RemoveFiles(s)
    <2>1. /\ Step(s, Removed(o, m)) /\ o.pc = "remove" /\ o.ids # {} /\ UNCHANGED <<snap, cache>>
      BY <1>1 DEF RemoveFiles, At
    <2>2. DiskTypes' /\ OtherTypes'
      <3>1. /\ eml' = eml \ {m} /\ flags' = [flags EXCEPT ![m] = {}] /\ uid' = [uid EXCEPT ![m] = 0]
            /\ UNCHANGED <<modseq, uidnext, modseqctr, vanished, index, archive, others, used, issued, leftAt>>
        BY <1>1 DEF RemoveFiles
      <3>2. QED
        BY <3>1 DEF TypeInv, DiskTypes, OtherTypes, archive, others
    <2>3. QED
      BY <1>r, <2>1, <2>2, DiskStepTypes DEF Removing
  <1>2. CASE ArchiveSidecar(s)
    <2> DEFINE next == [o EXCEPT !.pc = "move"]
    <2>1. next \in Ops /\ next.pc = "move" /\ next.why = o.why /\ next.ids = o.ids /\ next.snap = o.snap
      BY <1>0 DEF Ops, Pcs
    <2>2. Step(s, next) /\ o.pc = "remove" /\ o.ids # {} /\ UNCHANGED <<snap, cache>>
      BY <1>2 DEF ArchiveSidecar, At
    <2>3. DiskTypes' /\ OtherTypes'
      <3>1. /\ deletedAt' = [deletedAt EXCEPT ![m] = o.snap.now] /\ o.snap.now \in Int
            /\ UNCHANGED <<disk, archived, others, history>>
        BY <1>0, <1>2 DEF ArchiveSidecar, Snapshots
      <3>2. QED
        BY <3>1 DEF TypeInv, DiskTypes, OtherTypes, disk, others, history
    <2> HIDE DEF next
    <2>4. QED
      BY <1>0, <2>1, <2>2, <2>3, DiskStepTypes DEF Removing, Shape
  <1>3. CASE ArchiveSidecars(s)
    <2> DEFINE next == [o EXCEPT !.pc = "body"]
    <2>1. next \in Ops /\ next.pc = "body" /\ next.why = o.why /\ next.ids = o.ids /\ next.snap = o.snap
      BY <1>0 DEF Ops, Pcs
    <2>2. Step(s, next) /\ o.pc = "move" /\ UNCHANGED <<snap, cache>>
      BY <1>3 DEF ArchiveSidecars, At
    <2>3. DiskTypes' /\ OtherTypes'
      <3>1. /\ flags' = [flags EXCEPT ![m] = {}] /\ uid' = [uid EXCEPT ![m] = 0]
            /\ UNCHANGED <<eml, modseq, uidnext, modseqctr, vanished, index, archive, others, history>>
        BY <1>3 DEF ArchiveSidecars
      <3>2. QED
        BY <3>1 DEF TypeInv, DiskTypes, OtherTypes, archive, others, history
    <2> HIDE DEF next
    <2>4. QED
      BY <1>0, <2>1, <2>2, <2>3, DiskStepTypes DEF Removing, Shape
  <1>4. CASE ArchiveBody(s)
    <2>1. /\ Step(s, Removed(o, m)) /\ o.pc = "body" /\ UNCHANGED <<snap, cache>>
      BY <1>4 DEF ArchiveBody, At
    <2>2. DiskTypes' /\ OtherTypes'
      <3>1. /\ eml' = eml \ {m} /\ archived' = archived \union ({m} \intersect eml)
            /\ leftAt' = IF m \in eml THEN [leftAt EXCEPT ![m] = clock] ELSE leftAt
            /\ UNCHANGED <<flags, uid, modseq, uidnext, modseqctr, vanished, index, deletedAt,
                           others, used, issued>>
        BY <1>4 DEF ArchiveBody
      <3>2. QED
        BY <3>1 DEF TypeInv, DiskTypes, OtherTypes, others
    <2>3. QED
      BY <1>r, <1>0, <2>1, <2>2, DiskStepTypes DEF Removing, Shape
  <1>5. CASE ArchiveFails(s)
    <2>1. /\ o.pc \in Removing /\ o.ids # {} /\ "fault" \in Mishaps
          /\ op' = [op EXCEPT ![s] = Removed(o, m)]
          /\ disturbed' = disturbed \union {"fault"}
          /\ UNCHANGED <<disk, archive, snap, cache, others, history>>
      BY <1>5 DEF ArchiveFails, Removing
    <2>2. DiskTypes' /\ OtherTypes' /\ SessionTypes'
      BY <1>r, <2>1 DEF TypeInv, DiskTypes, OtherTypes, SessionTypes, disk, archive, others, history
    <2>3. ASSUME NEW t \in Sessions PROVE Shape(t)'
      <3>1. Shape(t) /\ op \in [Sessions -> Ops]
        BY DEF TypeInv, SessionTypes
      <3>2. CASE t = s
        BY <1>r, <2>1, <3>1, <3>2 DEF Shape, Removing
      <3>3. CASE t # s
        BY <2>1, <3>1, <3>3 DEF Shape
      <3>4. QED
        BY <3>2, <3>3
    <2>4. QED
      BY <2>2, <2>3 DEF TypeInv
  <1>6. CASE VanishedBump(s)
    <2> DEFINE next == [o EXCEPT !.pc = "record", !.counter = modseqctr + 1]
    <2>0. modseqctr + 1 \in Nat
      BY DEF TypeInv, DiskTypes
    <2>1. next \in Ops /\ next.pc = "record" /\ next.why = o.why
      BY <1>0, <2>0 DEF Ops, Pcs
    <2>2. Step(s, next) /\ o.pc = "remove" /\ UNCHANGED <<snap, cache>>
      BY <1>6 DEF VanishedBump, At
    <2>3. DiskTypes' /\ OtherTypes'
      <3>1. /\ modseqctr' = modseqctr + 1
            /\ UNCHANGED <<eml, flags, uid, modseq, uidnext, vanished, index, archive, others, history>>
        BY <1>6 DEF VanishedBump
      <3>2. QED
        BY <3>1 DEF TypeInv, DiskTypes, OtherTypes, archive, others, history
    <2> HIDE DEF next
    <2>4. QED
      BY <1>0, <2>1, <2>2, <2>3, DiskStepTypes DEF Removing, Shape
  <1>7. CASE VanishedRecord(s)
    <2>1. /\ Step(s, Idle) /\ op'[s] = Idle /\ vanished' = vanished \union LogLines(o)
          /\ snap' = IF o.why = "destroy" THEN snap ELSE [snap EXCEPT ![s] = o.snap]
          /\ UNCHANGED <<eml, flags, uid, modseq, uidnext, modseqctr, index, archive, others, history>>
      BY <1>7, IdleTypes, StepEffect DEF VanishedRecord, Done, TypeInv
    <2>2. LogLines(o) \subseteq Nat \X Nat
      BY <1>0 DEF LogLines, Ops
    <2>3. DiskTypes' /\ OtherTypes'
      BY <2>1, <2>2 DEF TypeInv, DiskTypes, OtherTypes, archive, others, history
    <2>4. snap' \in [Sessions -> Snapshots] /\ \A t \in Sessions : t # s => snap'[t] = snap[t]
      BY <1>0, <2>1 DEF TypeInv, SessionTypes
    <2>5. cache' \in [Sessions -> Caches]
      <3> DEFINE named == IF o.why = "source" THEN Uids([k \in {o.source} |-> snap[s].messages[k]])
                          ELSE o.gone
      <3>1. cache' = IF o.why = "destroy" THEN cache ELSE [cache EXCEPT ![s].uids = @ \ named]
        BY <1>7 DEF VanishedRecord
      <3> HIDE DEF named
      <3>2. cache \in [Sessions -> Caches] /\ cache[s] \in Caches
        BY DEF TypeInv, SessionTypes
      <3>3. [cache EXCEPT ![s].uids = @ \ named] \in [Sessions -> Caches]
        BY <3>2 DEF Caches
      <3>4. QED
        BY <3>1, <3>2, <3>3
    <2>6. SessionTypes'
      BY <2>1, <2>4, <2>5, IdleTypes, StepEffect DEF TypeInv, SessionTypes
    <2>7. ASSUME NEW t \in Sessions PROVE Shape(t)'
      <3>1. Shape(t) /\ (t # s => op'[t] = op[t])
        BY <2>1, IdleTypes, StepEffect DEF TypeInv
      <3>2. CASE t = s
        BY <2>1, <3>2 DEF Shape, Idle, Removing
      <3>3. CASE t # s
        BY <2>4, <3>1, <3>3 DEF Shape
      <3>4. QED
        BY <3>2, <3>3
    <2>8. QED
      BY <2>3, <2>6, <2>7 DEF TypeInv
  <1>8. QED
    BY <1>1, <1>2, <1>3, <1>4, <1>5, <1>6, <1>7 DEF Removal

\* The end of a command may replace the selected snapshot and what the client
\* remembers.
LEMMA DoneTypes ==
  ASSUME TypeInv, NEW s \in Sessions, Done(s), DiskTypes', OtherTypes',
         snap' \in [Sessions -> Snapshots], \A t \in Sessions : t # s => snap'[t] = snap[t],
         cache' \in [Sessions -> Caches]
  PROVE  TypeInv'
  <1>1. /\ op' \in [Sessions -> Ops] /\ op'[s] = Idle
        /\ \A t \in Sessions : t # s => op'[t] = op[t]
        /\ disturbed' \subseteq {"overlap", "pop3", "crash", "fault"}
    BY IdleTypes, StepEffect DEF TypeInv, Done
  <1>2. SessionTypes'
    BY <1>1 DEF SessionTypes
  <1>3. ASSUME NEW t \in Sessions PROVE Shape(t)'
    <2>1. Shape(t)
      BY DEF TypeInv
    <2>2. CASE t = s
      BY <1>1, <2>2 DEF Shape, Idle, Removing
    <2>3. CASE t # s
      BY <1>1, <2>1, <2>3 DEF Shape
    <2>4. QED
      BY <2>2, <2>3
  <1>4. QED
    BY <1>2, <1>3 DEF TypeInv

LEMMA IssueTypes ==
  ASSUME TypeInv, NEW f \in RefMaps
  PROVE  Issue(f) \subseteq (Nat \ {0}) \X Messages
  <1>1. \A m \in DOMAIN f : m \in Messages /\ f[m].uid \in Nat \ {0}
    BY RefMapFacts
  <1>2. QED
    BY <1>1 DEF Issue, TypeInv, OtherTypes

\* A command that starts does so from the idle record.
LEMMA StartTypes ==
  ASSUME NEW pc \in Pcs, NEW why \in Whys
  PROVE  LET o == [Idle EXCEPT !.pc = pc, !.why = why] IN
         o \in Ops /\ o.pc = pc /\ o.why = why /\ o.ids = {} /\ o.snap = NoSnapshot
  BY IdleTypes DEF Ops, Idle

LEMMA SelectTypes ==
  ASSUME TypeInv, NEW s \in Sessions,
         Select(s) \/ SelectDone(s) \/ CheckIdle(s) \/ CheckIdleDone(s) \/ Close(s)
  PROVE  TypeInv'
  <1> DEFINE o == op[s]
  <1>0. /\ o \in Ops /\ o.snap \in Snapshots /\ o.snap.messages \in RefMaps /\ Shape(s)
        /\ snap \in [Sessions -> Snapshots] /\ cache \in [Sessions -> Caches]
    BY DEF TypeInv, SessionTypes, Ops, Snapshots
  <1>1. ASSUME NEW why \in Whys \ {"none"}, Start(s, why),
               UNCHANGED <<disk, archive, snap, cache, others, history>>
        PROVE  TypeInv'
    <2> DEFINE next == [Idle EXCEPT !.pc = "open", !.why = why]
    <2>1. next \in Ops /\ next.pc = "open" /\ next.why = why
      <3>1. "open" \in Pcs /\ why \in Whys
        BY DEF Pcs
      <3>2. QED
        BY <3>1, StartTypes
    <2>2. Step(s, next)
      BY <1>1 DEF Start
    <2> HIDE DEF next
    <2>3. QED
      BY <1>1, <2>1, <2>2, OwnStepTypes DEF Removing
  <1>2. CASE Select(s)
    BY <1>1, <1>2 DEF Select, Whys
  <1>3. CASE CheckIdle(s)
    BY <1>1, <1>3 DEF CheckIdle, Whys
  <1>4. CASE SelectDone(s)
    <2>1. /\ Done(s) /\ snap' = [snap EXCEPT ![s] = o.snap] /\ issued' = Issue(o.snap.messages)
          /\ cache' = [cache EXCEPT ![s] = [uids |-> Uids(o.snap.messages), modseq |-> o.snap.highest]]
          /\ UNCHANGED <<disk, archive, others, used, leftAt, erased>>
      BY <1>4 DEF SelectDone
    <2>2. [uids |-> Uids(o.snap.messages), modseq |-> o.snap.highest] \in Caches
      <3>1. Uids(o.snap.messages) \subseteq Nat \ {0}
        BY <1>0, RefMapFacts DEF Uids
      <3>2. QED
        BY <1>0, <3>1 DEF Caches, Snapshots
    <2>3. issued' \subseteq (Nat \ {0}) \X Messages
      BY <1>0, <2>1, IssueTypes
    <2>4. DiskTypes' /\ OtherTypes'
      BY <2>1, <2>3 DEF TypeInv, DiskTypes, OtherTypes, disk, archive, others
    <2>5. QED
      BY <1>0, <2>1, <2>2, <2>4, DoneTypes
  <1>5. CASE CheckIdleDone(s)
    <2> DEFINE changed == Cardinality(DOMAIN o.snap.messages) # Cardinality(DOMAIN snap[s].messages)
    <2>1. /\ Done(s) /\ snap' = IF changed THEN [snap EXCEPT ![s] = o.snap] ELSE snap
          /\ issued' = IF changed THEN Issue(o.snap.messages) ELSE issued
          /\ UNCHANGED <<disk, archive, cache, others, used, leftAt, erased>>
      BY <1>5 DEF CheckIdleDone
    <2> HIDE DEF changed
    <2>2. issued' \subseteq (Nat \ {0}) \X Messages
      BY <1>0, <2>1, IssueTypes DEF TypeInv, OtherTypes
    <2>3. DiskTypes' /\ OtherTypes'
      BY <2>1, <2>2 DEF TypeInv, DiskTypes, OtherTypes, disk, archive, others
    <2>4. QED
      BY <1>0, <2>1, <2>3, DoneTypes
  <1>6. CASE Close(s)
    <2>1. /\ Done(s) /\ snap' = [snap EXCEPT ![s] = NoSnapshot]
          /\ UNCHANGED <<disk, archive, cache, others, history>>
      BY <1>6 DEF Close
    <2>2. DiskTypes' /\ OtherTypes'
      BY <2>1 DEF TypeInv, DiskTypes, OtherTypes, disk, archive, others, history
    <2>3. QED
      BY <1>0, <2>1, <2>2, IdleTypes, DoneTypes
  <1>7. QED
    BY <1>2, <1>3, <1>4, <1>5, <1>6

LEMMA StoreTypes ==
  ASSUME TypeInv, NEW s \in Sessions,
         \/ \E m \in Messages, mode \in Modes, given \in SUBSET Flags, since \in {0, cache[s].modseq} :
               Store(s, m, mode, given, since)
         \/ StoreBump(s) \/ StoreStamp(s)
  PROVE  TypeInv'
  <1> DEFINE o == op[s]
  <1>0. /\ o \in Ops /\ o.snap \in Snapshots /\ o.snap.messages \in RefMaps /\ Shape(s)
        /\ snap \in [Sessions -> Snapshots] /\ cache \in [Sessions -> Caches]
        /\ snap[s] \in Snapshots /\ snap[s].messages \in RefMaps /\ cache[s] \in Caches
    BY DEF TypeInv, SessionTypes, Ops, Snapshots
  <1>1. ASSUME NEW m \in Messages, NEW mode \in Modes, NEW given \in SUBSET Flags,
               NEW since \in {0, cache[s].modseq}, Store(s, m, mode, given, since)
        PROVE  TypeInv'
    <2> DEFINE ref == snap[s].messages[m]
               new == Updated(mode, ref.flags, given)
               next == [Idle EXCEPT !.pc = "bump", !.why = "store", !.new = m, !.flags = new,
                                    !.since = since, !.snap = snap[s]]
    <2>1. m \in DOMAIN snap[s].messages /\ Step(s, next) /\ flags' = [flags EXCEPT ![m] = new]
      BY <1>1 DEF Store
    <2>2. new \in SUBSET Flags
      <3>1. ref.flags \in SUBSET Flags
        BY <1>0, <2>1, RefMapFacts
      <3>2. QED
        BY <3>1 DEF Updated, Modes
    <2>3. since \in Nat /\ m \in Nat
      BY <1>0, MailboxAssumption DEF Caches
    <2> HIDE DEF new
    <2>4. next \in Ops /\ next.pc = "bump" /\ next.why = "store" /\ next.new = m
      BY <1>0, <2>2, <2>3, IdleTypes DEF Ops, Pcs, Whys
    <2>5. DiskTypes' /\ OtherTypes' /\ UNCHANGED <<snap, cache>>
      <3>1. UNCHANGED <<eml, uid, modseq, uidnext, modseqctr, vanished, index, archive, snap, cache,
                        others, history>>
        BY <1>1 DEF Store
      <3>2. QED
        BY <2>1, <2>2, <3>1 DEF TypeInv, DiskTypes, OtherTypes, archive, others, history
    <2> HIDE DEF next
    <2>6. QED
      BY <2>1, <2>4, <2>5, DiskStepTypes DEF Removing
  <1>2. CASE StoreBump(s)
    <2> DEFINE next == [o EXCEPT !.pc = "stamp", !.counter = modseqctr + 1]
    <2>0. modseqctr + 1 \in Nat
      BY DEF TypeInv, DiskTypes
    <2>1. next \in Ops /\ next.pc = "stamp" /\ next.why = o.why /\ next.new = o.new
      BY <1>0, <2>0 DEF Ops, Pcs
    <2>2. Step(s, next) /\ o.pc = "bump" /\ UNCHANGED <<snap, cache>>
      BY <1>2 DEF StoreBump, At
    <2>3. DiskTypes' /\ OtherTypes'
      <3>1. /\ modseqctr' = modseqctr + 1
            /\ UNCHANGED <<eml, flags, uid, modseq, uidnext, vanished, index, archive, others, history>>
        BY <1>2 DEF StoreBump
      <3>2. QED
        BY <2>0, <3>1 DEF TypeInv, DiskTypes, OtherTypes, archive, others, history
    <2> HIDE DEF next
    <2>4. QED
      BY <1>0, <2>1, <2>2, <2>3, DiskStepTypes DEF Removing, Shape
  <1>3. CASE StoreStamp(s)
    <2> DEFINE old == snap[s].messages[o.new]
               ref == [old EXCEPT !.flags = o.flags, !.modseq = o.counter]
               map == With(snap[s].messages, o.new, ref)
               high == Max({snap[s].highest, o.counter})
    <2>1. /\ Done(s) /\ o.pc = "stamp" /\ modseq' = [modseq EXCEPT ![o.new] = o.counter]
          /\ snap' = [snap EXCEPT ![s].messages = map, ![s].highest = high]
          /\ UNCHANGED <<eml, flags, uid, uidnext, modseqctr, vanished, index, archive, cache, others, history>>
      BY <1>3 DEF StoreStamp, At
    <2>2. o.new \in DOMAIN snap[s].messages /\ o.new \in Messages /\ old \in Refs
      BY <1>0, <2>1, RefMapFacts DEF Shape
    <2>3. ref \in Refs
      BY <1>0, <2>2 DEF Refs, Ops
    <2> HIDE DEF ref
    <2>4. map \in RefMaps
      BY <1>0, <2>2, <2>3, WithMap
    <2>5. high \in Nat
      <3>1. snap[s].highest \in Nat /\ o.counter \in Nat
        BY <1>0 DEF Ops, Snapshots
      <3> DEFINE pair == {snap[s].highest} \union {o.counter}
      <3>a. IsFiniteSet(pair)
        BY FS_Singleton, FS_Union
      <3>b. pair \in SUBSET Nat /\ pair # {} /\ {snap[s].highest, o.counter} = pair
        BY <3>1
      <3>2. high \in {snap[s].highest, o.counter}
        BY <3>a, <3>b, MaxOf
      <3>3. QED
        BY <3>1, <3>2
    <2> HIDE DEF map, high
    <2>6. snap' \in [Sessions -> Snapshots] /\ \A t \in Sessions : t # s => snap'[t] = snap[t]
      BY <1>0, <2>1, <2>4, <2>5 DEF Snapshots
    <2>7. DiskTypes' /\ OtherTypes'
      <3>1. o.counter \in Nat
        BY <1>0 DEF Ops
      <3>2. QED
        BY <2>1, <3>1 DEF TypeInv, DiskTypes, OtherTypes, archive, others, history
    <2>8. QED
      BY <1>0, <2>1, <2>6, <2>7, DoneTypes
  <1>4. QED
    BY <1>1, <1>2, <1>3

LEMMA ExpungeTypes ==
  ASSUME TypeInv, NEW s \in Sessions,
         \/ \E ids \in SUBSET Messages : Expunge(s, ids)
         \/ \E m \in Messages : Destroy(s, m)
         \/ DestroyFound(s) \/ ReplaceExpunge(s)
  PROVE  TypeInv'
  <1> DEFINE o == op[s]
  <1>0. /\ o \in Ops /\ o.snap \in Snapshots /\ o.snap.messages \in RefMaps /\ Shape(s)
        /\ snap[s] \in Snapshots /\ snap[s].messages \in RefMaps
    BY DEF TypeInv, SessionTypes, Ops, Snapshots
  <1>1. ASSUME NEW ids \in SUBSET Messages, Expunge(s, ids)
        PROVE  TypeInv'
    <2> DEFINE next == [Idle EXCEPT !.pc = "remove", !.why = "expunge", !.ids = ids, !.snap = snap[s]]
    <2>1. /\ Step(s, next) /\ UNCHANGED <<disk, archive, snap, cache, others, history>>
          /\ ids \subseteq DOMAIN snap[s].messages
      BY <1>1 DEF Expunge
    <2>2. /\ next \in Ops /\ next.pc = "remove" /\ next.why = "expunge" /\ next.ids = ids
          /\ next.snap = snap[s]
      BY <1>0, IdleTypes DEF Ops, Pcs, Whys
    <2> HIDE DEF next
    <2>3. QED
      BY <2>1, <2>2, OwnStepTypes DEF Removing
  <1>2. ASSUME NEW m \in Messages, Destroy(s, m)
        PROVE  TypeInv'
    <2> DEFINE next == [Idle EXCEPT !.pc = "open", !.why = "destroy", !.source = m]
    <2>1. Step(s, next) /\ UNCHANGED <<disk, archive, snap, cache, others, history>> /\ m \in Nat
      BY <1>2, MailboxAssumption DEF Destroy
    <2>2. next \in Ops /\ next.pc = "open" /\ next.why = "destroy"
      BY <2>1, IdleTypes DEF Ops, Pcs, Whys
    <2> HIDE DEF next
    <2>3. QED
      BY <2>1, <2>2, OwnStepTypes DEF Removing
  <1>3. ASSUME NEW ids \in SUBSET (DOMAIN o.snap.messages), o.pc = "opened",
               Step(s, [o EXCEPT !.pc = "remove", !.ids = ids]),
               UNCHANGED <<disk, archive, snap, cache, others, history>>
        PROVE  TypeInv'
    <2> DEFINE next == [o EXCEPT !.pc = "remove", !.ids = ids]
    <2>1. ids \in SUBSET Messages /\ o.why # "none"
      BY <1>0, <1>3, RefMapFacts DEF Shape
    <2>2. /\ next \in Ops /\ next.pc = "remove" /\ next.why = o.why /\ next.ids = ids
          /\ next.snap = o.snap
      BY <1>0, <2>1 DEF Ops, Pcs
    <2> HIDE DEF next
    <2>3. Step(s, next)
      BY <1>3 DEF next
    <2>4. QED
      BY <1>3, <2>1, <2>2, <2>3, OwnStepTypes DEF Removing
  <1>4. ASSUME Done(s), UNCHANGED <<disk, archive, snap, cache, others, history>>
        PROVE  TypeInv'
    BY <1>4, IdleTypes, OwnStepTypes DEF Done, Idle, Removing
  <1>5. CASE DestroyFound(s)
    <2>1. UNCHANGED <<disk, archive, snap, cache, others, history>> /\ o.pc = "opened"
      BY <1>5 DEF DestroyFound, At
    <2>2. CASE o.source \in DOMAIN o.snap.messages
      <3>1. Step(s, [o EXCEPT !.pc = "remove", !.ids = {o.source}])
        BY <1>5, <2>2 DEF DestroyFound
      <3>2. QED
        BY <1>3, <2>1, <2>2, <3>1
    <2>3. CASE o.source \notin DOMAIN o.snap.messages
      BY <1>4, <1>5, <2>1, <2>3 DEF DestroyFound
    <2>4. QED
      BY <2>2, <2>3
  <1>6. CASE ReplaceExpunge(s)
    <2> DEFINE found == BySequence(o.snap.messages, o.seq)
    <2>1. /\ UNCHANGED <<disk, archive, snap, cache, others, history>> /\ o.pc = "opened"
          /\ IF found # {} THEN Step(s, [o EXCEPT !.pc = "remove", !.ids = found]) ELSE Done(s)
      BY <1>6 DEF ReplaceExpunge, At
    <2>2. found \in SUBSET (DOMAIN o.snap.messages)
      BY DEF BySequence
    <2> HIDE DEF found
    <2>3. QED
      BY <1>3, <1>4, <2>1, <2>2
  <1>7. QED
    BY <1>1, <1>2, <1>5, <1>6

LEMMA NewestNew ==
  ASSUME TypeInv, NEW m \in Messages, Newest(m)
  PROVE  m \notin used
  BY MailboxAssumption DEF Newest, TypeInv, DiskTypes

LEMMA AppendTypes ==
  ASSUME TypeInv, NEW s \in Sessions,
         \/ \E given \in SUBSET Flags : AppendBegin(s, given)
         \/ \E m \in Messages, given \in SUBSET Flags : ReplaceBegin(s, m, given)
         \/ \E m \in Messages : LiteralDone(s, m)
         \/ AppendFlags(s) \/ AppendUid(s)
  PROVE  TypeInv'
  <1> DEFINE o == op[s]
  <1>0. /\ o \in Ops /\ o.snap \in Snapshots /\ o.snap.messages \in RefMaps /\ Shape(s)
        /\ snap[s] \in Snapshots /\ snap[s].messages \in RefMaps
    BY DEF TypeInv, SessionTypes, Ops, Snapshots
  <1>1. ASSUME NEW given \in SUBSET Flags, AppendBegin(s, given)
        PROVE  TypeInv'
    <2> DEFINE next == [Idle EXCEPT !.pc = "literal", !.why = "append", !.flags = given]
    <2>1. Step(s, next) /\ UNCHANGED <<disk, archive, snap, cache, others, history>>
      BY <1>1 DEF AppendBegin
    <2>2. next \in Ops /\ next.pc = "literal" /\ next.why = "append"
      BY IdleTypes DEF Ops, Pcs, Whys
    <2> HIDE DEF next
    <2>3. QED
      BY <2>1, <2>2, OwnStepTypes DEF Removing
  <1>2. ASSUME NEW m \in Messages, NEW given \in SUBSET Flags, ReplaceBegin(s, m, given)
        PROVE  TypeInv'
    <2> DEFINE seq == SequenceOf(snap[s].messages, m)
               next == [Idle EXCEPT !.pc = "literal", !.why = "replace", !.flags = given,
                                    !.source = m, !.seq = seq]
    <2>1. Step(s, next) /\ UNCHANGED <<disk, archive, snap, cache, others, history>> /\ m \in Nat
      BY <1>2, MailboxAssumption DEF ReplaceBegin
    <2>2. seq \in Nat
      <3>1. {k \in DOMAIN snap[s].messages : k <= m} \in SUBSET Messages
        BY <1>0, RefMapFacts
      <3>2. QED
        BY <3>1, FiniteMessages DEF SequenceOf
    <2> HIDE DEF seq
    <2>3. next \in Ops /\ next.pc = "literal" /\ next.why = "replace"
      BY <2>1, <2>2, IdleTypes DEF Ops, Pcs, Whys
    <2> HIDE DEF next
    <2>4. QED
      BY <2>1, <2>3, OwnStepTypes DEF Removing
  <1>3. ASSUME NEW m \in Messages, LiteralDone(s, m)
        PROVE  TypeInv'
    <2> DEFINE pc == IF o.flags = {} THEN "open" ELSE "flags"
               next == [o EXCEPT !.pc = pc, !.new = m]
    <2>1. Step(s, next) /\ eml' = eml \union {m} /\ used' = used \union {m} /\ o.pc = "literal"
      BY <1>3 DEF LiteralDone, At
    <2>2. pc \in {"open", "flags"} /\ pc \in Pcs /\ m \in Nat
      BY MailboxAssumption DEF Pcs
    <2> HIDE DEF pc
    <2>3. next \in Ops /\ next.pc = pc /\ next.why = o.why
      BY <1>0, <2>2 DEF Ops
    <2>4. DiskTypes' /\ OtherTypes' /\ UNCHANGED <<snap, cache>>
      <3>1. UNCHANGED <<flags, uid, modseq, uidnext, modseqctr, vanished, index, archive, snap, cache,
                        others, issued, leftAt, erased>>
        BY <1>3 DEF LiteralDone
      <3>2. QED
        BY <2>1, <3>1 DEF TypeInv, DiskTypes, OtherTypes, archive, others
    <2> HIDE DEF next
    <2>5. QED
      BY <1>0, <2>1, <2>2, <2>3, <2>4, DiskStepTypes DEF Removing, Shape
  <1>4. CASE AppendFlags(s)
    <2> DEFINE next == [o EXCEPT !.pc = "open"]
    <2>1. next \in Ops /\ next.pc = "open" /\ next.why = o.why
      BY <1>0 DEF Ops, Pcs
    <2>2. Step(s, next) /\ o.pc = "flags" /\ UNCHANGED <<snap, cache>>
      BY <1>4 DEF AppendFlags, At
    <2>3. DiskTypes' /\ OtherTypes'
      <3>1. /\ flags' = [flags EXCEPT ![o.new] = o.flags] /\ o.flags \in SUBSET Flags
            /\ UNCHANGED <<eml, uid, modseq, uidnext, modseqctr, vanished, index, archive, others, history>>
        BY <1>0, <1>4 DEF AppendFlags, Ops
      <3>2. QED
        BY <3>1 DEF TypeInv, DiskTypes, OtherTypes, archive, others, history
    <2> HIDE DEF next
    <2>4. QED
      BY <1>0, <2>1, <2>2, <2>3, DiskStepTypes DEF Removing, Shape
  <1>5. CASE AppendUid(s)
    <2> DEFINE next == IF o.why = "append" THEN Idle ELSE [o EXCEPT !.pc = "open", !.why = "source"]
    <2>1. /\ next \in Ops /\ next.pc \in {"idle", "open"}
          /\ next.pc # "idle" => next.why = "source"
      <3>1. [o EXCEPT !.pc = "open", !.why = "source"] \in Ops
        BY <1>0 DEF Ops, Pcs, Whys
      <3>2. QED
        BY <1>0, <3>1, IdleTypes DEF Ops, Idle
    <2>2. Step(s, next) /\ UNCHANGED <<snap, cache>>
      BY <1>5 DEF AppendUid, Done
    <2>3. DiskTypes' /\ OtherTypes'
      <3>1. /\ issued' = IF o.new \in DOMAIN o.snap.messages
                         THEN issued \union {<<o.snap.messages[o.new].uid, o.new>>} ELSE issued
            /\ UNCHANGED <<disk, archive, others, used, leftAt, erased>>
        BY <1>5 DEF AppendUid
      <3>2. issued' \subseteq (Nat \ {0}) \X Messages
        BY <1>0, <3>1, RefMapFacts DEF TypeInv, OtherTypes
      <3>3. QED
        BY <3>1, <3>2 DEF TypeInv, DiskTypes, OtherTypes, disk, archive, others
    <2> HIDE DEF next
    <2>4. QED
      BY <2>1, <2>2, <2>3, DiskStepTypes DEF Removing
  <1>6. QED
    BY <1>1, <1>2, <1>3, <1>4, <1>5

\* A step of somebody else leaves the connections alone; a crash ends them.
LEMMA OthersTypes ==
  ASSUME TypeInv, Others
  PROVE  TypeInv'
  <1>0. ASSUME UNCHANGED <<op, snap, cache>>, DiskTypes', OtherTypes',
               disturbed' \subseteq {"overlap", "pop3", "crash", "fault"}
        PROVE  TypeInv'
    <2>1. SessionTypes'
      BY <1>0 DEF TypeInv, SessionTypes
    <2>2. \A t \in Sessions : Shape(t)'
      BY <1>0 DEF TypeInv, Shape
    <2>3. QED
      BY <1>0, <2>1, <2>2 DEF TypeInv
  <1>1. ASSUME NEW m \in Messages, NEW given \in SUBSET Flags, Deliver(m, given)
        PROVE  TypeInv'
    <2>1. disturbed' \subseteq {"overlap", "pop3", "crash", "fault"}
      BY <1>1 DEF Deliver, Overlap, TypeInv, SessionTypes
    <2>2. DiskTypes' /\ OtherTypes' /\ UNCHANGED <<op, snap, cache>>
      <3>1. /\ eml' = eml \union {m} /\ used' = used \union {m}
            /\ filing' = IF given = {} THEN filing ELSE filing \union {<<m, given>>}
            /\ UNCHANGED <<flags, uid, modseq, uidnext, modseqctr, vanished, index, archive, op, snap,
                           cache, sweep, restoring, clock, issued, leftAt, erased>>
        BY <1>1 DEF Deliver
      <3>2. QED
        BY <3>1 DEF TypeInv, DiskTypes, OtherTypes, archive
    <2>3. QED
      BY <1>0, <2>1, <2>2
  <1>2. ASSUME NEW m \in Messages, NEW given \in SUBSET Flags, WriteFlagSidecar(m, given)
        PROVE  TypeInv'
    <2>1. /\ flags' = [flags EXCEPT ![m] = given] /\ filing' = filing \ {<<m, given>>}
          /\ UNCHANGED <<eml, uid, modseq, uidnext, modseqctr, vanished, index, archive, op, snap,
                         cache, sweep, restoring, clock, history, disturbed>>
      BY <1>2 DEF WriteFlagSidecar
    <2>2. DiskTypes' /\ OtherTypes'
      BY <2>1 DEF TypeInv, DiskTypes, OtherTypes, archive, history
    <2>3. QED
      BY <1>0, <2>1, <2>2 DEF TypeInv, SessionTypes
  <1>3. ASSUME NEW m \in Messages, Pop3Remove(m)
        PROVE  TypeInv'
    <2>1. /\ eml' = eml \ {m} /\ disturbed' = disturbed \union {"pop3"}
          /\ UNCHANGED <<flags, uid, modseq, uidnext, modseqctr, vanished, index, archive, op, snap,
                         cache, others, used, issued, leftAt>>
      BY <1>3 DEF Pop3Remove
    <2>2. DiskTypes' /\ OtherTypes'
      BY <2>1 DEF TypeInv, DiskTypes, OtherTypes, archive, others
    <2>3. QED
      BY <1>0, <2>1, <2>2 DEF TypeInv, SessionTypes
  <1>4. ASSUME NEW m \in Messages, NEW copy \in Messages, RestoreAppend(m, copy)
        PROVE  TypeInv'
    <2>1. /\ eml' = eml \union {copy} /\ used' = used \union {copy} /\ restoring' = {m}
          /\ UNCHANGED <<flags, uid, modseq, uidnext, modseqctr, vanished, index, archive, op, snap,
                         cache, filing, sweep, clock, issued, leftAt, disturbed>>
      BY <1>4 DEF RestoreAppend
    <2>2. DiskTypes' /\ OtherTypes'
      BY <2>1 DEF TypeInv, DiskTypes, OtherTypes, archive
    <2>3. QED
      BY <1>0, <2>1, <2>2 DEF TypeInv, SessionTypes
  <1>5. ASSUME NEW gone \in SUBSET Messages, archived' = archived \ gone,
               deletedAt' = [m \in Messages |-> IF m \in gone THEN -1 ELSE deletedAt[m]],
               sweep' \subseteq Messages, restoring' \subseteq Messages,
               UNCHANGED <<disk, op, snap, cache, filing, clock, history, disturbed>>
        PROVE  TypeInv'
    <2>1. DiskTypes' /\ OtherTypes'
      BY <1>5 DEF TypeInv, DiskTypes, OtherTypes, disk, history
    <2>2. QED
      BY <1>0, <1>5, <2>1 DEF TypeInv, SessionTypes
  <1>6. CASE RestoreRemove
    <2>1. restoring \in SUBSET Messages /\ sweep \subseteq Messages /\ restoring' = {} /\ sweep' = sweep
      BY <1>6 DEF RestoreRemove, TypeInv, OtherTypes
    <2>2. QED
      BY <1>5, <1>6, <2>1 DEF RestoreRemove
  <1>7. CASE SweepRemove
    <2>1. /\ sweep \in SUBSET Messages /\ restoring \subseteq Messages /\ sweep' = {}
          /\ restoring' = restoring
      BY <1>7 DEF SweepRemove, TypeInv, OtherTypes
    <2>2. QED
      BY <1>5, <1>7, <2>1 DEF SweepRemove
  <1>8. CASE SweepRead
    <2>1. /\ sweep' \subseteq Messages
          /\ UNCHANGED <<disk, archive, op, snap, cache, filing, restoring, clock, history, disturbed>>
      BY <1>8 DEF SweepRead, Due, Sidecars
    <2>2. DiskTypes' /\ OtherTypes'
      BY <2>1 DEF TypeInv, DiskTypes, OtherTypes, disk, archive, history
    <2>3. QED
      BY <1>0, <2>1, <2>2 DEF TypeInv, SessionTypes
  <1>9. CASE Tick
    <2>1. /\ clock' = clock + 1
          /\ UNCHANGED <<disk, archive, op, snap, cache, filing, sweep, restoring, history, disturbed>>
      BY <1>9 DEF Tick
    <2>2. DiskTypes' /\ OtherTypes'
      BY <2>1 DEF TypeInv, DiskTypes, OtherTypes, disk, archive, history
    <2>3. QED
      BY <1>0, <2>1, <2>2 DEF TypeInv, SessionTypes
  <1>10. CASE Crash
    <2>1. /\ op' = [s \in Sessions |-> Idle] /\ snap' = [s \in Sessions |-> NoSnapshot]
          /\ filing' = {} /\ sweep' = {} /\ restoring' = {} /\ disturbed' = disturbed \union {"crash"}
          /\ UNCHANGED <<disk, archive, cache, clock, history>>
      BY <1>10 DEF Crash
    <2>2. DiskTypes' /\ OtherTypes'
      BY <2>1 DEF TypeInv, DiskTypes, OtherTypes, disk, archive, history
    <2>3. SessionTypes'
      BY <2>1, IdleTypes DEF TypeInv, SessionTypes
    <2>4. \A t \in Sessions : Shape(t)'
      BY <2>1 DEF Shape, Idle, Removing
    <2>5. QED
      BY <2>2, <2>3, <2>4 DEF TypeInv
  <1>11. QED
    BY <1>1, <1>2, <1>3, <1>4, <1>6, <1>7, <1>8, <1>9, <1>10 DEF Others

LEMMA InitTypes ==
  ASSUME Init
  PROVE  TypeInv
  <1>1. DiskTypes
    <2>1. NoIndex \in [gen : Nat \X Nat, messages : RefMaps]
      BY NoMessagesMap DEF NoIndex
    <2>2. QED
      BY <2>1 DEF Init, DiskTypes
  <1>2. OtherTypes
    BY DEF Init, OtherTypes
  <1>3. SessionTypes
    <2>1. [uids |-> {}, modseq |-> 0] \in Caches
      BY DEF Caches
    <2>2. QED
      BY <2>1, IdleTypes DEF Init, SessionTypes
  <1>4. \A s \in Sessions : Shape(s)
    BY DEF Init, Shape, Idle, Removing
  <1>5. QED
    BY <1>1, <1>2, <1>3, <1>4 DEF TypeInv

LEMMA NextTypes ==
  ASSUME TypeInv, [Next]_vars
  PROVE  TypeInv'
  <1>1. ASSUME NEW s \in Sessions, Command(s)
        PROVE  TypeInv'
    BY <1>1, SelectTypes, StoreTypes, ExpungeTypes, AppendTypes DEF Command
  <1>2. CASE UNCHANGED vars
    <2>1. DiskTypes' /\ OtherTypes' /\ SessionTypes'
      BY <1>2 DEF vars, disk, archive, others, history, TypeInv, DiskTypes, OtherTypes, SessionTypes
    <2>2. \A t \in Sessions : Shape(t)'
      BY <1>2 DEF vars, TypeInv, Shape
    <2>3. QED
      BY <2>1, <2>2 DEF TypeInv
  <1>3. QED
    BY <1>1, <1>2, OpenTypes, RemovalTypes, OthersTypes DEF Next

LEMMA TypeInvTypeOK ==
  ASSUME TypeInv
  PROVE  TypeOK
  <1>1. ASSUME NEW f \in RefMaps PROVE PartialRefs(f)
    BY <1>1, RefMapFacts DEF PartialRefs
  <1>2. index.messages \in RefMaps
    BY DEF TypeInv, DiskTypes
  <1>3. ASSUME NEW s \in Sessions
        PROVE  /\ snap[s].messages \in RefMaps /\ op[s].snap.messages \in RefMaps
               /\ op[s].ids \subseteq Messages /\ (op[s].pc # "idle" => op[s].why # "none")
    BY DEF TypeInv, SessionTypes, Shape, Ops, Snapshots
  <1>4. QED
    BY <1>1, <1>2, <1>3 DEF TypeOK, TypeInv, DiskTypes, OtherTypes, SessionTypes

(***************************************************************************)
(* The types hold in every behaviour, crashes, faults and overlapping      *)
(* handlers included: what a scan, a removal or a STORE under way still    *)
(* has to do is about messages its snapshot lists, and every message of a  *)
(* snapshot has a positive UID (imap/mailbox.rs, imap/index.rs).           *)
(***************************************************************************)
THEOREM MailboxTypes == Spec => []TypeOK
  <1>1. Init => TypeInv
    BY InitTypes
  <1>2. TypeInv /\ [Next]_vars => TypeInv'
    BY NextTypes
  <1>3. TypeInv => TypeOK
    BY TypeInvTypeOK
  <1>4. QED
    BY <1>1, <1>2, <1>3, PTL DEF Spec

----------------------------------------------------------------------------
(* The archive.                                                            *)

LEMMA InitArchive ==
  ASSUME Init
  PROVE  FreshInv /\ ArchiveInv
  <1>1. FreshInv
    BY NoMessagesMap DEF Init, FreshInv, KnownOp, RecentOp, RecentSnap, Idle, NoSnapshot, NoIndex,
                         Opening, Removing
  <1>2. ArchiveInv
    BY DEF Init, ArchiveInv, Stamped, Swept
  <1>3. QED
    BY <1>1, <1>2

\* A step of one connection whose new record and new snapshot are fresh.
LEMMA FreshStep ==
  ASSUME TypeInv, FreshInv, NEW s \in Sessions,
         \A t \in Sessions : t # s => op'[t] = op[t] /\ snap'[t] = snap[t],
         clock' = clock, used \subseteq used', DOMAIN index'.messages \subseteq used',
         KnownOp(op'[s], used'), RecentOp(op'[s]), RecentSnap(snap'[s], used')
  PROVE  FreshInv'
  <1>1. ASSUME NEW t \in Sessions
        PROVE  (KnownOp(op[t], used) /\ RecentOp(op[t]) /\ RecentSnap(snap[t], used))'
    <2>1. KnownOp(op[t], used) /\ RecentOp(op[t]) /\ RecentSnap(snap[t], used)
      BY DEF FreshInv
    <2>2. CASE t = s
      BY <2>2 DEF KnownOp, RecentOp, RecentSnap
    <2>3. CASE t # s
      BY <2>1, <2>3 DEF KnownOp, RecentOp, RecentSnap
    <2>4. QED
      BY <2>2, <2>3
  <1>2. QED
    BY <1>1 DEF FreshInv

LEMMA OpenFresh ==
  ASSUME TypeInv, FreshInv, NEW s \in Sessions, Open(s)
  PROVE  FreshInv'
  <1> DEFINE o == op[s]
  <1>0. /\ o \in Ops /\ o.snap \in Snapshots /\ o.snap.messages \in RefMaps /\ op \in [Sessions -> Ops]
        /\ KnownOp(o, used) /\ RecentOp(o) /\ RecentSnap(snap[s], used)
        /\ DOMAIN index.messages \subseteq used /\ clock \in Nat /\ SessionSpan \in Nat
    BY MailboxAssumption DEF TypeInv, SessionTypes, OtherTypes, Ops, Snapshots, FreshInv
  <1>1. /\ UNCHANGED <<snap, clock, used>> /\ \A t \in Sessions : t # s => op'[t] = op[t]
    BY <1>0 DEF Open, OpenBegin, OpenFromIndex, ScanList, ScanMessage, ScanCounter, WriteIndex,
                Step, others, history
  <1>2. CASE OpenBegin(s)
    <2>1. op'[s].snap.messages = NoMessages /\ op'[s].ids = o.ids /\ op'[s].snap.now = clock
      BY <1>0, <1>2, IdleTypes DEF OpenBegin, Step, Ops, Snapshots, NoSnapshot
    <2>2. KnownOp(op'[s], used') /\ RecentOp(op'[s]) /\ index' = index
      BY <1>0, <1>1, <1>2, <2>1, NoMessagesMap DEF KnownOp, RecentOp, OpenBegin, disk
    <2>3. QED
      BY <1>0, <1>1, <2>2, FreshStep
  <1>3. CASE OpenFromIndex(s)
    <2>1. /\ op'[s].snap.messages = index.messages /\ op'[s].ids = o.ids
          /\ op'[s].snap.now = o.snap.now /\ o.pc = "load"
      BY <1>0, <1>3 DEF OpenFromIndex, Step, Ops, Snapshots, At
    <2>2. KnownOp(op'[s], used') /\ RecentOp(op'[s]) /\ index' = index
      BY <1>0, <1>1, <1>3, <2>1 DEF KnownOp, RecentOp, OpenFromIndex, disk, Opening
    <2>3. QED
      BY <1>0, <1>1, <2>2, FreshStep
  <1>4. CASE ScanList(s)
    <2>1. op'[s].snap = o.snap /\ op'[s].ids = eml /\ o.pc = "load" /\ eml \subseteq used
      BY <1>0, <1>4 DEF ScanList, Step, Ops, At, TypeInv, DiskTypes
    <2>2. KnownOp(op'[s], used') /\ RecentOp(op'[s]) /\ index' = index
      BY <1>0, <1>1, <1>4, <2>1 DEF KnownOp, RecentOp, ScanList, disk, Opening
    <2>3. QED
      BY <1>0, <1>1, <2>2, FreshStep
  <1>5. CASE ScanMessage(s)
    <2> DEFINE m == Min(o.ids)
               u == AssignOrRead(m, o.counter)
               ref == [uid |-> u, flags |-> flags[m], modseq |-> modseq[m], size |-> SizeSeen(o.why)]
               map == With(o.snap.messages, m, ref)
    <2>1. /\ op'[s].snap.messages = map /\ op'[s].ids = o.ids \ {m}
          /\ op'[s].snap.now = o.snap.now /\ o.pc = "scan"
      BY <1>0, <1>5 DEF ScanMessage, Step, Ops, Snapshots, At
    <2>2. DOMAIN map = DOMAIN o.snap.messages \union {m}
      BY DEF With
    <2>3. m \in o.ids
      BY <1>0, <1>5, MinMessage DEF ScanMessage, Ops
    <2> HIDE DEF m, map
    <2>4. KnownOp(op'[s], used') /\ RecentOp(op'[s]) /\ index' = index
      BY <1>0, <1>1, <1>5, <2>1, <2>2, <2>3 DEF KnownOp, RecentOp, ScanMessage, Opening
    <2>5. QED
      BY <1>0, <1>1, <2>4, FreshStep
  <1>6. CASE ScanCounter(s)
    <2>1. op'[s].snap = o.snap /\ op'[s].ids = o.ids /\ o.pc = "scan"
      BY <1>0, <1>6 DEF ScanCounter, Step, Ops, At
    <2>2. KnownOp(op'[s], used') /\ RecentOp(op'[s]) /\ index' = index
      BY <1>0, <1>1, <1>6, <2>1 DEF KnownOp, RecentOp, ScanCounter, Opening
    <2>3. QED
      BY <1>0, <1>1, <2>2, FreshStep
  <1>7. CASE WriteIndex(s)
    <2>1. /\ op'[s].snap.messages = o.snap.messages /\ op'[s].ids = o.ids
          /\ op'[s].snap.now = o.snap.now /\ o.pc = "index" /\ index'.messages = o.snap.messages
      BY <1>0, <1>7 DEF WriteIndex, Step, Ops, Snapshots, At
    <2>2. KnownOp(op'[s], used') /\ RecentOp(op'[s])
      BY <1>0, <1>1, <2>1 DEF KnownOp, RecentOp, Opening
    <2>3. DOMAIN index'.messages \subseteq used'
      BY <1>0, <1>1, <2>1 DEF KnownOp
    <2>4. QED
      BY <1>0, <1>1, <2>2, <2>3, FreshStep
  <1>8. QED
    BY <1>2, <1>3, <1>4, <1>5, <1>6, <1>7 DEF Open

LEMMA RemovalFresh ==
  ASSUME TypeInv, FreshInv, NEW s \in Sessions, Removal(s)
  PROVE  FreshInv'
  <1> DEFINE o == op[s]
             m == Min(o.ids)
  <1>0. /\ o \in Ops /\ o.snap \in Snapshots /\ o.snap.messages \in RefMaps /\ op \in [Sessions -> Ops]
        /\ KnownOp(o, used) /\ RecentOp(o) /\ RecentSnap(snap[s], used) /\ Shape(s)
        /\ snap \in [Sessions -> Snapshots]
        /\ DOMAIN index.messages \subseteq used /\ clock \in Nat /\ SessionSpan \in Nat
    BY MailboxAssumption DEF TypeInv, SessionTypes, OtherTypes, Ops, Snapshots, FreshInv
  <1>1. /\ UNCHANGED <<clock, used, index>>
        /\ \A t \in Sessions : t # s => op'[t] = op[t] /\ snap'[t] = snap[t]
    BY <1>0 DEF Removal, RemoveFiles, ArchiveSidecar, ArchiveSidecars, ArchiveBody, ArchiveFails,
                VanishedBump, VanishedRecord, Done, Step, others, history, disk
  <1>2. ASSUME op'[s] = Removed(o, m), o.pc \in Removing, o.ids # {}, snap' = snap
        PROVE  FreshInv'
    <2>1. o.ids \subseteq DOMAIN o.snap.messages
      BY <1>0, <1>2 DEF Shape
    <2>2. /\ op'[s].ids \subseteq o.ids /\ DOMAIN op'[s].snap.messages \subseteq DOMAIN o.snap.messages
          /\ op'[s].snap.now = o.snap.now
      BY <1>0, <1>2, <2>1, RemovedFacts
    <2>3. KnownOp(op'[s], used') /\ RecentOp(op'[s])
      BY <1>0, <1>1, <1>2, <2>2 DEF KnownOp, RecentOp
    <2>4. QED
      BY <1>0, <1>1, <1>2, <2>3, FreshStep
  <1>3. CASE RemoveFiles(s)
    BY <1>0, <1>2, <1>3 DEF RemoveFiles, Step, At, Removing
  <1>4. CASE ArchiveBody(s)
    BY <1>0, <1>2, <1>4 DEF ArchiveBody, Step, At, Removing, Shape
  <1>5. CASE ArchiveFails(s)
    BY <1>0, <1>2, <1>5 DEF ArchiveFails, Removing
  <1>6. CASE ArchiveSidecar(s) \/ ArchiveSidecars(s) \/ VanishedBump(s)
    <2>1. op'[s].snap = o.snap /\ op'[s].ids = o.ids /\ o.pc \in Removing /\ snap' = snap
      <3>1. CASE ArchiveSidecar(s)
        BY <1>0, <3>1 DEF ArchiveSidecar, Step, At, Removing, Ops
      <3>2. CASE ArchiveSidecars(s)
        BY <1>0, <3>2 DEF ArchiveSidecars, Step, At, Removing, Ops
      <3>3. CASE VanishedBump(s)
        BY <1>0, <3>3 DEF VanishedBump, Step, At, Removing, Ops
      <3>4. QED
        BY <1>6, <3>1, <3>2, <3>3
    <2>2. KnownOp(op'[s], used') /\ RecentOp(op'[s])
      BY <1>0, <1>1, <2>1 DEF KnownOp, RecentOp
    <2>3. QED
      BY <1>0, <1>1, <2>1, <2>2, FreshStep
  <1>7. CASE VanishedRecord(s)
    <2>1. op'[s] = Idle /\ o.pc = "record" /\ snap'[s] \in {snap[s], o.snap}
      BY <1>0, <1>7 DEF VanishedRecord, Done, Step, At
    <2>2. KnownOp(op'[s], used') /\ RecentOp(op'[s])
      BY <2>1, NoMessagesMap DEF KnownOp, RecentOp, Idle, NoSnapshot, Opening, Removing
    <2>3. RecentSnap(snap'[s], used')
      BY <1>0, <1>1, <2>1 DEF RecentSnap, KnownOp, RecentOp
    <2>4. QED
      BY <1>0, <1>1, <2>2, <2>3, FreshStep
  <1>8. QED
    BY <1>3, <1>4, <1>5, <1>6, <1>7 DEF Removal

\* What every command of a connection leaves alone.
Framed(s) ==
    /\ UNCHANGED <<uid, uidnext, vanished, index, archived, deletedAt, filing, sweep, restoring,
                   clock, leftAt, erased>>
    /\ \A t \in Sessions : t # s => op'[t] = op[t] /\ snap'[t] = snap[t] /\ cache'[t] = cache[t]
    /\ op[s].pc \in {"idle", "opened", "literal", "flags", "bump", "stamp"}
    /\ disturbed \subseteq disturbed'
    /\ "overlap" \notin disturbed' => filing = {} /\ \A t \in Sessions \ {s} : ~Busy(t)
    /\ used \subseteq used' /\ eml \subseteq eml'

LEMMA CommandFrame ==
  ASSUME TypeInv, NEW s \in Sessions, Command(s)
  PROVE  Framed(s)
  <1>0. /\ op \in [Sessions -> Ops] /\ snap \in [Sessions -> Snapshots]
        /\ cache \in [Sessions -> Caches]
    BY DEF TypeInv, SessionTypes
  <1>s. ASSUME NEW next, Step(s, next)
        PROVE  /\ \A t \in Sessions : t # s => op'[t] = op[t]
               /\ disturbed \subseteq disturbed'
               /\ "overlap" \notin disturbed' => filing = {} /\ \A t \in Sessions \ {s} : ~Busy(t)
    BY <1>0, <1>s DEF Step, Overlap
  <1>1. CASE Select(s) \/ SelectDone(s) \/ CheckIdle(s) \/ CheckIdleDone(s) \/ Close(s)
    BY <1>0, <1>s, <1>1 DEF Framed, Select, SelectDone, CheckIdle, CheckIdleDone, Close, Start, Done,
                            Begin, At, disk, archive, others, history
  <1>2. CASE StoreBump(s) \/ StoreStamp(s)
    BY <1>0, <1>s, <1>2 DEF Framed, StoreBump, StoreStamp, Done, At, archive, others, history
  <1>3. ASSUME NEW m \in Messages, NEW mode \in Modes, NEW given \in SUBSET Flags,
               NEW since \in {0, cache[s].modseq}, Store(s, m, mode, given, since)
        PROVE  Framed(s)
    BY <1>0, <1>s, <1>3 DEF Framed, Store, Begin, archive, others, history
  <1>4. ASSUME NEW ids \in SUBSET Messages, Expunge(s, ids)
        PROVE  Framed(s)
    BY <1>0, <1>s, <1>4 DEF Framed, Expunge, Begin, disk, archive, others, history
  <1>5. ASSUME NEW m \in Messages, Destroy(s, m)
        PROVE  Framed(s)
    BY <1>0, <1>s, <1>5 DEF Framed, Destroy, Begin, disk, archive, others, history
  <1>6. CASE DestroyFound(s) \/ ReplaceExpunge(s)
    BY <1>0, <1>s, <1>6 DEF Framed, DestroyFound, ReplaceExpunge, Done, At, disk, archive, others, history
  <1>7. ASSUME NEW given \in SUBSET Flags, AppendBegin(s, given)
        PROVE  Framed(s)
    BY <1>0, <1>s, <1>7 DEF Framed, AppendBegin, Begin, disk, archive, others, history
  <1>8. ASSUME NEW m \in Messages, NEW given \in SUBSET Flags, ReplaceBegin(s, m, given)
        PROVE  Framed(s)
    BY <1>0, <1>s, <1>8 DEF Framed, ReplaceBegin, Begin, disk, archive, others, history
  <1>9. ASSUME NEW m \in Messages, LiteralDone(s, m)
        PROVE  Framed(s)
    BY <1>0, <1>s, <1>9 DEF Framed, LiteralDone, At, archive, others
  <1>10. CASE AppendFlags(s) \/ AppendUid(s)
    BY <1>0, <1>s, <1>10 DEF Framed, AppendFlags, AppendUid, Done, At, disk, archive, others, history
  <1>11. QED
    BY <1>1, <1>2, <1>3, <1>4, <1>5, <1>6, <1>7, <1>8, <1>9, <1>10 DEF Command

LEMMA CommandFresh ==
  ASSUME TypeInv, FreshInv, NEW s \in Sessions, Command(s)
  PROVE  FreshInv'
  <1> DEFINE o == op[s]
  <1>0. /\ o \in Ops /\ o.snap \in Snapshots /\ o.snap.messages \in RefMaps /\ op \in [Sessions -> Ops]
        /\ KnownOp(o, used) /\ RecentOp(o) /\ RecentSnap(snap[s], used)
        /\ snap \in [Sessions -> Snapshots] /\ snap[s].messages \in RefMaps
        /\ DOMAIN index.messages \subseteq used /\ clock \in Nat /\ SessionSpan \in Nat
    BY MailboxAssumption DEF TypeInv, SessionTypes, OtherTypes, Ops, Snapshots, FreshInv
  <1>1. /\ UNCHANGED <<clock, index>> /\ used \subseteq used'
        /\ \A t \in Sessions : t # s => op'[t] = op[t] /\ snap'[t] = snap[t]
    BY CommandFrame DEF Framed
  <1>2. RecentSnap(snap[s], used') /\ KnownOp(o, used')
    BY <1>0, <1>1 DEF RecentSnap, KnownOp
  <1>3. ASSUME op'[s].ids = {}, op'[s].snap \in {NoSnapshot, snap[s]},
               op'[s].pc \notin Opening \union Removing \union {"record"},
               RecentSnap(snap'[s], used')
        PROVE  FreshInv'
    <2>1. KnownOp(op'[s], used') /\ RecentOp(op'[s])
      BY <1>2, <1>3, NoMessagesMap DEF KnownOp, RecentOp, RecentSnap, NoSnapshot
    <2>2. QED
      BY <1>0, <1>1, <1>3, <2>1, FreshStep
  <1>4. ASSUME Done(s), RecentSnap(snap'[s], used')
        PROVE  FreshInv'
    BY <1>0, <1>3, <1>4 DEF Done, Step, Idle, Opening, Removing
  <1>5. CASE Select(s) \/ CheckIdle(s)
    <2>1. /\ op'[s].ids = {} /\ op'[s].snap = NoSnapshot /\ op'[s].pc = "open" /\ snap' = snap
      BY <1>0, <1>5 DEF Select, CheckIdle, Start, Step, Idle
    <2>2. QED
      BY <1>2, <1>3, <2>1 DEF Opening, Removing
  <1>6. CASE SelectDone(s) \/ CheckIdleDone(s)
    <2>1. Done(s) /\ snap'[s] \in {snap[s], o.snap} /\ o.pc = "opened"
      BY <1>0, <1>6 DEF SelectDone, CheckIdleDone, At
    <2>2. RecentSnap(o.snap, used')
      BY <1>0, <1>2, <2>1 DEF RecentSnap, KnownOp, RecentOp, Opening
    <2>3. QED
      BY <1>2, <1>4, <2>1, <2>2
  <1>7. CASE Close(s)
    <2>1. Done(s) /\ snap'[s] = NoSnapshot
      BY <1>0, <1>7 DEF Close
    <2>2. RecentSnap(NoSnapshot, used')
      BY NoMessagesMap DEF RecentSnap, NoSnapshot
    <2>3. QED
      BY <1>4, <2>1, <2>2
  <1>8. CASE StoreBump(s)
    <2>1. op'[s].ids = o.ids /\ op'[s].snap = o.snap /\ op'[s].pc = "stamp" /\ snap' = snap
      BY <1>0, <1>8 DEF StoreBump, Step, Ops
    <2>2. KnownOp(op'[s], used') /\ RecentOp(op'[s])
      BY <1>2, <2>1 DEF KnownOp, RecentOp, Opening, Removing
    <2>3. QED
      BY <1>0, <1>1, <1>2, <2>1, <2>2, FreshStep
  <1>9. CASE StoreStamp(s)
    <2> DEFINE ref == [snap[s].messages[o.new] EXCEPT !.flags = o.flags, !.modseq = o.counter]
               map == With(snap[s].messages, o.new, ref)
    <2>1. /\ Done(s) /\ o.pc = "stamp" /\ snap'[s].messages = map /\ snap'[s].now = snap[s].now
          /\ snap'[s].open = snap[s].open
      BY <1>0, <1>9 DEF StoreStamp, Snapshots, At
    <2>2. DOMAIN map = DOMAIN snap[s].messages \union {o.new} /\ o.new \in DOMAIN snap[s].messages
      BY <2>1 DEF With, TypeInv, Shape
    <2> HIDE DEF map
    <2>3. RecentSnap(snap'[s], used')
      BY <1>2, <2>1, <2>2 DEF RecentSnap
    <2>4. QED
      BY <1>4, <2>1, <2>3
  <1>10. ASSUME NEW m \in Messages, NEW mode \in Modes, NEW given \in SUBSET Flags,
                NEW since \in {0, cache[s].modseq}, Store(s, m, mode, given, since)
         PROVE  FreshInv'
    <2>1. op'[s].ids = {} /\ op'[s].snap = snap[s] /\ op'[s].pc = "bump" /\ snap' = snap
      BY <1>0, <1>10 DEF Store, Step, Idle
    <2>2. QED
      BY <1>2, <1>3, <2>1 DEF Opening, Removing
  <1>11. ASSUME NEW ids \in SUBSET Messages, Expunge(s, ids)
         PROVE  FreshInv'
    <2>1. /\ op'[s].ids = ids /\ op'[s].snap = snap[s] /\ snap[s].open /\ snap' = snap
          /\ ids \subseteq DOMAIN snap[s].messages
      BY <1>0, <1>11 DEF Expunge, Step, Idle
    <2>2. KnownOp(op'[s], used') /\ RecentOp(op'[s])
      BY <1>2, <2>1 DEF KnownOp, RecentOp, RecentSnap
    <2>3. QED
      BY <1>0, <1>1, <1>2, <2>1, <2>2, FreshStep
  <1>12. ASSUME NEW m \in Messages, Destroy(s, m)
         PROVE  FreshInv'
    BY <1>0, <1>2, <1>3, <1>12 DEF Destroy, Step, Idle, Opening, Removing
  <1>13. ASSUME NEW ids \in SUBSET (DOMAIN o.snap.messages), o.pc = "opened", snap' = snap,
                Step(s, [o EXCEPT !.pc = "remove", !.ids = ids])
         PROVE  FreshInv'
    <2>1. op'[s].ids = ids /\ op'[s].snap = o.snap
      BY <1>0, <1>13 DEF Step, Ops
    <2>2. KnownOp(op'[s], used') /\ RecentOp(op'[s])
      BY <1>0, <1>2, <1>13, <2>1 DEF KnownOp, RecentOp, Opening
    <2>3. QED
      BY <1>0, <1>1, <1>2, <1>13, <2>2, FreshStep
  <1>14. CASE DestroyFound(s)
    <2>1. o.pc = "opened" /\ snap' = snap
      BY <1>14 DEF DestroyFound, At
    <2>2. CASE o.source \in DOMAIN o.snap.messages
      BY <1>13, <1>14, <2>1, <2>2 DEF DestroyFound
    <2>3. CASE o.source \notin DOMAIN o.snap.messages
      BY <1>2, <1>4, <1>14, <2>1, <2>3 DEF DestroyFound
    <2>4. QED
      BY <2>2, <2>3
  <1>15. CASE ReplaceExpunge(s)
    <2> DEFINE found == BySequence(o.snap.messages, o.seq)
    <2>1. /\ o.pc = "opened" /\ snap' = snap
          /\ IF found # {} THEN Step(s, [o EXCEPT !.pc = "remove", !.ids = found]) ELSE Done(s)
      BY <1>15 DEF ReplaceExpunge, At
    <2>2. found \in SUBSET (DOMAIN o.snap.messages)
      BY DEF BySequence
    <2> HIDE DEF found
    <2>3. QED
      BY <1>2, <1>4, <1>13, <2>1, <2>2
  <1>16. ASSUME NEW given \in SUBSET Flags, AppendBegin(s, given)
         PROVE  FreshInv'
    BY <1>0, <1>2, <1>3, <1>16 DEF AppendBegin, Step, Idle, Opening, Removing
  <1>17. ASSUME NEW m \in Messages, NEW given \in SUBSET Flags, ReplaceBegin(s, m, given)
         PROVE  FreshInv'
    BY <1>0, <1>2, <1>3, <1>17 DEF ReplaceBegin, Step, Idle, Opening, Removing
  <1>18. ASSUME snap' = snap, op'[s].ids = o.ids, op'[s].snap = o.snap,
                op'[s].pc \notin Opening \union Removing \union {"record"}
         PROVE  FreshInv'
    <2>1. KnownOp(op'[s], used') /\ RecentOp(op'[s])
      BY <1>2, <1>18 DEF KnownOp, RecentOp
    <2>2. QED
      BY <1>0, <1>1, <1>2, <1>18, <2>1, FreshStep
  <1>19. ASSUME NEW m \in Messages, LiteralDone(s, m)
         PROVE  FreshInv'
    <2>1. /\ snap' = snap /\ op'[s].ids = o.ids /\ op'[s].snap = o.snap
          /\ op'[s].pc \in {"open", "flags"}
      BY <1>0, <1>19 DEF LiteralDone, Step, Ops
    <2>2. QED
      BY <1>18, <2>1 DEF Opening, Removing
  <1>20. CASE AppendFlags(s)
    <2>1. snap' = snap /\ op'[s].ids = o.ids /\ op'[s].snap = o.snap /\ op'[s].pc = "open"
      BY <1>0, <1>20 DEF AppendFlags, Step, Ops
    <2>2. QED
      BY <1>18, <2>1 DEF Opening, Removing
  <1>21. CASE AppendUid(s)
    <2>1. CASE o.why = "append"
      BY <1>2, <1>4, <1>21, <2>1 DEF AppendUid
    <2>2. CASE o.why # "append"
      <3>0. snap' = snap /\ Step(s, [o EXCEPT !.pc = "open", !.why = "source"])
        BY <1>21, <2>2 DEF AppendUid
      <3>1. op'[s].ids = o.ids /\ op'[s].snap = o.snap /\ op'[s].pc = "open"
        BY <1>0, <3>0 DEF Step, Ops
      <3>2. QED
        BY <1>18, <3>0, <3>1 DEF Opening, Removing
    <2>3. QED
      BY <2>1, <2>2
  <1>22. QED
    BY <1>5, <1>6, <1>7, <1>8, <1>9, <1>10, <1>11, <1>12, <1>14, <1>15, <1>16, <1>17, <1>19, <1>20, <1>21
       DEF Command

LEMMA OthersFresh ==
  ASSUME TypeInv, FreshInv, Others
  PROVE  FreshInv'
  <1>0. clock \in Nat /\ SessionSpan \in Nat /\ snap \in [Sessions -> Snapshots]
    BY MailboxAssumption DEF TypeInv, OtherTypes, SessionTypes
  <1>1. ASSUME UNCHANGED <<op, snap, index, clock>>, used \subseteq used'
        PROVE  FreshInv'
    BY <1>1 DEF FreshInv, KnownOp, RecentOp, RecentSnap
  <1>2. ASSUME NEW m \in Messages, NEW given \in SUBSET Flags,
               Deliver(m, given) \/ WriteFlagSidecar(m, given)
        PROVE  FreshInv'
    BY <1>1, <1>2 DEF Deliver, WriteFlagSidecar, history
  <1>3. ASSUME NEW m \in Messages, Pop3Remove(m)
        PROVE  FreshInv'
    BY <1>1, <1>3 DEF Pop3Remove, others
  <1>4. ASSUME NEW m \in Messages, NEW copy \in Messages, RestoreAppend(m, copy)
        PROVE  FreshInv'
    BY <1>1, <1>4 DEF RestoreAppend
  <1>5. CASE RestoreRemove \/ SweepRead \/ SweepRemove
    BY <1>1, <1>5 DEF RestoreRemove, SweepRead, SweepRemove, disk, history
  <1>6. CASE Tick
    <2>1. /\ \A s \in Sessions : ~Busy(s) /\ (snap[s].open => clock - snap[s].now < SessionSpan)
          /\ clock' = clock + 1 /\ UNCHANGED <<op, snap, index, used>>
      BY <1>6 DEF Tick, disk, history
    <2>2. ASSUME NEW s \in Sessions
          PROVE  (KnownOp(op[s], used) /\ RecentOp(op[s]) /\ RecentSnap(snap[s], used))'
      <3>1. op[s].pc \notin Opening \union Removing \union {"record"}
        BY <2>1 DEF Busy, Opening, Removing
      <3>2. KnownOp(op[s], used) /\ RecentSnap(snap[s], used) /\ snap[s].now \in Nat
        BY <1>0 DEF FreshInv, Snapshots
      <3>3. QED
        BY <1>0, <2>1, <3>1, <3>2 DEF KnownOp, RecentOp, RecentSnap
    <2>3. QED
      BY <2>1, <2>2 DEF FreshInv
  <1>7. CASE Crash
    <2>1. /\ op' = [s \in Sessions |-> Idle] /\ snap' = [s \in Sessions |-> NoSnapshot]
          /\ UNCHANGED <<index, used>>
      BY <1>7 DEF Crash, disk, history
    <2>2. QED
      BY <2>1, NoMessagesMap DEF FreshInv, KnownOp, RecentOp, RecentSnap, Idle, NoSnapshot,
                                 Opening, Removing
  <1>8. QED
    BY <1>2, <1>3, <1>4, <1>5, <1>6, <1>7 DEF Others

\* A step that leaves the archive alone and under which nobody stops moving.
LEMMA ArchiveFrame ==
  ASSUME TypeInv, ArchiveInv, disturbed \subseteq disturbed',
         UNCHANGED <<eml, archived, deletedAt, leftAt, sweep, restoring, used, erased, clock>>,
         \A t \in Sessions : op[t].pc \in {"move", "body"} =>
             op'[t].pc \in {"move", "body"} /\ op'[t].ids = op[t].ids
  PROVE  ArchiveInv'
  <1>1. Spared({"crash", "fault"})' => Spared({"crash", "fault"})
    BY DEF Spared
  <1>2. \A t \in Sessions : \A m : Moving(t, m) => Moving(t, m)'
    BY DEF Moving
  <1>3. QED
    BY <1>1, <1>2 DEF ArchiveInv, Stamped, Swept, Outlived

LEMMA OpenArchive ==
  ASSUME TypeInv, ArchiveInv, NEW s \in Sessions, Open(s)
  PROVE  ArchiveInv'
  <1>0. op \in [Sessions -> Ops]
    BY DEF TypeInv, SessionTypes
  <1>1. /\ UNCHANGED <<eml, archived, deletedAt, leftAt, sweep, restoring, used, erased, clock>>
        /\ \A t \in Sessions : t # s => op'[t] = op[t]
        /\ disturbed \subseteq disturbed' /\ op[s].pc \notin {"move", "body"}
    BY <1>0 DEF Open, OpenBegin, OpenFromIndex, ScanList, ScanMessage, ScanCounter, WriteIndex, Step, At,
                disk, archive, others, history
  <1>2. QED
    BY <1>1, ArchiveFrame

\* A message appears under an id nobody has used.
LEMMA ArchiveGrows ==
  ASSUME TypeInv, ArchiveInv, NEW m \in Messages, m \notin used,
         eml' = eml \union {m}, used' = used \union {m}, disturbed \subseteq disturbed',
         UNCHANGED <<archived, deletedAt, leftAt, sweep, clock>>,
         erased \subseteq erased', restoring' \subseteq erased',
         \A t \in Sessions : op[t].pc \in {"move", "body"} =>
             op'[t].pc \in {"move", "body"} /\ op'[t].ids = op[t].ids
  PROVE  ArchiveInv'
  <1>1. Spared({"crash", "fault"})' => Spared({"crash", "fault"})
    BY DEF Spared
  <1>2. \A t \in Sessions : \A k : Moving(t, k) => Moving(t, k)'
    BY DEF Moving
  <1>3. ~(deletedAt[m] >= 0) /\ m \notin sweep
    BY DEF ArchiveInv
  <1>4. ASSUME Spared({"crash", "fault"})
        PROVE  Stamped' /\ Swept'
    <2>1. Stamped /\ Swept
      BY <1>4 DEF ArchiveInv
    <2>2. Stamped'
      BY <1>2, <1>3, <2>1 DEF Stamped
    <2>3. Swept'
      BY <1>3, <2>1 DEF Swept, Outlived
    <2>4. QED
      BY <2>2, <2>3
  <1>5. QED
    BY <1>1, <1>4 DEF ArchiveInv

LEMMA CommandArchive ==
  ASSUME TypeInv, ArchiveInv, NEW s \in Sessions, Command(s)
  PROVE  ArchiveInv'
  <1>1. Framed(s)
    BY CommandFrame
  <1>2. ASSUME UNCHANGED <<eml, used>>
        PROVE  ArchiveInv'
    BY <1>1, <1>2, ArchiveFrame DEF Framed
  <1>3. ASSUME NEW m \in Messages, LiteralDone(s, m)
        PROVE  ArchiveInv'
    <2>1. m \notin used /\ eml' = eml \union {m} /\ used' = used \union {m}
      BY <1>3, NewestNew DEF LiteralDone
    <2>2. restoring' \subseteq erased'
      BY <1>1 DEF Framed, ArchiveInv
    <2>3. QED
      BY <1>1, <2>1, <2>2, ArchiveGrows DEF Framed
  <1>4. CASE Select(s) \/ SelectDone(s) \/ CheckIdle(s) \/ CheckIdleDone(s) \/ Close(s)
    BY <1>2, <1>4 DEF Select, SelectDone, CheckIdle, CheckIdleDone, Close, disk, history
  <1>5. CASE StoreBump(s) \/ StoreStamp(s) \/ DestroyFound(s) \/ ReplaceExpunge(s)
             \/ AppendFlags(s) \/ AppendUid(s)
    BY <1>2, <1>5 DEF StoreBump, StoreStamp, DestroyFound, ReplaceExpunge, AppendFlags, AppendUid,
                      disk, history
  <1>6. ASSUME NEW m \in Messages, NEW mode \in Modes, NEW given \in SUBSET Flags,
               NEW since \in {0, cache[s].modseq}, Store(s, m, mode, given, since)
        PROVE  ArchiveInv'
    BY <1>2, <1>6 DEF Store, history
  <1>7. ASSUME NEW ids \in SUBSET Messages, Expunge(s, ids)
        PROVE  ArchiveInv'
    BY <1>2, <1>7 DEF Expunge, disk, history
  <1>8. CASE \E m \in Messages, given \in SUBSET Flags : ReplaceBegin(s, m, given)
    BY <1>2, <1>8 DEF ReplaceBegin, disk, history
  <1>9. CASE \E given \in SUBSET Flags : AppendBegin(s, given)
    BY <1>2, <1>9 DEF AppendBegin, disk, history
  <1>10. CASE \E m \in Messages : Destroy(s, m)
    BY <1>2, <1>10 DEF Destroy, disk, history
  <1>11. QED
    BY <1>3, <1>4, <1>5, <1>6, <1>7, <1>8, <1>9, <1>10 DEF Command

LEMMA RemovalArchive ==
  ASSUME TypeInv, FreshInv, ArchiveInv, NEW s \in Sessions, Removal(s)
  PROVE  ArchiveInv'
  <1> DEFINE o == op[s]
             m == Min(o.ids)
  <1>0. /\ o \in Ops /\ o.snap \in Snapshots /\ op \in [Sessions -> Ops] /\ Shape(s)
        /\ KnownOp(o, used) /\ RecentOp(o) /\ clock \in Nat /\ SessionSpan \in Nat /\ Retention \in Nat
        /\ leftAt \in [Messages -> Nat] /\ deletedAt \in [Messages -> Int]
        /\ eml \subseteq Messages /\ archived \subseteq Messages /\ used \subseteq Messages
    BY MailboxAssumption DEF TypeInv, SessionTypes, DiskTypes, OtherTypes, Ops, Snapshots, FreshInv
  <1>1. disturbed \subseteq disturbed' /\ \A t \in Sessions : t # s => op'[t] = op[t]
    BY <1>0 DEF Removal, RemoveFiles, ArchiveSidecar, ArchiveSidecars, ArchiveBody, ArchiveFails,
                VanishedBump, VanishedRecord, Done, Step
  <1>2. Spared({"crash", "fault"})' => Spared({"crash", "fault"})
    BY <1>1 DEF Spared
  <1>3. o.ids # {} => m \in o.ids /\ m \in Messages /\ m \in used
    BY <1>0, MinMessage DEF Ops, KnownOp
  <1> HIDE DEF m
  <1>4. CASE RemoveFiles(s)
    <2>1. /\ eml' = eml \ {m} /\ erased' = erased \union {m} /\ o.pc = "remove"
          /\ UNCHANGED <<archived, deletedAt, leftAt, sweep, restoring, used, clock>>
      BY <1>4 DEF RemoveFiles, At, archive, others, m
    <2>2. \A t \in Sessions : \A k : Moving(t, k) => Moving(t, k)'
      BY <1>1, <2>1 DEF Moving
    <2>3. QED
      BY <1>2, <2>1, <2>2 DEF ArchiveInv, Stamped, Swept, Outlived
  <1>5. CASE ArchiveSidecar(s)
    <2>1. /\ deletedAt' = [deletedAt EXCEPT ![m] = o.snap.now] /\ o.pc = "remove" /\ o.ids # {}
          /\ op'[s].pc = "move" /\ op'[s].ids = o.ids
          /\ UNCHANGED <<eml, archived, leftAt, sweep, restoring, used, erased, clock>>
      BY <1>0, <1>5 DEF ArchiveSidecar, At, Step, Ops, disk, others, history, m
    <2>2. \A t \in Sessions : \A k : Moving(t, k) => Moving(t, k)'
      BY <1>1, <2>1 DEF Moving
    <2>3. m = Min(op'[s].ids) /\ clock - o.snap.now <= SessionSpan /\ o.snap.now \in Nat
      BY <1>0, <2>1 DEF m, RecentOp, Removing, Snapshots
    <2>4. \A k \in Messages : k # m => deletedAt'[k] = deletedAt[k]
      BY <1>0, <2>1
    <2>5. deletedAt'[m] = o.snap.now
      BY <1>0, <1>3, <2>1
    <2>6. ASSUME Spared({"crash", "fault"})
          PROVE  Stamped' /\ Swept'
      <3>1. Stamped /\ Swept
        BY <2>6 DEF ArchiveInv
      <3>2. ASSUME NEW k \in eml, deletedAt'[k] >= 0
            PROVE  clock - deletedAt'[k] <= SessionSpan /\ \E t \in Sessions : Moving(t, k)'
        <4>1. CASE k = m
          <5>1. clock - deletedAt'[m] <= SessionSpan
            BY <2>3, <2>5
          <5>2. \E t \in Sessions : Moving(t, k)'
            BY <2>1, <2>3, <4>1 DEF Moving
          <5>3. QED
            BY <4>1, <5>1, <5>2
        <4>2. CASE k # m
          <5>1. deletedAt'[k] = deletedAt[k]
            BY <1>0, <2>4, <4>2
          <5>2. clock - deletedAt[k] <= SessionSpan /\ \E t \in Sessions : Moving(t, k)
            BY <3>1, <3>2, <5>1 DEF Stamped
          <5>3. QED
            BY <2>2, <5>1, <5>2
        <4>3. QED
          BY <4>1, <4>2
      <3>3. ASSUME NEW k \in archived, deletedAt'[k] >= 0
            PROVE  leftAt[k] <= deletedAt'[k] + SessionSpan
        <4>1. CASE k = m
          <5>1. leftAt[m] <= clock /\ leftAt[m] \in Nat
            BY <1>0, <1>3, <2>1 DEF ArchiveInv
          <5>2. QED
            BY <1>0, <2>3, <2>5, <4>1, <5>1
        <4>2. CASE k # m
          BY <1>0, <2>4, <3>1, <3>3, <4>2 DEF Stamped
        <4>3. QED
          BY <4>1, <4>2
      <3>4. QED
        BY <2>1, <3>1, <3>2, <3>3 DEF Stamped, Swept, Outlived
    <2>7. \A k \in Messages : deletedAt'[k] >= 0 => k \in used
      BY <1>3, <2>1, <2>4 DEF ArchiveInv
    <2>8. QED
      BY <1>2, <2>1, <2>6, <2>7 DEF ArchiveInv
  <1>6. CASE ArchiveSidecars(s)
    <2>1. /\ op'[s].pc = "body" /\ op'[s].ids = o.ids
          /\ UNCHANGED <<eml, archived, deletedAt, leftAt, sweep, restoring, used, erased, clock>>
      BY <1>0, <1>6 DEF ArchiveSidecars, Step, Ops, archive, others, history
    <2>2. QED
      BY <1>1, <2>1, ArchiveFrame
  <1>7. CASE ArchiveBody(s)
    <2>1. /\ eml' = eml \ {m} /\ archived' = archived \union ({m} \intersect eml)
          /\ leftAt' = IF m \in eml THEN [leftAt EXCEPT ![m] = clock] ELSE leftAt
          /\ o.pc = "body" /\ o.ids # {} /\ UNCHANGED <<deletedAt, sweep, restoring, used, erased, clock>>
      BY <1>0, <1>7 DEF ArchiveBody, At, others, m, Shape
    <2>2. \A t \in Sessions, k \in eml' : Moving(t, k) => Moving(t, k)'
      BY <1>1, <2>1 DEF Moving, m
    <2>3. \A k \in Messages : k # m => leftAt'[k] = leftAt[k]
      BY <1>0, <2>1
    <2>4. m \in eml => leftAt'[m] = clock
      BY <1>0, <2>1
    <2>5. ASSUME Spared({"crash", "fault"})
          PROVE  Stamped' /\ Swept'
      <3>1. Stamped /\ Swept
        BY <2>5 DEF ArchiveInv
      <3>2. CASE m \notin eml
        BY <2>1, <2>2, <3>1, <3>2 DEF Stamped, Swept, Outlived
      <3>3. CASE m \in eml
        <4>1. deletedAt[m] >= 0 => clock <= deletedAt[m] + SessionSpan
          <5>1. deletedAt[m] \in Int
            BY <1>0, <3>3
          <5>2. QED
            BY <1>0, <3>1, <3>3, <5>1 DEF Stamped
        <4>2. Stamped'
          <5>1. \A k \in eml' : deletedAt[k] >= 0 =>
                   clock - deletedAt[k] <= SessionSpan /\ \E t \in Sessions : Moving(t, k)'
            BY <2>1, <2>2, <3>1 DEF Stamped
          <5>2. \A k \in archived' : deletedAt[k] >= 0 => leftAt'[k] <= deletedAt[k] + SessionSpan
            BY <1>0, <2>1, <2>3, <2>4, <3>1, <3>3, <4>1 DEF Stamped
          <5>3. QED
            BY <2>1, <5>1, <5>2 DEF Stamped
        <4>3. Swept'
          <5>1. m \in sweep => clock - leftAt'[m] > Retention - SessionSpan
            BY <1>0, <2>4, <3>1, <3>3 DEF Swept
          <5>2. \A k \in sweep \intersect archived' : clock - leftAt'[k] > Retention - SessionSpan
            BY <1>0, <2>1, <2>3, <3>1, <5>1 DEF Swept, Outlived
          <5>3. \A k \in used \ (eml' \union archived' \union erased) :
                   clock - leftAt'[k] > Retention - SessionSpan
            BY <1>0, <2>1, <2>3, <3>1, <3>3 DEF Swept, Outlived
          <5>4. QED
            BY <2>1, <3>1, <5>2, <5>3 DEF Swept, Outlived
        <4>4. QED
          BY <4>2, <4>3
      <3>4. QED
        BY <3>2, <3>3
    <2>6. \A k \in Messages : leftAt'[k] <= clock
      BY <1>0, <2>1, <2>3, <2>4 DEF ArchiveInv
    <2>7. QED
      BY <1>2, <2>1, <2>5, <2>6 DEF ArchiveInv
  <1>8. CASE ArchiveFails(s)
    <2>1. /\ "fault" \in disturbed'
          /\ UNCHANGED <<eml, archived, deletedAt, leftAt, sweep, restoring, used, erased, clock>>
      BY <1>8 DEF ArchiveFails, disk, archive, others, history
    <2>2. ~Spared({"crash", "fault"})'
      BY <2>1 DEF Spared
    <2>3. QED
      BY <2>1, <2>2 DEF ArchiveInv
  <1>9. CASE VanishedBump(s) \/ VanishedRecord(s)
    <2>1. /\ o.pc \in {"remove", "record"}
          /\ UNCHANGED <<eml, archived, deletedAt, leftAt, sweep, restoring, used, erased, clock>>
      BY <1>9 DEF VanishedBump, VanishedRecord, At, archive, others, history
    <2>2. QED
      BY <1>1, <2>1, ArchiveFrame
  <1>10. QED
    BY <1>4, <1>5, <1>6, <1>7, <1>8, <1>9 DEF Removal

LEMMA OthersArchive ==
  ASSUME TypeInv, FreshInv, ArchiveInv, Others
  PROVE  ArchiveInv'
  <1>0. /\ clock \in Nat /\ SessionSpan \in Nat /\ Retention \in Nat
        /\ leftAt \in [Messages -> Nat] /\ deletedAt \in [Messages -> Int]
        /\ eml \subseteq Messages /\ archived \subseteq Messages /\ used \subseteq Messages
        /\ sweep \subseteq used
    BY MailboxAssumption DEF TypeInv, DiskTypes, OtherTypes, ArchiveInv
  <1>1. ASSUME NEW m \in Messages, NEW given \in SUBSET Flags, Deliver(m, given)
        PROVE  ArchiveInv'
    <2>1. /\ m \notin used /\ eml' = eml \union {m} /\ used' = used \union {m}
          /\ disturbed \subseteq disturbed'
          /\ UNCHANGED <<op, archived, deletedAt, leftAt, sweep, clock, restoring, erased>>
      BY <1>1 DEF Deliver, archive
    <2>2. restoring' \subseteq erased'
      BY <2>1 DEF ArchiveInv
    <2>3. QED
      BY <2>1, <2>2, ArchiveGrows
  <1>2. ASSUME NEW m \in Messages, NEW given \in SUBSET Flags, WriteFlagSidecar(m, given)
        PROVE  ArchiveInv'
    <2>1. UNCHANGED <<op, eml, archived, deletedAt, leftAt, sweep, restoring, used, erased, clock, disturbed>>
      BY <1>2 DEF WriteFlagSidecar, archive, history
    <2>2. QED
      BY <2>1, ArchiveFrame
  <1>3. ASSUME NEW m \in Messages, Pop3Remove(m)
        PROVE  ArchiveInv'
    <2>1. /\ eml' = eml \ {m} /\ erased' = erased \union {m} /\ disturbed' = disturbed \union {"pop3"}
          /\ UNCHANGED <<op, archived, deletedAt, leftAt, sweep, restoring, used, clock>>
      BY <1>3 DEF Pop3Remove, archive, others
    <2>2. Spared({"crash", "fault"})' => Spared({"crash", "fault"})
      BY <2>1 DEF Spared
    <2>3. \A t \in Sessions : \A k : Moving(t, k) => Moving(t, k)'
      BY <2>1 DEF Moving
    <2>4. QED
      BY <2>1, <2>2, <2>3 DEF ArchiveInv, Stamped, Swept, Outlived
  <1>4. ASSUME NEW m \in Messages, NEW copy \in Messages, RestoreAppend(m, copy)
        PROVE  ArchiveInv'
    <2>1. /\ copy \notin used /\ eml' = eml \union {copy} /\ used' = used \union {copy}
          /\ erased' = erased \union {m} /\ restoring' = {m}
          /\ UNCHANGED <<op, archived, deletedAt, leftAt, sweep, clock, disturbed>>
      BY <1>4, NewestNew DEF RestoreAppend, archive
    <2>2. QED
      BY <2>1, ArchiveGrows
  <1>5. ASSUME NEW away \in SUBSET used, archived' = archived \ away,
               deletedAt' = [m \in Messages |-> IF m \in away THEN -1 ELSE deletedAt[m]],
               UNCHANGED <<op, eml, leftAt, used, erased, clock, disturbed>>,
               restoring' \subseteq erased, sweep' \subseteq sweep,
               Spared({"crash", "fault"}) =>
                   \A m \in (archived \intersect away) \ erased : Outlived(m)
        PROVE  ArchiveInv'
    <2>1. Spared({"crash", "fault"})' => Spared({"crash", "fault"})
      BY <1>5 DEF Spared
    <2>2. \A t \in Sessions : \A k : Moving(t, k) => Moving(t, k)'
      BY <1>5 DEF Moving
    <2>3. \A k \in Messages : deletedAt'[k] >= 0 => deletedAt'[k] = deletedAt[k]
      BY <1>5
    <2>4. ASSUME Spared({"crash", "fault"})
          PROVE  Stamped' /\ Swept'
      <3>1. Stamped /\ Swept
        BY <2>4 DEF ArchiveInv
      <3>2. Stamped'
        BY <1>0, <1>5, <2>2, <2>3, <3>1 DEF Stamped
      <3>3. Swept'
        BY <1>5, <2>4, <3>1 DEF Swept, Outlived
      <3>4. QED
        BY <3>2, <3>3
    <2>5. QED
      BY <1>0, <1>5, <2>1, <2>3, <2>4 DEF ArchiveInv
  <1>6. CASE RestoreRemove
    <2>1. /\ archived' = archived \ restoring /\ restoring' = {} /\ sweep' = sweep
          /\ deletedAt' = [m \in Messages |-> IF m \in restoring THEN -1 ELSE deletedAt[m]]
          /\ UNCHANGED <<op, eml, leftAt, used, erased, clock, disturbed>>
      BY <1>6 DEF RestoreRemove, disk, history
    <2> DEFINE away == restoring \intersect used
    <2>2. /\ archived' = archived \ away /\ restoring \subseteq erased /\ restoring \subseteq Messages
      BY <2>1 DEF TypeInv, OtherTypes, ArchiveInv
    <2>3. \A m \in Messages : deletedAt'[m] >= 0 => deletedAt'[m] = deletedAt[m]
      BY <2>1
    <2>4. Spared({"crash", "fault"})' => Spared({"crash", "fault"})
      BY <2>1 DEF Spared
    <2>5. \A t \in Sessions : \A k : Moving(t, k) => Moving(t, k)'
      BY <2>1 DEF Moving
    <2>6. ASSUME Spared({"crash", "fault"})
          PROVE  Stamped' /\ Swept'
      <3>1. Stamped /\ Swept
        BY <2>6 DEF ArchiveInv
      <3>2. Stamped'
        BY <1>0, <2>1, <2>3, <2>5, <3>1 DEF Stamped
      <3>3. Swept'
        BY <2>1, <2>2, <3>1 DEF Swept, Outlived
      <3>4. QED
        BY <3>2, <3>3
    <2>7. QED
      BY <1>0, <2>1, <2>3, <2>4, <2>6 DEF ArchiveInv
  <1>7. CASE SweepRemove
    <2>1. /\ archived' = archived \ sweep /\ sweep' = {} /\ restoring' = restoring
          /\ deletedAt' = [m \in Messages |-> IF m \in sweep THEN -1 ELSE deletedAt[m]]
          /\ UNCHANGED <<op, eml, leftAt, used, erased, clock, disturbed>>
      BY <1>7 DEF SweepRemove, disk, history
    <2>2. /\ sweep \in SUBSET used /\ restoring \subseteq erased
          /\ Spared({"crash", "fault"}) => \A m \in (archived \intersect sweep) \ erased : Outlived(m)
      BY DEF ArchiveInv, Swept
    <2>3. QED
      BY <1>5, <2>1, <2>2
  <1>8. CASE SweepRead
    <2>1. /\ sweep' = Due
          /\ UNCHANGED <<op, eml, archived, deletedAt, leftAt, restoring, used, erased, clock, disturbed>>
      BY <1>8 DEF SweepRead, disk, archive, history
    <2>2. Due \subseteq used /\ \A m \in Due : deletedAt[m] >= 0 /\ clock - deletedAt[m] > Retention
      BY DEF Due, Sidecars, ArchiveInv
    <2>3. Spared({"crash", "fault"})' => Spared({"crash", "fault"})
      BY <2>1 DEF Spared
    <2>4. \A t \in Sessions : \A k : Moving(t, k) => Moving(t, k)'
      BY <2>1 DEF Moving
    <2>5. ASSUME Spared({"crash", "fault"})
          PROVE  Stamped' /\ Swept'
      <3>1. Stamped /\ Swept
        BY <2>5 DEF ArchiveInv
      <3>2. Stamped'
        BY <2>1, <2>4, <3>1 DEF Stamped
      <3>3. \A m \in Due \intersect eml : Retention < SessionSpan
        BY <1>0, <2>2, <3>1 DEF Stamped
      <3>4. \A m \in Due \intersect archived : Outlived(m)
        BY <1>0, <2>2, <3>1 DEF Stamped, Outlived
      <3>5. Swept'
        BY <2>1, <3>1, <3>3, <3>4 DEF Swept, Outlived
      <3>6. QED
        BY <3>2, <3>5
    <2>6. QED
      BY <2>1, <2>2, <2>3, <2>5 DEF ArchiveInv
  <1>9. CASE Tick
    <2>1. /\ clock' = clock + 1 /\ \A t \in Sessions : ~Busy(t)
          /\ UNCHANGED <<op, eml, archived, deletedAt, leftAt, sweep, restoring, used, erased, disturbed>>
      BY <1>9 DEF Tick, disk, archive, history
    <2>2. \A t \in Sessions : \A k : ~Moving(t, k)
      BY <2>1 DEF Busy, Moving
    <2>3. Spared({"crash", "fault"})' => Spared({"crash", "fault"})
      BY <2>1 DEF Spared
    <2>4. ASSUME Spared({"crash", "fault"})
          PROVE  Stamped' /\ Swept'
      <3>1. Stamped /\ Swept
        BY <2>4 DEF ArchiveInv
      <3>2. Stamped'
        BY <2>1, <2>2, <3>1 DEF Stamped
      <3>3. \A m \in Messages : Outlived(m) => Outlived(m)'
        BY <1>0, <2>1 DEF Outlived
      <3>4. Swept'
        BY <1>0, <2>1, <3>1, <3>3 DEF Swept
      <3>5. QED
        BY <3>2, <3>4
    <2>5. \A m \in Messages : leftAt'[m] <= clock'
      BY <1>0, <2>1 DEF ArchiveInv
    <2>6. QED
      BY <2>1, <2>3, <2>4, <2>5 DEF ArchiveInv
  <1>10. CASE Crash
    <2>1. /\ "crash" \in disturbed' /\ sweep' = {} /\ restoring' = {}
          /\ UNCHANGED <<deletedAt, leftAt, used, erased, clock>>
      BY <1>10 DEF Crash, archive, history
    <2>2. ~Spared({"crash", "fault"})'
      BY <2>1 DEF Spared
    <2>3. QED
      BY <2>1, <2>2 DEF ArchiveInv
  <1>11. QED
    BY <1>1, <1>2, <1>3, <1>4, <1>6, <1>7, <1>8, <1>9, <1>10 DEF Others

(***************************************************************************)
(* A message expunged with retention stays recoverable for the retention   *)
(* period less a session's length, for any number of connections, with     *)
(* handlers that overlap and with POP3 removing messages meanwhile: a      *)
(* sweep that listed a message before it was moved, or two connections     *)
(* archiving the same one, shorten nothing (imap/archive.rs).              *)
(***************************************************************************)
THEOREM MailRetained == Spec => []RetentionKept
  <1> DEFINE Inv == TypeInv /\ FreshInv /\ ArchiveInv
  <1>1. Init => Inv
    BY InitTypes, InitArchive
  <1>2. Inv /\ [Next]_vars => Inv'
    <2> SUFFICES ASSUME Inv, [Next]_vars PROVE Inv'
      OBVIOUS
    <2>1. TypeInv'
      BY NextTypes
    <2>2. CASE UNCHANGED vars
      <3>1. FreshInv'
        BY <2>2 DEF FreshInv, KnownOp, RecentOp, RecentSnap, vars, disk, others, history
      <3>2. ArchiveInv'
        BY <2>2, ArchiveFrame DEF vars, disk, archive, others, history
      <3>3. QED
        BY <2>1, <3>1, <3>2
    <2>3. CASE Others
      BY <2>1, <2>3, OthersFresh, OthersArchive
    <2>4. ASSUME NEW s \in Sessions, Open(s) \/ Removal(s) \/ Command(s)
          PROVE  Inv'
      BY <2>1, <2>4, OpenFresh, OpenArchive, RemovalFresh, RemovalArchive, CommandFresh, CommandArchive
    <2>5. QED
      BY <2>2, <2>3, <2>4 DEF Next
  <1>3. Inv => RetentionKept
    BY DEF ArchiveInv, Swept, Outlived, RetentionKept
  <1>4. QED
    BY <1>1, <1>2, <1>3, PTL DEF Spec

----------------------------------------------------------------------------
(* While handlers take turns.                                              *)

\* The two provisos of the properties.
InTurn == Spared({"overlap", "crash", "fault"})
Undisturbed == Spared({"overlap", "pop3", "crash", "fault"})

\* One handler at a time, and none while a delivery has flags to write.
Turns ==
    /\ \A s, t \in Sessions : Busy(s) /\ Busy(t) => s = t
    /\ filing # {} => \A s \in Sessions : ~Busy(s)
TurnsInv == InTurn => Turns

\* u is the UID of m for somebody: on disk, in the index, in a snapshot, or
\* for a client that was told.
Lists(f, u, m) == m \in DOMAIN f /\ f[m].uid = u
Named(u, m) ==
    \/ uid[m] = u
    \/ <<u, m>> \in issued
    \/ Lists(index.messages, u, m)
    \/ \E t \in Sessions : Lists(snap[t].messages, u, m) \/ Lists(op[t].snap.messages, u, m)

\* m lost its .uid for good: no scan will come across it again.
Gone(m) ==
    /\ uid[m] = 0 /\ m \in used
    /\ m \notin eml \/ \E s \in Sessions : op[s].pc = "body" /\ Min(op[s].ids) = m
    /\ \A s \in Sessions : op[s].pc = "scan" => m \notin op[s].ids

\* u is behind the counter on disk, or the one a scan has yet to write.
Below(u) == u <= uidnext \/ \E s \in Sessions : op[s].pc = "scan" /\ u <= op[s].counter

Positive == Nat \ {0}
Counting == \A s \in Sessions : op[s].pc = "scan" =>
                op[s].initial = uidnext /\ uidnext <= op[s].counter
Current == \A m \in Messages, u \in Positive : Named(u, m) => (uid[m] = u \/ Gone(m)) /\ Below(u)
OneUid == \A m \in Messages, u, v \in Positive : Named(u, m) /\ Named(v, m) => u = v
OneMessage == \A m, k \in Messages, u \in Positive : Named(u, m) /\ Named(u, k) => m = k
UidInv == InTurn => Counting /\ Current /\ OneUid /\ OneMessage

\* An open under way: what it has found is on disk as it found it, and what it
\* has yet to look at is all the rest that has a UID.
Matches(f) ==
    \A m \in DOMAIN f : f[m].uid = uid[m] /\ f[m].flags = flags[m] /\ f[m].modseq = modseq[m]
Covered(o) == DOMAIN o.snap.messages \union (IF o.pc = "scan" THEN o.ids ELSE {})
OpenTrue(o) ==
    /\ o.pc = "load" => /\ DOMAIN o.snap.messages = {} /\ o.gen[1] = modseqctr
                        /\ o.gen[2] <= Cardinality(eml)
    /\ o.pc \in {"scan", "index", "opened"} =>
          /\ o.gen[1] = modseqctr /\ o.gen[2] <= Cardinality(Covered(o))
          /\ Covered(o) \subseteq eml /\ \A m \in eml : uid[m] > 0 => m \in Covered(o)
          /\ Matches(o.snap.messages)
    /\ o.pc = "opened" => o.snap.highest <= modseqctr

\* A write under way: the index knows nothing of the message whose flags are
\* to be written, is out of date when a mod-sequence is to be stamped, and an
\* expunge is logged under a mod-sequence no client has yet.
WriteTrue(o) ==
    /\ o.pc = "flags" => o.new \notin DOMAIN index.messages
    /\ o.pc = "stamp" => o.counter <= modseqctr /\ index.gen[1] < modseqctr
    /\ o.pc = "record" => \A t \in Sessions : cache[t].modseq < o.counter

\* An index stamped with the current mod-sequence may be trusted, but for the
\* handler that is about to advance the counter.
Rewriting == Removing \union {"bump"}
Scanning == {"scan", "index"}
Quiet(pcs) == \A s \in Sessions : op[s].pc \notin pcs
Honest == DOMAIN index.messages \subseteq eml /\ Matches(index.messages)
Whole == \A m \in eml : uid[m] > 0 => m \in DOMAIN index.messages
IndexTrue ==
    /\ index.gen[1] <= modseqctr
    /\ index.gen[1] = modseqctr /\ Quiet(Rewriting) => Honest
    /\ index.gen[1] = modseqctr /\ Quiet(Rewriting \union Scanning) => Whole
    /\ \A p \in filing : p[1] \notin DOMAIN index.messages
Ordered == \A m \in Messages : modseq[m] <= modseqctr /\ (uid[m] > 0 => m \in used)

\* A UID a client remembers is there, logged as vanished since, or about to be.
Going(o, u) ==
    /\ o.pc \in Removing \union {"record"}
    /\ u \in o.gone \/ (o.pc = "body" /\ u = o.snap.messages[Min(o.ids)].uid)
Remembered(t) ==
    /\ cache[t].modseq <= modseqctr
    /\ \A u \in cache[t].uids : \/ \E m \in eml : uid[m] = u
                                \/ u \in Since(cache[t].modseq)
                                \/ \E s \in Sessions : Going(op[s], u)
FaithInv ==
    Undisturbed => /\ \A s \in Sessions : OpenTrue(op[s]) /\ WriteTrue(op[s]) /\ Remembered(s)
                   /\ IndexTrue /\ Ordered

----------------------------------------------------------------------------
(* Handlers take turns.                                                    *)

\* What a step of a connection shows about the others.
Alone(s) ==
    /\ InTurn /\ disturbed \subseteq disturbed' /\ filing = {} /\ filing' = {}
    /\ \A t \in Sessions : t # s => /\ op'[t] = op[t] /\ snap'[t] = snap[t] /\ cache'[t] = cache[t]
                                    /\ op[t].pc \in {"idle", "literal"}

LEMMA StepAlone ==
  ASSUME TypeInv, NEW s \in Sessions, Open(s) \/ Removal(s) \/ Command(s), InTurn'
  PROVE  Alone(s)
  <1>0. /\ op \in [Sessions -> Ops] /\ snap \in [Sessions -> Snapshots]
        /\ cache \in [Sessions -> Caches]
    BY DEF TypeInv, SessionTypes
  <1>s. ASSUME NEW next, Step(s, next)
        PROVE  /\ \A t \in Sessions : t # s => op'[t] = op[t] /\ op[t].pc \in {"idle", "literal"}
               /\ disturbed \subseteq disturbed' /\ filing = {}
    <2>1. disturbed \subseteq disturbed' /\ "overlap" \notin disturbed'
      BY <1>s DEF Step, InTurn, Spared
    <2>2. filing = {} /\ \A t \in Sessions \ {s} : ~Busy(t)
      BY <1>s, <2>1 DEF Step, Overlap
    <2>3. QED
      BY <1>0, <1>s, <2>1, <2>2 DEF Step, Busy
  <1>1. CASE Command(s)
    <2>1. Framed(s)
      BY <1>1, CommandFrame
    <2>2. "overlap" \notin disturbed'
      BY DEF InTurn, Spared
    <2>3. QED
      BY <2>1, <2>2 DEF Framed, Alone, Busy, InTurn, Spared
  <1>2. CASE Open(s)
    BY <1>0, <1>s, <1>2 DEF Alone, Open, OpenBegin, OpenFromIndex, ScanList, ScanMessage, ScanCounter,
                            WriteIndex, others, InTurn, Spared
  <1>3. CASE Removal(s)
    <2>1. ~ArchiveFails(s)
      BY DEF ArchiveFails, InTurn, Spared
    <2>2. CASE VanishedRecord(s)
      BY <1>0, <1>s, <2>2 DEF Alone, VanishedRecord, Done, others, InTurn, Spared
    <2>3. CASE ~VanishedRecord(s)
      BY <1>0, <1>s, <1>3, <2>1, <2>3 DEF Alone, Removal, RemoveFiles, ArchiveSidecar, ArchiveSidecars,
                             ArchiveBody, VanishedBump, others, InTurn, Spared
    <2>4. QED
      BY <2>2, <2>3
  <1>4. QED
    BY <1>1, <1>2, <1>3

LEMMA AloneTurns ==
  ASSUME NEW s \in Sessions, Alone(s)
  PROVE  Turns'
  BY DEF Alone, Turns, Busy

LEMMA OthersTurns ==
  ASSUME TypeInv, TurnsInv, Others
  PROVE  TurnsInv'
  <1>1. ASSUME UNCHANGED <<op, disturbed>>, filing' \subseteq filing
        PROVE  TurnsInv'
    BY <1>1 DEF TurnsInv, Turns, Busy, InTurn, Spared
  <1>2. ASSUME NEW m \in Messages, NEW given \in SUBSET Flags, Deliver(m, given)
        PROVE  TurnsInv'
    <2>1. CASE given = {}
      BY <1>1, <1>2, <2>1 DEF Deliver
    <2>2. CASE given # {}
      <3>1. disturbed' = disturbed \union Overlap(Sessions) /\ op' = op
        BY <1>2, <2>2 DEF Deliver
      <3>2. InTurn' => \A t \in Sessions : ~Busy(t)
        BY <3>1 DEF InTurn, Spared, Overlap
      <3>3. QED
        BY <3>1, <3>2 DEF TurnsInv, Turns, Busy
    <2>3. QED
      BY <2>1, <2>2
  <1>3. ASSUME NEW m \in Messages, NEW given \in SUBSET Flags, WriteFlagSidecar(m, given)
        PROVE  TurnsInv'
    BY <1>1, <1>3 DEF WriteFlagSidecar
  <1>4. ASSUME NEW m \in Messages, Pop3Remove(m)
        PROVE  TurnsInv'
    BY <1>4 DEF Pop3Remove, TurnsInv, Turns, Busy, InTurn, Spared, others
  <1>5. CASE \E m, copy \in Messages : RestoreAppend(m, copy)
    BY <1>1, <1>5 DEF RestoreAppend
  <1>6. CASE RestoreRemove \/ SweepRead \/ SweepRemove \/ Tick
    BY <1>1, <1>6 DEF RestoreRemove, SweepRead, SweepRemove, Tick
  <1>7. CASE Crash
    BY <1>7 DEF Crash, TurnsInv, InTurn, Spared
  <1>8. QED
    BY <1>2, <1>3, <1>4, <1>5, <1>6, <1>7 DEF Others

----------------------------------------------------------------------------
(* UIDs.                                                                   *)

LEMMA InitUids ==
  ASSUME Init
  PROVE  TurnsInv /\ UidInv
  <1>1. /\ uid = [m \in Messages |-> 0] /\ issued = {} /\ index.messages = NoMessages
        /\ \A s \in Sessions : /\ op[s] = Idle /\ snap[s].messages = NoMessages
                               /\ op[s].snap.messages = NoMessages
    BY DEF Init, NoIndex, NoSnapshot, Idle
  <1>2. \A s \in Sessions : op[s].pc = "idle"
    BY <1>1 DEF Idle
  <1>3. \A m \in Messages, u \in Positive : ~Named(u, m)
    BY <1>1, NoMessagesMap DEF Named, Lists, Positive
  <1>4. Counting /\ Turns
    BY <1>2 DEF Counting, Turns, Busy
  <1>5. QED
    BY <1>3, <1>4 DEF TurnsInv, UidInv, Current, OneUid, OneMessage

\* A step that gives no message a new UID.
LEMMA UidFrame ==
  ASSUME TypeInv, UidInv, InTurn, Counting',
         \A m \in Messages, u \in Positive : Named(u, m)' => Named(u, m),
         \A m \in Messages : uid'[m] = uid[m] \/ Gone(m)',
         \A m \in Messages : Gone(m) => Gone(m)',
         \A u \in Positive : Below(u) => Below(u)'
  PROVE  UidInv'
  <1>1. Current /\ OneUid /\ OneMessage
    BY DEF UidInv
  <1>2. Current'
    <2>1. SUFFICES ASSUME NEW m \in Messages, NEW u \in Positive, Named(u, m)'
                   PROVE  (uid'[m] = u \/ Gone(m)') /\ Below(u)'
      BY DEF Current
    <2>2. Named(u, m)
      BY <2>1
    <2>3. (uid[m] = u \/ Gone(m)) /\ Below(u)
      BY <1>1, <2>2 DEF Current
    <2>4. QED
      BY <2>3
  <1>3. OneUid' /\ OneMessage'
    BY <1>1 DEF OneUid, OneMessage
  <1>4. QED
    BY <1>2, <1>3 DEF UidInv

\* Snapshots, index and answers that only repeat what was known.
LEMMA NamesFrame ==
  ASSUME NEW s \in Sessions,
         \A t \in Sessions : t # s => op'[t] = op[t] /\ snap'[t] = snap[t],
         \A m \in Messages : uid'[m] \in {uid[m], 0},
         \A m \in Messages, u \in Positive :
             \/ <<u, m>> \in issued' \/ Lists(index'.messages, u, m)
             \/ Lists(snap'[s].messages, u, m) \/ Lists(op'[s].snap.messages, u, m)
             => Named(u, m)
  PROVE  \A m \in Messages, u \in Positive : Named(u, m)' => Named(u, m)
  <1>1. SUFFICES ASSUME NEW m \in Messages, NEW u \in Positive, Named(u, m)'
                 PROVE  Named(u, m)
    OBVIOUS
  <1>2. CASE uid'[m] = u
    BY <1>2 DEF Named, Positive
  <1>3. CASE <<u, m>> \in issued' \/ Lists(index'.messages, u, m)
    BY <1>3
  <1>4. ASSUME NEW t \in Sessions, Lists(snap'[t].messages, u, m) \/ Lists(op'[t].snap.messages, u, m)
        PROVE  Named(u, m)
    <2>1. CASE t = s
      BY <1>4, <2>1
    <2>2. CASE t # s
      BY <1>4, <2>2 DEF Named
    <2>3. QED
      BY <2>1, <2>2
  <1>5. QED
    BY <1>1, <1>2, <1>3, <1>4 DEF Named

\* A step that neither scans nor takes a .uid away.
LEMMA UidCalm ==
  ASSUME TypeInv, UidInv, InTurn, UNCHANGED <<uid, uidnext>>,
         used \subseteq used', eml' \intersect used \subseteq eml,
         \A t \in Sessions : op[t].pc = "body" => op'[t].pc = "body" /\ op'[t].ids = op[t].ids,
         \A t \in Sessions : op[t].pc = "scan" <=> op'[t].pc = "scan",
         \A t \in Sessions : op[t].pc = "scan" => op'[t] = op[t],
         \A m \in Messages, u \in Positive : Named(u, m)' => Named(u, m)
  PROVE  UidInv'
  <1>1. Counting'
    BY DEF UidInv, Counting
  <1>2. \A m \in Messages : Gone(m) => Gone(m)'
    <2>1. SUFFICES ASSUME NEW m \in Messages, Gone(m) PROVE Gone(m)'
      OBVIOUS
    <2>2. uid'[m] = 0 /\ m \in used' /\ m \in used
      BY <2>1 DEF Gone
    <2>3. \A t \in Sessions : op'[t].pc = "scan" => m \notin op'[t].ids
      BY <2>1 DEF Gone
    <2>4. m \notin eml' \/ \E t \in Sessions : op'[t].pc = "body" /\ Min(op'[t].ids) = m
      BY <2>1, <2>2 DEF Gone
    <2>5. QED
      BY <2>2, <2>3, <2>4 DEF Gone
  <1>3. \A u \in Positive : Below(u) => Below(u)'
    BY DEF Below
  <1>4. QED
    BY <1>1, <1>2, <1>3, UidFrame

\* The scan meets m: it reads its UID, or takes the next one, which nobody has.
LEMMA ScanUids ==
  ASSUME TypeInv, FreshInv, UidInv, NEW s \in Sessions, ScanMessage(s), InTurn'
  PROVE  UidInv'
  <1> DEFINE o == op[s]
             m == Min(o.ids)
             w == AssignOrRead(m, o.counter)
             ref == [uid |-> w, flags |-> flags[m], modseq |-> modseq[m], size |-> SizeSeen(o.why)]
             map == With(o.snap.messages, m, ref)
  <1>0. /\ o \in Ops /\ o.snap \in Snapshots /\ o.snap.messages \in RefMaps /\ op \in [Sessions -> Ops]
        /\ o.counter \in Nat /\ o.ids \subseteq Messages /\ uidnext \in Nat /\ KnownOp(o, used)
        /\ uid \in [Messages -> Nat] /\ flags \in [Messages -> SUBSET Flags]
        /\ modseq \in [Messages -> Nat]
    BY DEF TypeInv, DiskTypes, SessionTypes, Ops, Snapshots, FreshInv
  <1>1. o.pc = "scan" /\ m \in o.ids /\ m \in Messages
    BY <1>0, MinMessage DEF ScanMessage, At
  <1>2. Alone(s) /\ Counting /\ Current /\ OneUid /\ OneMessage
    <2>1. Alone(s)
      BY StepAlone DEF Open
    <2>2. QED
      BY <2>1 DEF Alone, UidInv
  <1>3. /\ uid' = [uid EXCEPT ![m] = w]
        /\ UNCHANGED <<eml, uidnext, index, snap, used, issued>>
    BY DEF ScanMessage, history
  <1>4. /\ op'[s].pc = "scan" /\ op'[s].ids = o.ids \ {m} /\ op'[s].initial = o.initial
        /\ op'[s].counter = (IF uid[m] > 0 THEN o.counter ELSE o.counter + 1)
        /\ op'[s].snap.messages = map
    BY <1>0, <1>1 DEF ScanMessage, Step, Ops, Snapshots
  <1>5. w \in Positive /\ (uid[m] > 0 => w = uid[m]) /\ (uid[m] = 0 => w = o.counter + 1)
    BY <1>0, <1>1 DEF AssignOrRead, Positive
  <1>6. /\ DOMAIN map = DOMAIN o.snap.messages \union {m} /\ map[m].uid = w
        /\ \A k \in DOMAIN o.snap.messages : k # m => map[k] = o.snap.messages[k]
    <2>1. map[m] = ref
      BY DEF With
    <2>2. QED
      BY <2>1 DEF With
  <1> HIDE DEF map, m, w
  <1>7. ~Gone(m)
    BY <1>1 DEF Gone
  \* Before the step m has no UID but w, and w is the UID of no other message.
  <1>8. \A u \in Positive : Named(u, m) => u = w
    BY <1>0, <1>1, <1>2, <1>5, <1>7 DEF Current, Positive
  <1>9. \A u \in Positive : Below(u) => u <= o.counter
    <2>1. \A t \in Sessions : op[t].pc = "scan" => t = s
      BY <1>2 DEF Alone
    <2>2. uidnext <= o.counter
      BY <1>1, <1>2 DEF Counting
    <2>3. QED
      BY <1>0, <2>1, <2>2 DEF Below, Positive
  <1>10. \A k \in Messages : Named(w, k) => k = m
    <2>1. CASE uid[m] > 0
      BY <1>1, <1>2, <1>5, <2>1 DEF OneMessage, Named
    <2>2. CASE ~(uid[m] > 0)
      <3>1. w = o.counter + 1
        BY <1>0, <1>1, <1>5, <2>2
      <3>2. ~Below(w)
        BY <1>0, <1>5, <1>9, <3>1
      <3>3. QED
        BY <1>2, <1>5, <3>2 DEF Current
    <2>3. QED
      BY <2>1, <2>2
  \* After the step the names are those before it, and w for m.
  <1>11. \A k \in Messages, u \in Positive : Named(u, k)' => Named(u, k) \/ (k = m /\ u = w)
    <2>1. SUFFICES ASSUME NEW k \in Messages, NEW u \in Positive, Named(u, k)', ~Named(u, k)
                   PROVE  k = m /\ u = w
      OBVIOUS
    <2>2. CASE uid'[k] = u
      BY <1>0, <1>3, <2>1, <2>2 DEF Named
    <2>3. CASE <<u, k>> \in issued' \/ Lists(index'.messages, u, k)
      BY <1>3, <2>1, <2>3 DEF Named
    <2>4. ASSUME NEW t \in Sessions, Lists(snap'[t].messages, u, k) \/ Lists(op'[t].snap.messages, u, k)
          PROVE  k = m /\ u = w
      <3>1. CASE Lists(snap'[t].messages, u, k) \/ t # s
        BY <1>2, <1>3, <2>1, <2>4, <3>1 DEF Named, Alone
      <3>2. CASE Lists(op'[s].snap.messages, u, k)
        BY <1>4, <1>6, <2>1, <3>2 DEF Named, Lists
      <3>3. QED
        BY <2>4, <3>1, <3>2
    <2>5. QED
      BY <2>1, <2>2, <2>3, <2>4 DEF Named
  <1>12. uid'[m] = w /\ \A k \in Messages : k # m => uid'[k] = uid[k]
    BY <1>0, <1>1, <1>3
  <1>13. Counting'
    <2>1. o.initial = uidnext /\ uidnext <= o.counter
      BY <1>1, <1>2 DEF Counting
    <2>2. uidnext' <= op'[s].counter /\ op'[s].initial = uidnext'
      BY <1>0, <1>3, <1>4, <2>1
    <2>3. QED
      BY <1>2, <2>2 DEF Counting, Alone
  <1>14. \A k \in Messages : Gone(k) => Gone(k)'
    <2>1. SUFFICES ASSUME NEW k \in Messages, Gone(k) PROVE Gone(k)'
      OBVIOUS
    <2>2. uid'[k] = 0 /\ k \in used' /\ k \notin eml'
      BY <1>2, <1>3, <1>7, <1>12, <1>1, <2>1 DEF Gone, Alone
    <2>3. \A t \in Sessions : op'[t].pc = "scan" => k \notin op'[t].ids
      BY <1>1, <1>2, <1>4, <2>1 DEF Gone, Alone
    <2>4. QED
      BY <2>2, <2>3 DEF Gone
  <1>15. \A u \in Positive : Below(u) \/ u = w => Below(u)'
    <2>1. w <= op'[s].counter
      <3>1. CASE uid[m] > 0
        <4>1. Named(w, m)
          BY <1>5, <3>1 DEF Named
        <4>2. Below(w)
          BY <1>1, <1>2, <1>5, <4>1 DEF Current
        <4>3. QED
          BY <1>4, <1>5, <1>9, <3>1, <4>2
      <3>2. CASE ~(uid[m] > 0)
        BY <1>0, <1>1, <1>4, <1>5, <3>2
      <3>3. QED
        BY <3>1, <3>2
    <2>2. \A u \in Positive : u <= o.counter => u <= op'[s].counter
      BY <1>0, <1>4 DEF Positive
    <2>3. QED
      BY <1>4, <1>9, <2>1, <2>2 DEF Below
  <1>16. Current'
    <2>1. SUFFICES ASSUME NEW k \in Messages, NEW u \in Positive, Named(u, k)'
                   PROVE  (uid'[k] = u \/ Gone(k)') /\ Below(u)'
      BY DEF Current
    <2>2. CASE k = m
      <3>1. u = w
        BY <1>8, <1>11, <2>1, <2>2
      <3>2. QED
        BY <1>12, <1>15, <2>2, <3>1
    <2>3. CASE k # m
      <3>1. Named(u, k)
        BY <1>11, <2>1, <2>3
      <3>2. (uid[k] = u \/ Gone(k)) /\ Below(u)
        BY <1>2, <3>1 DEF Current
      <3>3. QED
        BY <1>12, <1>14, <1>15, <2>3, <3>2
    <2>4. QED
      BY <2>2, <2>3
  <1>17. OneUid'
    <2>1. SUFFICES ASSUME NEW k \in Messages, NEW u \in Positive, NEW v \in Positive,
                          Named(u, k)', Named(v, k)'
                   PROVE  u = v
      BY DEF OneUid
    <2>2. CASE k = m
      BY <1>8, <1>11, <2>1, <2>2
    <2>3. CASE k # m
      BY <1>2, <1>11, <2>1, <2>3 DEF OneUid
    <2>4. QED
      BY <2>2, <2>3
  <1>18. OneMessage'
    <2>1. SUFFICES ASSUME NEW k \in Messages, NEW j \in Messages, NEW u \in Positive,
                          Named(u, k)', Named(u, j)'
                   PROVE  k = j
      BY DEF OneMessage
    <2>2. CASE u = w
      BY <1>10, <1>11, <2>1, <2>2
    <2>3. CASE u # w
      BY <1>2, <1>11, <2>1, <2>3 DEF OneMessage
    <2>4. QED
      BY <2>2, <2>3
  <1>19. QED
    BY <1>13, <1>16, <1>17, <1>18 DEF UidInv

LEMMA OpenUids ==
  ASSUME TypeInv, FreshInv, UidInv, NEW s \in Sessions, Open(s), InTurn'
  PROVE  UidInv'
  <1> DEFINE o == op[s]
  <1>0. /\ o \in Ops /\ o.snap \in Snapshots /\ o.snap.messages \in RefMaps /\ op \in [Sessions -> Ops]
        /\ o.counter \in Nat /\ o.initial \in Nat /\ uidnext \in Nat
        /\ uid \in [Messages -> Nat] /\ eml \subseteq used
    BY DEF TypeInv, DiskTypes, SessionTypes, Ops, Snapshots
  <1>1. Alone(s)
    BY StepAlone
  <1>2. InTurn /\ Counting /\ Current
    BY <1>1 DEF Alone, UidInv
  <1>3. ASSUME UNCHANGED <<eml, uid, snap, used, issued>>,
               \A m \in Messages, u \in Positive :
                   Lists(index'.messages, u, m) \/ Lists(op'[s].snap.messages, u, m) => Named(u, m)
        PROVE  \A m \in Messages, u \in Positive : Named(u, m)' => Named(u, m)
    <2>1. \A m \in Messages, u \in Positive :
              <<u, m>> \in issued' \/ Lists(snap'[s].messages, u, m) => Named(u, m)
      BY <1>3 DEF Named
    <2>2. QED
      BY <1>1, <1>3, <2>1, NamesFrame DEF Alone
  <1>4. ASSUME UNCHANGED <<eml, uid, uidnext, snap, used, issued>>,
               o.pc \notin {"scan", "body"}, op'[s].pc # "scan",
               \A m \in Messages, u \in Positive :
                   Lists(index'.messages, u, m) \/ Lists(op'[s].snap.messages, u, m) => Named(u, m)
        PROVE  UidInv'
    <2>1. \A m \in Messages, u \in Positive : Named(u, m)' => Named(u, m)
      BY <1>3, <1>4
    <2>2. \A t \in Sessions : op[t].pc = "body" => op'[t].pc = "body" /\ op'[t].ids = op[t].ids
      BY <1>1, <1>4 DEF Alone
    <2>3. \A t \in Sessions : (op[t].pc = "scan" <=> op'[t].pc = "scan")
                              /\ (op[t].pc = "scan" => op'[t] = op[t])
      BY <1>1, <1>4 DEF Alone
    <2>4. QED
      BY <1>2, <1>4, <2>1, <2>2, <2>3, UidCalm
  <1>5. CASE OpenBegin(s)
    <2>1. /\ o.pc = "open" /\ op'[s].pc = "load" /\ op'[s].snap.messages = NoMessages
          /\ UNCHANGED <<eml, uid, uidnext, index, snap, used, issued>>
      BY <1>0, <1>5 DEF OpenBegin, At, Step, disk, history, Ops, NoSnapshot
    <2>2. \A m \in Messages, u \in Positive :
              Lists(index'.messages, u, m) \/ Lists(op'[s].snap.messages, u, m) => Named(u, m)
      BY <2>1, NoMessagesMap DEF Lists, Named
    <2>3. QED
      BY <1>4, <2>1, <2>2
  <1>6. CASE OpenFromIndex(s)
    <2>1. /\ o.pc = "load" /\ op'[s].pc = "opened" /\ op'[s].snap.messages = index.messages
          /\ UNCHANGED <<eml, uid, uidnext, index, snap, used, issued>>
      BY <1>0, <1>6 DEF OpenFromIndex, At, Step, disk, history, Ops, Snapshots
    <2>2. \A m \in Messages, u \in Positive :
              Lists(index'.messages, u, m) \/ Lists(op'[s].snap.messages, u, m) => Named(u, m)
      BY <2>1 DEF Named
    <2>3. QED
      BY <1>4, <2>1, <2>2
  <1>7. CASE WriteIndex(s)
    <2>1. /\ o.pc = "index" /\ op'[s].pc = "opened" /\ op'[s].snap.messages = o.snap.messages
          /\ index'.messages = o.snap.messages
          /\ UNCHANGED <<eml, uid, uidnext, snap, used, issued>>
      BY <1>0, <1>7 DEF WriteIndex, At, Step, history, Ops, Snapshots
    <2>2. \A m \in Messages, u \in Positive :
              Lists(index'.messages, u, m) \/ Lists(op'[s].snap.messages, u, m) => Named(u, m)
      BY <2>1 DEF Named
    <2>3. QED
      BY <1>4, <2>1, <2>2
  <1>8. CASE ScanList(s)
    <2>1. /\ o.pc = "load" /\ op'[s].pc = "scan" /\ op'[s].snap.messages = o.snap.messages
          /\ op'[s].ids = eml /\ op'[s].initial = uidnext /\ op'[s].counter = uidnext
          /\ UNCHANGED <<eml, uid, uidnext, index, snap, used, issued>>
      BY <1>0, <1>8 DEF ScanList, At, Step, disk, history, Ops
    <2>2. \A m \in Messages, u \in Positive :
              Lists(index'.messages, u, m) \/ Lists(op'[s].snap.messages, u, m) => Named(u, m)
      BY <2>1 DEF Named
    <2>3. \A m \in Messages, u \in Positive : Named(u, m)' => Named(u, m)
      BY <1>3, <2>1, <2>2
    <2>4. Counting'
      BY <1>0, <1>1, <1>2, <2>1 DEF Counting, Alone
    \* Nobody else is at work, so what is gone is not in the directory.
    <2>5. \A m \in Messages : Gone(m) => Gone(m)'
      BY <1>1, <2>1 DEF Gone, Alone
    <2>6. \A u \in Positive : Below(u) => Below(u)'
      BY <1>1, <2>1 DEF Below, Alone
    <2>7. QED
      BY <1>2, <2>1, <2>3, <2>4, <2>5, <2>6, UidFrame
  <1>9. CASE ScanMessage(s)
    BY <1>9, ScanUids
  <1>10. CASE ScanCounter(s)
    <2>1. /\ o.pc = "scan" /\ op'[s].pc = "index" /\ op'[s].snap.messages = o.snap.messages
          /\ uidnext' = (IF o.counter > o.initial THEN o.counter ELSE uidnext)
          /\ UNCHANGED <<eml, uid, index, snap, used, issued>>
      BY <1>0, <1>10 DEF ScanCounter, GrownCounter, At, Step, history, Ops
    <2>2. \A m \in Messages, u \in Positive :
              Lists(index'.messages, u, m) \/ Lists(op'[s].snap.messages, u, m) => Named(u, m)
      BY <2>1 DEF Named
    <2>3. \A m \in Messages, u \in Positive : Named(u, m)' => Named(u, m)
      BY <1>3, <2>1, <2>2
    <2>4. \A t \in Sessions : op'[t].pc # "scan"
      BY <1>1, <2>1 DEF Alone
    <2>5. uidnext' = o.counter /\ uidnext <= o.counter
      BY <1>0, <1>2, <2>1 DEF Counting
    <2>6. \A m \in Messages : Gone(m) => Gone(m)'
      BY <1>1, <2>1, <2>4 DEF Gone, Alone
    <2>7. \A u \in Positive : Below(u) => u <= uidnext'
      BY <1>0, <1>1, <2>5 DEF Below, Alone, Positive
    <2>8. QED
      BY <1>2, <2>1, <2>3, <2>4, <2>6, <2>7, UidFrame DEF Counting, Below
  <1>11. QED
    BY <1>5, <1>6, <1>7, <1>8, <1>9, <1>10 DEF Open

LEMMA RemovalUids ==
  ASSUME TypeInv, FreshInv, UidInv, NEW s \in Sessions, Removal(s), InTurn'
  PROVE  UidInv'
  <1> DEFINE o == op[s]
             m == Min(o.ids)
  <1>0. /\ o \in Ops /\ o.snap \in Snapshots /\ o.snap.messages \in RefMaps /\ op \in [Sessions -> Ops]
        /\ uid \in [Messages -> Nat] /\ KnownOp(o, used) /\ Shape(s) /\ snap \in [Sessions -> Snapshots]
    BY DEF TypeInv, DiskTypes, SessionTypes, Ops, Snapshots, FreshInv
  <1>1. Alone(s)
    BY StepAlone
  <1>2. InTurn /\ Counting /\ Current
    BY <1>1 DEF Alone, UidInv
  <1>3. o.ids # {} => m \in o.ids /\ m \in Messages /\ m \in used
    BY <1>0, MinMessage DEF Ops, KnownOp
  <1>4. ASSUME UNCHANGED <<index, issued>>, \A k \in Messages : uid'[k] \in {uid[k], 0},
               snap'[s].messages \in {snap[s].messages, o.snap.messages},
               \A k \in Messages, u \in Positive :
                   Lists(op'[s].snap.messages, u, k) => Lists(o.snap.messages, u, k)
        PROVE  \A k \in Messages, u \in Positive : Named(u, k)' => Named(u, k)
    <2>1. \A k \in Messages, u \in Positive :
             \/ <<u, k>> \in issued' \/ Lists(index'.messages, u, k)
             \/ Lists(snap'[s].messages, u, k) \/ Lists(op'[s].snap.messages, u, k)
             => Named(u, k)
      BY <1>4 DEF Named
    <2>2. QED
      BY <1>1, <1>4, <2>1, NamesFrame DEF Alone
  <1>5. ASSUME op'[s] = Removed(o, m), o.pc \in Removing, o.ids # {}
        PROVE  \A k \in Messages, u \in Positive :
                   Lists(op'[s].snap.messages, u, k) => Lists(o.snap.messages, u, k)
    <2>1. op'[s].snap.messages = Without(o.snap.messages, m)
      BY <1>0, <1>5 DEF Removed, Ops, Snapshots
    <2>2. QED
      BY <2>1 DEF Lists, Without
  <1> HIDE DEF m
  \* A step of the removal that takes no .uid and no body away.
  <1>6. ASSUME UNCHANGED <<eml, uid, uidnext, index, used, issued>>, o.pc \notin {"scan", "body"},
               op'[s].pc # "scan", snap'[s].messages \in {snap[s].messages, o.snap.messages},
               op'[s].snap.messages \in {o.snap.messages, NoMessages}
        PROVE  UidInv'
    <2>1. \A k \in Messages, u \in Positive :
              Lists(op'[s].snap.messages, u, k) => Lists(o.snap.messages, u, k)
      BY <1>6, NoMessagesMap DEF Lists
    <2>2. \A k \in Messages, u \in Positive : Named(u, k)' => Named(u, k)
      BY <1>4, <1>6, <2>1
    <2>3. \A t \in Sessions : op[t].pc = "body" => op'[t].pc = "body" /\ op'[t].ids = op[t].ids
      BY <1>1, <1>6 DEF Alone
    <2>4. \A t \in Sessions : (op[t].pc = "scan" <=> op'[t].pc = "scan")
                              /\ (op[t].pc = "scan" => op'[t] = op[t])
      BY <1>1, <1>6 DEF Alone
    <2>5. QED
      BY <1>2, <1>6, <2>2, <2>3, <2>4, UidCalm
  <1>7. CASE ArchiveSidecar(s)
    BY <1>0, <1>6, <1>7 DEF ArchiveSidecar, At, Step, disk, history, Ops
  <1>8. CASE VanishedBump(s)
    BY <1>0, <1>6, <1>8 DEF VanishedBump, At, Step, history, Ops
  <1>9. CASE VanishedRecord(s)
    BY <1>0, <1>6, <1>9 DEF VanishedRecord, At, Done, Step, history, Idle, NoSnapshot
  \* No scan is under way, before or after.
  <1>10. ASSUME o.pc \in Removing, op'[s].pc \in Removing, uidnext' = uidnext
         PROVE  /\ Counting' /\ \A t \in Sessions : op'[t].pc # "scan"
                /\ \A u \in Positive : Below(u) => Below(u)'
    BY <1>1, <1>10 DEF Alone, Counting, Below, Removing
  <1>11. CASE RemoveFiles(s) \/ ArchiveBody(s)
    <2>1. /\ op'[s] = Removed(o, m) /\ o.pc \in Removing /\ o.ids # {} /\ op'[s].pc = "remove"
          /\ eml' = eml \ {m} /\ uid' \in {uid, [uid EXCEPT ![m] = 0]}
          /\ UNCHANGED <<uidnext, index, snap, used, issued>>
      <3>1. Removed(o, m).pc = "remove"
        BY <1>0 DEF Removed, Ops
      <3>2. CASE RemoveFiles(s)
        BY <1>0, <3>1, <3>2 DEF RemoveFiles, At, Step, Removing, m
      <3>3. CASE ArchiveBody(s)
        BY <1>0, <3>1, <3>3 DEF ArchiveBody, At, Step, Shape, Removing, m
      <3>4. QED
        BY <1>11, <3>2, <3>3
    <2>2. \A k \in Messages : (k # m => uid'[k] = uid[k]) /\ (uid'[k] \in {uid[k], 0})
      BY <1>0, <1>3, <2>1
    <2>3. \A k \in Messages, u \in Positive : Named(u, k)' => Named(u, k)
      BY <1>4, <1>5, <2>1, <2>2
    <2>4. /\ Counting' /\ \A t \in Sessions : op'[t].pc # "scan"
          /\ \A u \in Positive : Below(u) => Below(u)'
      BY <1>10, <2>1 DEF Removing
    <2>5. \A t \in Sessions : op[t].pc = "body" => t = s
      BY <1>1 DEF Alone
    <2>6. \A k \in Messages : Gone(k) => Gone(k)'
      BY <2>1, <2>2, <2>4, <2>5 DEF Gone, m
    <2>7. \A k \in Messages : uid'[k] = uid[k] \/ Gone(k)'
      BY <1>0, <1>3, <2>1, <2>2, <2>4 DEF Gone
    <2>8. QED
      BY <1>2, <2>3, <2>4, <2>6, <2>7, UidFrame
  <1>12. CASE ArchiveSidecars(s)
    <2>1. /\ o.pc = "move" /\ o.ids # {} /\ op'[s].pc = "body" /\ op'[s].ids = o.ids
          /\ op'[s].snap.messages = o.snap.messages
          /\ uid' = [uid EXCEPT ![m] = 0]
          /\ UNCHANGED <<eml, uidnext, index, snap, used, issued>>
      BY <1>0, <1>12 DEF ArchiveSidecars, At, Step, Ops, Shape, m, history
    <2>2. uid'[m] = 0 /\ \A k \in Messages : (k # m => uid'[k] = uid[k]) /\ (uid'[k] \in {uid[k], 0})
      BY <1>0, <1>3, <2>1
    <2>3. \A k \in Messages, u \in Positive : Named(u, k)' => Named(u, k)
      BY <1>4, <2>1, <2>2
    <2>4. /\ Counting' /\ \A t \in Sessions : op'[t].pc # "scan"
          /\ \A u \in Positive : Below(u) => Below(u)'
      BY <1>10, <2>1 DEF Removing
    <2>5. \A t \in Sessions : op[t].pc # "body"
      BY <1>1, <2>1 DEF Alone
    <2>6. \A k \in Messages : Gone(k) => Gone(k)'
      BY <2>1, <2>2, <2>4, <2>5 DEF Gone
    <2>7. \A k \in Messages : uid'[k] = uid[k] \/ Gone(k)'
      BY <1>3, <2>1, <2>2, <2>4 DEF Gone, m
    <2>8. QED
      BY <1>2, <2>3, <2>4, <2>6, <2>7, UidFrame
  <1>13. ~ArchiveFails(s)
    BY DEF ArchiveFails, InTurn, Spared
  <1>14. QED
    BY <1>7, <1>8, <1>9, <1>11, <1>12, <1>13 DEF Removal

\* A command repeats the UIDs of its connection's snapshots, and takes up no
\* scan.
Carried(s) ==
    /\ op[s].pc \notin {"scan", "body"} /\ op'[s].pc \notin {"scan", "body"}
    /\ eml' \intersect used \subseteq eml
    /\ \A m, u : \/ Lists(op'[s].snap.messages, u, m) \/ Lists(snap'[s].messages, u, m)
                 \/ <<u, m>> \in issued'
                 => \/ Lists(op[s].snap.messages, u, m) \/ Lists(snap[s].messages, u, m)
                    \/ <<u, m>> \in issued

LEMMA CommandCarries ==
  ASSUME TypeInv, NEW s \in Sessions, Command(s)
  PROVE  Carried(s)
  <1> DEFINE o == op[s]
  <1>0. /\ o \in Ops /\ o.snap \in Snapshots /\ o.snap.messages \in RefMaps /\ op \in [Sessions -> Ops]
        /\ snap \in [Sessions -> Snapshots] /\ snap[s].messages \in RefMaps /\ Shape(s)
    BY DEF TypeInv, SessionTypes, Ops, Snapshots
  <1>n. \A m, u : ~Lists(NoMessages, u, m)
    BY NoMessagesMap DEF Lists
  <1>i. /\ Idle.pc = "idle" /\ Idle.snap.messages = NoMessages
        /\ NoSnapshot.messages = NoMessages /\ Idle.snap = NoSnapshot
    BY DEF Idle, NoSnapshot
  <1>e. Framed(s)
    BY CommandFrame
  <1>1. ASSUME o.pc \notin {"scan", "body"}, op'[s].pc \notin {"scan", "body"},
               UNCHANGED <<eml, issued>>,
               op'[s].snap.messages \in {NoMessages, o.snap.messages, snap[s].messages},
               snap'[s].messages \in {NoMessages, o.snap.messages, snap[s].messages}
        PROVE  Carried(s)
    BY <1>1, <1>n DEF Carried
  <1>2. ASSUME Done(s), o.pc \in {"idle", "opened", "literal"}, eml' = eml, issued' = Issue(o.snap.messages),
               snap'[s].messages \in {o.snap.messages, snap[s].messages}
        PROVE  Carried(s)
    <2>1. op'[s] = Idle
      BY <1>0, <1>2 DEF Done, Step
    <2>2. \A m, u : <<u, m>> \in issued' => <<u, m>> \in issued \/ Lists(o.snap.messages, u, m)
      BY <1>2 DEF Issue, Lists
    <2>3. QED
      BY <1>2, <1>n, <1>i, <2>1, <2>2 DEF Carried
  <1>3. CASE Select(s) \/ CheckIdle(s)
    <2>1. /\ op'[s].pc = "open" /\ op'[s].snap = NoSnapshot /\ snap' = snap /\ o.pc = "idle"
          /\ UNCHANGED <<eml, issued>>
      <3>1. Start(s, "select") \/ Start(s, "idle")
        BY <1>3 DEF Select, CheckIdle
      <3>2. op'[s].pc = "open" /\ op'[s].snap = NoSnapshot
        BY <1>0, <3>1 DEF Start, Step, Idle
      <3>3. QED
        BY <1>3, <3>2 DEF Select, CheckIdle, Begin, disk, history
    <2>2. QED
      BY <1>1, <1>i, <2>1
  <1>4. CASE SelectDone(s)
    <2>1. Done(s) /\ o.pc = "opened" /\ eml' = eml /\ issued' = Issue(o.snap.messages) /\ snap'[s] = o.snap
      BY <1>0, <1>4 DEF SelectDone, At, disk
    <2>2. QED
      BY <1>2, <2>1
  <1>5. CASE CheckIdleDone(s)
    <2>1. /\ Done(s) /\ o.pc = "opened" /\ eml' = eml /\ snap'[s] \in {snap[s], o.snap}
          /\ issued' \in {issued, Issue(o.snap.messages)}
      BY <1>0, <1>5 DEF CheckIdleDone, At, disk
    <2>2. op'[s] = Idle
      BY <1>0, <2>1 DEF Done, Step
    <2>3. QED
      BY <1>1, <1>2, <1>i, <2>1, <2>2
  <1>6. CASE Close(s)
    <2>1. op'[s] = Idle /\ o.pc \in {"idle", "literal"} /\ UNCHANGED <<eml, issued>> /\ snap'[s] = NoSnapshot
      BY <1>0, <1>6 DEF Close, Done, Step, disk, history
    <2>2. QED
      BY <1>1, <1>i, <2>1
  <1>7. ASSUME NEW m \in Messages, NEW mode \in Modes, NEW given \in SUBSET Flags,
               NEW since \in {0, cache[s].modseq}, Store(s, m, mode, given, since)
        PROVE  Carried(s)
    <2>1. /\ op'[s].pc = "bump" /\ op'[s].snap = snap[s] /\ o.pc = "idle" /\ snap' = snap
          /\ UNCHANGED <<eml, issued>>
      BY <1>0, <1>7 DEF Store, Begin, Step, Idle, history
    <2>2. QED
      BY <1>1, <2>1
  <1>8. CASE StoreBump(s)
    <2>1. /\ op'[s].pc = "stamp" /\ op'[s].snap = o.snap /\ o.pc = "bump" /\ snap' = snap
          /\ UNCHANGED <<eml, issued>>
      BY <1>0, <1>8 DEF StoreBump, At, Step, Ops, history
    <2>2. QED
      BY <1>1, <2>1
  <1>9. CASE StoreStamp(s)
    <2> DEFINE f == snap[s].messages
               ref == [f[o.new] EXCEPT !.flags = o.flags, !.modseq = o.counter]
               map == With(f, o.new, ref)
    <2>1. op'[s] = Idle /\ o.pc = "stamp" /\ snap'[s].messages = map /\ UNCHANGED <<eml, issued>>
      BY <1>0, <1>9 DEF StoreStamp, At, Done, Step, Snapshots, history
    <2>2. o.new \in DOMAIN f /\ f[o.new] \in Refs
      BY <1>0, <2>1, RefMapFacts DEF Shape
    <2>3. ref.uid = f[o.new].uid
      BY <2>2 DEF Refs
    <2>4. DOMAIN map = DOMAIN f /\ \A k \in DOMAIN f : map[k].uid = f[k].uid
      BY <2>2, <2>3 DEF With
    <2> HIDE DEF map
    <2>5. \A m, u : Lists(map, u, m) => Lists(f, u, m)
      BY <2>4 DEF Lists
    <2>6. QED
      BY <1>i, <1>n, <2>1, <2>5 DEF Carried
  <1>10. ASSUME NEW ids \in SUBSET Messages, Expunge(s, ids)
         PROVE  Carried(s)
    <2>1. /\ op'[s].pc = "remove" /\ op'[s].snap = snap[s] /\ o.pc = "idle" /\ snap' = snap
          /\ UNCHANGED <<eml, issued>>
      BY <1>0, <1>10 DEF Expunge, Begin, Step, Idle, disk, history
    <2>2. QED
      BY <1>1, <2>1
  <1>11. ASSUME NEW m \in Messages, Destroy(s, m)
         PROVE  Carried(s)
    <2>1. /\ op'[s].pc = "open" /\ op'[s].snap = NoSnapshot /\ o.pc = "idle" /\ snap' = snap
          /\ UNCHANGED <<eml, issued>>
      BY <1>0, <1>11 DEF Destroy, Begin, Step, Idle, disk, history
    <2>2. QED
      BY <1>1, <1>i, <2>1
  <1>12. CASE DestroyFound(s) \/ ReplaceExpunge(s)
    <2>1. /\ o.pc = "opened" /\ snap' = snap /\ UNCHANGED <<eml, issued>>
          /\ Done(s) \/ \E ids : Step(s, [o EXCEPT !.pc = "remove", !.ids = ids])
      BY <1>12 DEF DestroyFound, ReplaceExpunge, At, disk, history
    <2>2. op'[s].pc \in {"remove", "idle"} /\ op'[s].snap.messages \in {o.snap.messages, NoMessages}
      <3>1. CASE Done(s)
        BY <1>0, <1>i, <3>1 DEF Done, Step
      <3>2. CASE \E ids : Step(s, [o EXCEPT !.pc = "remove", !.ids = ids])
        BY <1>0, <3>2 DEF Step, Ops
      <3>3. QED
        BY <2>1, <3>1, <3>2
    <2>3. QED
      BY <1>1, <2>1, <2>2
  <1>13. ASSUME NEW given \in SUBSET Flags, AppendBegin(s, given)
         PROVE  Carried(s)
    <2>1. /\ op'[s].pc = "literal" /\ op'[s].snap = NoSnapshot /\ o.pc = "idle" /\ snap' = snap
          /\ UNCHANGED <<eml, issued>>
      BY <1>0, <1>13 DEF AppendBegin, Begin, Step, Idle, disk, history
    <2>2. QED
      BY <1>1, <1>i, <2>1
  <1>14. ASSUME NEW m \in Messages, NEW given \in SUBSET Flags, ReplaceBegin(s, m, given)
         PROVE  Carried(s)
    <2>1. /\ op'[s].pc = "literal" /\ op'[s].snap = NoSnapshot /\ o.pc = "idle" /\ snap' = snap
          /\ UNCHANGED <<eml, issued>>
      BY <1>0, <1>14 DEF ReplaceBegin, Begin, Step, Idle, disk, history
    <2>2. QED
      BY <1>1, <1>i, <2>1
  <1>15. ASSUME NEW m \in Messages, LiteralDone(s, m)
         PROVE  Carried(s)
    <2>1. /\ op'[s].pc \in {"open", "flags"} /\ op'[s].snap = o.snap /\ o.pc = "literal" /\ snap' = snap
          /\ issued' = issued /\ eml' = eml \union {m} /\ m \notin used
      BY <1>0, <1>15, NewestNew DEF LiteralDone, At, Step, Ops
    <2>2. QED
      BY <2>1 DEF Carried
  <1>16. CASE AppendFlags(s)
    <2>1. /\ op'[s].pc = "open" /\ op'[s].snap = o.snap /\ o.pc = "flags" /\ snap' = snap
          /\ UNCHANGED <<eml, issued>>
      BY <1>0, <1>16 DEF AppendFlags, At, Step, Ops, history
    <2>2. QED
      BY <1>1, <2>1
  <1>17. CASE AppendUid(s)
    <2>1. /\ o.pc = "opened" /\ snap' = snap /\ eml' = eml
          /\ Done(s) \/ Step(s, [o EXCEPT !.pc = "open", !.why = "source"])
      BY <1>17 DEF AppendUid, At, disk
    <2>2. op'[s].pc \in {"open", "idle"} /\ op'[s].snap.messages \in {o.snap.messages, NoMessages}
      <3>1. CASE Done(s)
        BY <1>0, <1>i, <3>1 DEF Done, Step
      <3>2. CASE Step(s, [o EXCEPT !.pc = "open", !.why = "source"])
        BY <1>0, <3>2 DEF Step, Ops
      <3>3. QED
        BY <2>1, <3>1, <3>2
    <2>3. \A m, u : <<u, m>> \in issued' => <<u, m>> \in issued \/ Lists(o.snap.messages, u, m)
      BY <1>17 DEF AppendUid, Lists
    <2>4. QED
      BY <1>n, <2>1, <2>2, <2>3 DEF Carried
  <1>18. QED
    BY <1>3, <1>4, <1>5, <1>6, <1>7, <1>8, <1>9, <1>10, <1>11, <1>12, <1>13, <1>14, <1>15, <1>16, <1>17
       DEF Command

LEMMA CommandUids ==
  ASSUME TypeInv, UidInv, NEW s \in Sessions, Command(s), InTurn'
  PROVE  UidInv'
  <1>1. Alone(s) /\ Framed(s) /\ Carried(s)
    BY StepAlone, CommandFrame, CommandCarries
  <1>2. \A m \in Messages, u \in Positive :
           \/ <<u, m>> \in issued' \/ Lists(index'.messages, u, m)
           \/ Lists(snap'[s].messages, u, m) \/ Lists(op'[s].snap.messages, u, m)
           => Named(u, m)
    BY <1>1 DEF Carried, Framed, Named
  <1>3. \A m \in Messages, u \in Positive : Named(u, m)' => Named(u, m)
    BY <1>1, <1>2, NamesFrame DEF Alone, Framed
  <1>4. \A t \in Sessions : op[t].pc = "body" => op'[t].pc = "body" /\ op'[t].ids = op[t].ids
    BY <1>1 DEF Alone, Carried
  <1>5. \A t \in Sessions : (op[t].pc = "scan" <=> op'[t].pc = "scan")
                            /\ (op[t].pc = "scan" => op'[t] = op[t])
    BY <1>1 DEF Alone, Carried
  <1>6. QED
    BY <1>1, <1>3, <1>4, <1>5, UidCalm DEF Framed, Carried, Alone

LEMMA OthersUids ==
  ASSUME TypeInv, UidInv, Others
  PROVE  UidInv'
  <1>1. ASSUME UNCHANGED <<op, snap, uid, uidnext, index, issued>>, used \subseteq used',
               eml' \intersect used \subseteq eml, disturbed \subseteq disturbed'
        PROVE  UidInv'
    <2>1. \A m \in Messages, u \in Positive : Named(u, m)' => Named(u, m)
      BY <1>1 DEF Named
    <2>2. CASE InTurn
      BY <1>1, <2>1, <2>2, UidCalm
    <2>3. CASE ~InTurn
      BY <1>1, <2>3 DEF UidInv, InTurn, Spared
    <2>4. QED
      BY <2>2, <2>3
  <1>2. ASSUME NEW m \in Messages, NEW given \in SUBSET Flags,
               Deliver(m, given) \/ WriteFlagSidecar(m, given)
        PROVE  UidInv'
    BY <1>1, <1>2 DEF Deliver, WriteFlagSidecar, history
  <1>3. ASSUME NEW m \in Messages, Pop3Remove(m)
        PROVE  UidInv'
    BY <1>1, <1>3 DEF Pop3Remove
  <1>4. ASSUME NEW m \in Messages, NEW copy \in Messages, RestoreAppend(m, copy)
        PROVE  UidInv'
    BY <1>1, <1>4, NewestNew DEF RestoreAppend
  <1>5. CASE RestoreRemove \/ SweepRead \/ SweepRemove \/ Tick
    BY <1>1, <1>5 DEF RestoreRemove, SweepRead, SweepRemove, Tick, disk, history
  <1>6. CASE Crash
    BY <1>6 DEF Crash, UidInv, InTurn, Spared
  <1>7. QED
    BY <1>2, <1>3, <1>4, <1>5, <1>6 DEF Others

----------------------------------------------------------------------------
(* Snapshots, the index and what clients remember.                         *)

LEMMA InitFaith ==
  ASSUME Init
  PROVE  FaithInv
  <1>1. /\ uid = [m \in Messages |-> 0] /\ modseq = [m \in Messages |-> 1] /\ modseqctr = 1
        /\ index.gen = <<0, 0>> /\ filing = {}
        /\ \A s \in Sessions : op[s].pc = "idle" /\ cache[s].uids = {} /\ cache[s].modseq = 0
    BY DEF Init, NoIndex, Idle
  <1>2. \A s \in Sessions : OpenTrue(op[s]) /\ WriteTrue(op[s]) /\ Remembered(s)
    BY <1>1 DEF OpenTrue, WriteTrue, Remembered
  <1>3. index.gen[1] = 0
    BY <1>1
  <1>4. IndexTrue /\ Ordered
    BY <1>1, <1>3 DEF IndexTrue, Ordered
  <1>5. QED
    BY <1>2, <1>4 DEF FaithInv

\* A handler that has its turn need only answer for itself.
LEMMA FaithStep ==
  ASSUME NEW s \in Sessions, Alone(s),
         OpenTrue(op[s])', WriteTrue(op[s])', Ordered', \A t \in Sessions : Remembered(t)',
         index'.gen[1] <= modseqctr',
         index'.gen[1] = modseqctr' /\ op'[s].pc \notin Rewriting => Honest',
         index'.gen[1] = modseqctr' /\ op'[s].pc \notin Rewriting \union Scanning => Whole'
  PROVE  FaithInv'
  <1>1. \A t \in Sessions : t # s => OpenTrue(op[t])' /\ WriteTrue(op[t])'
    BY DEF Alone, OpenTrue, WriteTrue
  <1>2. IndexTrue'
    BY DEF IndexTrue, Quiet, Alone
  <1>3. QED
    BY <1>1, <1>2 DEF FaithInv

\* The converse: what the index shows a handler that has its turn.
LEMMA FaithNow ==
  ASSUME NEW s \in Sessions, Alone(s), Undisturbed, FaithInv
  PROVE  /\ OpenTrue(op[s]) /\ WriteTrue(op[s]) /\ Ordered /\ \A t \in Sessions : Remembered(t)
         /\ index.gen[1] <= modseqctr
         /\ index.gen[1] = modseqctr /\ op[s].pc \notin Rewriting => Honest
         /\ index.gen[1] = modseqctr /\ op[s].pc \notin Rewriting \union Scanning => Whole
  <1>1. IndexTrue
    BY DEF FaithInv
  <1>2. op[s].pc \notin Rewriting => Quiet(Rewriting)
    BY DEF Quiet, Alone, Rewriting, Removing
  <1>3. op[s].pc \notin Rewriting \union Scanning => Quiet(Rewriting \union Scanning)
    BY DEF Quiet, Alone, Rewriting, Removing, Scanning
  <1>4. QED
    BY <1>1, <1>2, <1>3 DEF FaithInv, IndexTrue

\* What clients remember outlasts a step that keeps, or is about to log, every
\* UID on disk.
LEMMA RememberFrame ==
  ASSUME TypeInv, NEW s \in Sessions, Alone(s), \A t \in Sessions : Remembered(t),
         modseqctr' \in Nat, modseqctr <= modseqctr', vanished \subseteq vanished',
         \A t \in Sessions : cache'[t].uids \subseteq cache[t].uids /\ cache'[t].modseq = cache[t].modseq,
         \A m \in eml : uid[m] > 0 => (m \in eml' /\ uid'[m] = uid[m]) \/ Going(op'[s], uid[m]),
         \A u \in Positive : Going(op[s], u) =>
             Going(op'[s], u) \/ \A t \in Sessions : u \in Since(cache[t].modseq)'
  PROVE  \A t \in Sessions : Remembered(t)'
  <1>1. SUFFICES ASSUME NEW t \in Sessions PROVE Remembered(t)'
    OBVIOUS
  <1>2. /\ cache[t].modseq \in Nat /\ cache[t].uids \subseteq Positive /\ modseqctr \in Nat
    BY DEF TypeInv, SessionTypes, DiskTypes, Caches, Positive
  <1>3. cache'[t].modseq <= modseqctr'
    BY <1>2 DEF Remembered
  <1>4. ASSUME NEW u \in cache'[t].uids
        PROVE  \/ \E m \in eml' : uid'[m] = u
               \/ u \in Since(cache[t].modseq)'
               \/ \E r \in Sessions : Going(op'[r], u)
    <2>1. u \in cache[t].uids /\ u \in Positive
      BY <1>2, <1>4
    <2>2. CASE \E m \in eml : uid[m] = u
      BY <2>1, <2>2 DEF Positive
    <2>3. CASE u \in Since(cache[t].modseq)
      BY <2>3 DEF Since
    <2>4. ASSUME NEW r \in Sessions, Going(op[r], u)
          PROVE  u \in Since(cache[t].modseq)' \/ \E q \in Sessions : Going(op'[q], u)
      <3>1. r = s
        BY <2>4 DEF Alone, Going, Removing
      <3>2. QED
        BY <2>1, <2>4, <3>1
    <2>5. QED
      BY <2>1, <2>2, <2>3, <2>4 DEF Remembered
  <1>5. QED
    BY <1>3, <1>4 DEF Remembered, Going

\* A step that changes nothing on disk but for a message that arrives, while
\* the index may be trusted.
LEMMA FaithCalm ==
  ASSUME TypeInv, FaithInv, Undisturbed, NEW s \in Sessions, Alone(s),
         UNCHANGED <<flags, uid, modseq, modseqctr, vanished, index, cache>>,
         used \subseteq used', eml \subseteq eml', eml' \subseteq Messages, eml' \intersect used \subseteq eml,
         op[s].pc \notin Rewriting \union Scanning \union {"record"},
         OpenTrue(op[s])', WriteTrue(op[s])'
  PROVE  FaithInv'
  <1>0. uid \in [Messages -> Nat] /\ modseqctr \in Nat
    BY DEF TypeInv, DiskTypes
  <1>1. /\ Ordered /\ \A t \in Sessions : Remembered(t)
        /\ index.gen[1] <= modseqctr /\ (index.gen[1] = modseqctr => Honest /\ Whole)
    BY FaithNow
  <1>2. Ordered'
    BY <1>1 DEF Ordered
  <1>3. index.gen[1] = modseqctr => Honest' /\ Whole'
    BY <1>1 DEF Honest, Whole, Matches, Ordered
  <1>4. \A u \in Positive : ~Going(op[s], u)
    BY DEF Going, Rewriting
  <1>5. \A t \in Sessions : Remembered(t)'
    BY <1>0, <1>1, <1>4, RememberFrame
  <1>6. QED
    BY <1>1, <1>2, <1>3, <1>5, FaithStep

\* An open that has met m lists it as it now is on disk.
LEMMA ScanFaith ==
  ASSUME TypeInv, FreshInv, FaithInv, Undisturbed, NEW s \in Sessions, Alone(s), ScanMessage(s)
  PROVE  FaithInv'
  <1> DEFINE o == op[s]
             m == Min(o.ids)
             w == AssignOrRead(m, o.counter)
             ref == [uid |-> w, flags |-> flags[m], modseq |-> modseq[m], size |-> SizeSeen(o.why)]
             map == With(o.snap.messages, m, ref)
  <1>0. /\ o \in Ops /\ o.snap \in Snapshots /\ o.snap.messages \in RefMaps /\ op \in [Sessions -> Ops]
        /\ o.counter \in Nat /\ o.ids \subseteq Messages /\ KnownOp(o, used)
        /\ uid \in [Messages -> Nat] /\ modseqctr \in Nat /\ eml \subseteq Messages
        /\ index.messages \in RefMaps
    BY DEF TypeInv, DiskTypes, SessionTypes, Ops, Snapshots, FreshInv
  <1>1. o.pc = "scan" /\ m \in o.ids /\ m \in Messages /\ m \in used
    BY <1>0, MinMessage DEF ScanMessage, At, KnownOp
  <1>2. /\ uid' = [uid EXCEPT ![m] = w]
        /\ UNCHANGED <<eml, flags, modseq, modseqctr, vanished, index, cache, used>>
    BY DEF ScanMessage, history
  <1>3. /\ op'[s].pc = "scan" /\ op'[s].ids = o.ids \ {m} /\ op'[s].gen = o.gen
        /\ op'[s].snap.messages = map
    BY <1>0, <1>1 DEF ScanMessage, Step, Ops, Snapshots
  <1>4. w > 0 /\ w \in Nat /\ (uid[m] > 0 => w = uid[m])
    BY <1>0, <1>1 DEF AssignOrRead
  <1>5. /\ DOMAIN map = DOMAIN o.snap.messages \union {m}
        /\ map[m].uid = w /\ map[m].flags = flags[m] /\ map[m].modseq = modseq[m]
        /\ \A k \in DOMAIN o.snap.messages : k # m => map[k] = o.snap.messages[k]
    <2>1. map[m] = ref
      BY DEF With
    <2>2. QED
      BY <2>1 DEF With
  <1> HIDE DEF map, m, w
  <1>6. uid'[m] = w /\ \A k \in Messages : k # m => uid'[k] = uid[k]
    BY <1>0, <1>1, <1>2
  <1>7. /\ OpenTrue(o) /\ Ordered /\ \A t \in Sessions : Remembered(t)
        /\ index.gen[1] <= modseqctr /\ (index.gen[1] = modseqctr => Honest)
    BY <1>1, FaithNow DEF Rewriting, Removing
  <1>8. Covered(op'[s]) = Covered(o) /\ m \in Covered(o)
    BY <1>1, <1>3, <1>5 DEF Covered
  <1>9. Matches(op[s].snap.messages)'
    <2>1. ASSUME NEW k \in DOMAIN map
          PROVE  map[k].uid = uid'[k] /\ map[k].flags = flags[k] /\ map[k].modseq = modseq[k]
      <3>1. CASE k = m
        BY <1>5, <1>6, <3>1
      <3>2. CASE k # m
        <4>1. k \in DOMAIN o.snap.messages /\ k \in Messages /\ map[k] = o.snap.messages[k]
          BY <1>0, <1>5, <2>1, <3>2, RefMapFacts
        <4>2. Matches(o.snap.messages)
          BY <1>1, <1>7 DEF OpenTrue
        <4>3. QED
          BY <1>6, <3>2, <4>1, <4>2 DEF Matches
      <3>3. QED
        BY <3>1, <3>2
    <2>2. QED
      BY <1>2, <2>1, <1>3 DEF Matches
  <1>10. OpenTrue(op[s])'
    BY <1>1, <1>2, <1>3, <1>6, <1>7, <1>8, <1>9, <1>0 DEF OpenTrue, Matches, Covered
  <1>11. WriteTrue(op[s])'
    BY <1>3 DEF WriteTrue
  <1>12. index.gen[1] = modseqctr => Honest'
    <2>1. SUFFICES ASSUME Honest PROVE Honest'
      BY <1>7
    <2>2. ASSUME NEW k \in DOMAIN index.messages
          PROVE  uid'[k] = uid[k]
      <3>1. index.messages[k].uid > 0 /\ index.messages[k].uid = uid[k] /\ k \in Messages
        BY <1>0, <2>1, RefMapFacts DEF Honest, Matches
      <3>2. QED
        BY <1>4, <1>6, <3>1
    <2>3. QED
      BY <1>2, <2>1, <2>2 DEF Honest, Matches
  <1>13. Ordered'
    BY <1>1, <1>2, <1>6, <1>7 DEF Ordered
  <1>14. \A k \in eml : uid[k] > 0 => k \in eml' /\ uid'[k] = uid[k]
    BY <1>0, <1>2, <1>4, <1>6
  <1>15. \A u \in Positive : ~Going(op[s], u)
    BY <1>1 DEF Going, Removing
  <1>16. \A t \in Sessions : Remembered(t)'
    BY <1>0, <1>2, <1>7, <1>14, <1>15, RememberFrame
  <1>17. QED
    BY <1>2, <1>3, <1>7, <1>10, <1>11, <1>12, <1>13, <1>16, FaithStep DEF Scanning

LEMMA OpenFaith ==
  ASSUME TypeInv, FreshInv, FaithInv, Undisturbed, NEW s \in Sessions, Alone(s), Open(s)
  PROVE  FaithInv'
  <1> DEFINE o == op[s]
  <1>0. /\ o \in Ops /\ o.snap \in Snapshots /\ o.snap.messages \in RefMaps /\ op \in [Sessions -> Ops]
        /\ modseqctr \in Nat /\ eml \subseteq Messages /\ eml \subseteq used /\ o.gen \in Nat \X Nat
        /\ index.messages \in RefMaps /\ modseq \in [Messages -> Nat]
    BY DEF TypeInv, DiskTypes, SessionTypes, Ops, Snapshots
  <1>1. /\ OpenTrue(o) /\ Ordered /\ \A t \in Sessions : Remembered(t) /\ index.gen[1] <= modseqctr
        /\ index.gen[1] = modseqctr /\ o.pc \notin Rewriting => Honest
        /\ index.gen[1] = modseqctr /\ o.pc \notin Rewriting \union Scanning => Whole
    BY FaithNow
  <1>2. ASSUME UNCHANGED <<eml, flags, uid, modseq, modseqctr, vanished, index, cache, used>>,
               o.pc \in {"open", "load"}, op'[s].pc \in Opening, OpenTrue(op[s])'
        PROVE  FaithInv'
    <2>1. WriteTrue(op[s])'
      BY <1>2 DEF WriteTrue, Opening
    <2>2. o.pc \notin Rewriting \union Scanning \union {"record"}
      BY <1>2 DEF Rewriting, Removing, Scanning
    <2>3. QED
      BY <1>0, <1>2, <2>1, <2>2, FaithCalm
  <1>3. CASE OpenBegin(s)
    <2>1. /\ o.pc = "open" /\ op'[s].pc = "load" /\ op'[s].snap.messages = NoMessages
          /\ op'[s].gen = <<modseqctr, Cardinality(eml)>>
          /\ UNCHANGED <<eml, flags, uid, modseq, modseqctr, vanished, index, cache, used>>
      BY <1>0, <1>3 DEF OpenBegin, Generation, At, Step, disk, history, Ops, NoSnapshot
    <2>2. op'[s].gen[1] = modseqctr /\ op'[s].gen[2] = Cardinality(eml) /\ Cardinality(eml) \in Nat
      BY <1>0, <2>1, FiniteMessages
    <2>3. OpenTrue(op[s])'
      BY <2>1, <2>2, NoMessagesMap DEF OpenTrue
    <2>4. QED
      BY <1>2, <2>1, <2>3 DEF Opening
  <1>4. CASE OpenFromIndex(s)
    <2>1. /\ o.pc = "load" /\ op'[s].pc = "opened" /\ op'[s].snap.messages = index.messages
          /\ op'[s].snap.highest = o.gen[1] /\ op'[s].gen = o.gen /\ IndexFresh(o.gen)
          /\ UNCHANGED <<eml, flags, uid, modseq, modseqctr, vanished, index, cache, used>>
      BY <1>0, <1>4 DEF OpenFromIndex, At, Step, disk, history, Ops, Snapshots
    <2>2. /\ o.gen[1] = modseqctr /\ index.gen = o.gen /\ o.gen[2] \in Nat
          /\ Cardinality(DOMAIN index.messages) = o.gen[2]
      BY <1>0, <1>1, <2>1 DEF OpenTrue, IndexFresh
    <2>3. Honest /\ Whole
      BY <1>1, <2>1, <2>2 DEF Rewriting, Removing, Scanning
    <2>4. Covered(op'[s]) = DOMAIN index.messages
      BY <2>1 DEF Covered
    <2>5. OpenTrue(op[s])'
      BY <1>0, <2>1, <2>2, <2>3, <2>4 DEF OpenTrue, Covered, Honest, Whole, Matches
    <2>6. QED
      BY <1>2, <2>1, <2>5 DEF Opening
  <1>5. CASE ScanList(s)
    <2>1. /\ o.pc = "load" /\ op'[s].pc = "scan" /\ op'[s].snap.messages = o.snap.messages
          /\ op'[s].ids = eml /\ op'[s].gen = o.gen
          /\ UNCHANGED <<eml, flags, uid, modseq, modseqctr, vanished, index, cache, used>>
      BY <1>0, <1>5 DEF ScanList, At, Step, disk, history, Ops
    <2>2. DOMAIN o.snap.messages = {} /\ o.gen[1] = modseqctr /\ o.gen[2] <= Cardinality(eml)
      BY <1>1, <2>1 DEF OpenTrue
    <2>3. Covered(op'[s]) = eml
      BY <2>1, <2>2 DEF Covered
    <2>4. OpenTrue(op[s])'
      BY <2>1, <2>2, <2>3 DEF OpenTrue, Covered, Matches
    <2>5. QED
      BY <1>2, <2>1, <2>4 DEF Opening
  <1>6. CASE ScanMessage(s)
    BY <1>6, ScanFaith
  <1>7. ASSUME UNCHANGED <<eml, flags, uid, modseq, modseqctr, vanished, cache, used>>,
               o.pc \in Scanning, op'[s].pc \in {"index", "opened"}, OpenTrue(op[s])',
               index'.gen[1] <= modseqctr',
               index'.gen[1] = modseqctr' => Honest',
               index'.gen[1] = modseqctr' /\ op'[s].pc \notin Scanning => Whole'
        PROVE  FaithInv'
    <2>1. WriteTrue(op[s])' /\ Ordered'
      BY <1>1, <1>7 DEF WriteTrue, Ordered
    <2>2. \A u \in Positive : ~Going(op[s], u)
      BY <1>7 DEF Going, Scanning, Removing
    <2>3. \A t \in Sessions : Remembered(t)'
      BY <1>0, <1>1, <1>7, <2>2, RememberFrame
    <2>4. QED
      BY <1>7, <2>1, <2>3, FaithStep
  <1>8. CASE ScanCounter(s)
    <2>1. /\ o.pc = "scan" /\ o.ids = {} /\ op'[s].pc = "index" /\ op'[s].snap.messages = o.snap.messages
          /\ op'[s].gen = o.gen
          /\ UNCHANGED <<eml, flags, uid, modseq, modseqctr, vanished, index, cache, used>>
      BY <1>0, <1>8 DEF ScanCounter, At, Step, history, Ops
    <2>2. Covered(op'[s]) = Covered(o)
      BY <2>1 DEF Covered
    <2>3. OpenTrue(op[s])'
      BY <1>1, <2>1, <2>2 DEF OpenTrue, Covered, Matches
    <2>4. index.gen[1] = modseqctr => Honest'
      BY <1>1, <2>1 DEF Honest, Matches, Rewriting, Removing
    <2>5. QED
      BY <1>1, <1>7, <2>1, <2>3, <2>4 DEF Scanning
  <1>9. CASE WriteIndex(s)
    <2> DEFINE f == o.snap.messages
    <2>1. /\ o.pc = "index" /\ op'[s].pc = "opened" /\ op'[s].snap.messages = f
          /\ op'[s].gen = o.gen /\ op'[s].snap.highest = HighestModseq(f)
          /\ index'.gen = o.gen /\ index'.messages = f
          /\ UNCHANGED <<eml, flags, uid, modseq, modseqctr, vanished, cache, used>>
      BY <1>0, <1>9 DEF WriteIndex, At, Step, history, Ops, Snapshots
    <2>2. /\ Covered(op'[s]) = DOMAIN f /\ Covered(o) = DOMAIN f
      BY <2>1 DEF Covered
    <2>3. /\ o.gen[1] = modseqctr /\ DOMAIN f \subseteq eml /\ Matches(f) /\ o.gen[2] <= Cardinality(DOMAIN f)
          /\ \A m \in eml : uid[m] > 0 => m \in DOMAIN f
      BY <1>1, <2>1, <2>2 DEF OpenTrue
    <2>4. \A m \in DOMAIN f : f[m].modseq <= modseqctr
      BY <1>0, <1>1, <2>3 DEF Matches, Ordered
    <2>5. HighestModseq(f) <= modseqctr
      BY <1>0, <2>4, HighestBounds
    <2>6. OpenTrue(op[s])'
      BY <2>1, <2>2, <2>3, <2>5 DEF OpenTrue, Covered, Matches
    <2>7. Honest' /\ Whole' /\ index'.gen[1] <= modseqctr'
      BY <1>0, <2>1, <2>3 DEF Honest, Whole, Matches
    <2>8. QED
      BY <1>7, <2>1, <2>6, <2>7 DEF Scanning
  <1>10. QED
    BY <1>3, <1>4, <1>5, <1>6, <1>8, <1>9 DEF Open

\* What leaves the mailbox is about to be logged under the UID it had.
LEMMA RemovalFaith ==
  ASSUME TypeInv, FreshInv, UidInv, FaithInv, Undisturbed, NEW s \in Sessions, Alone(s), Removal(s), InTurn'
  PROVE  FaithInv'
  <1> DEFINE o == op[s]
             m == Min(o.ids)
             v == o.snap.messages[m].uid
  <1>0. /\ o \in Ops /\ o.snap \in Snapshots /\ o.snap.messages \in RefMaps /\ op \in [Sessions -> Ops]
        /\ uid \in [Messages -> Nat] /\ Shape(s) /\ modseqctr \in Nat /\ eml \subseteq Messages
        /\ cache \in [Sessions -> Caches] /\ o.gone \subseteq Positive
        /\ index.gen[1] \in Nat /\ o.counter \in Nat /\ modseq \in [Messages -> Nat]
    BY DEF TypeInv, DiskTypes, SessionTypes, Ops, Snapshots, Positive
  <1>1. /\ WriteTrue(o) /\ Ordered /\ \A t \in Sessions : Remembered(t) /\ index.gen[1] <= modseqctr
        /\ index.gen[1] = modseqctr /\ o.pc \notin Rewriting => Honest
        /\ index.gen[1] = modseqctr /\ o.pc \notin Rewriting \union Scanning => Whole
    BY FaithNow
  <1>2. o.ids # {} => m \in o.ids /\ m \in Messages
    BY <1>0, MinMessage DEF Ops
  \* The UID in the snapshot is the one on disk, if there still is one.
  <1>3. ASSUME o.pc \in Removing, o.ids # {}
        PROVE  v \in Positive /\ (uid[m] > 0 => uid[m] = v)
    <2>1. m \in DOMAIN o.snap.messages
      BY <1>0, <1>2, <1>3 DEF Shape
    <2>2. v \in Positive
      BY <1>0, <2>1, RefMapFacts DEF Positive
    <2>3. Named(v, m)
      BY <2>1 DEF Named, Lists
    <2>4. uid[m] = v \/ Gone(m)
      BY <1>2, <1>3, <2>2, <2>3 DEF UidInv, Current, Alone
    <2>5. QED
      BY <2>2, <2>4 DEF Gone
  <1>4. op'[s] = Removed(o, m) /\ o.pc \in Removing
        => op'[s].pc = "remove" /\ op'[s].gone = o.gone \union {v}
    BY <1>0 DEF Removed, Ops
  \* While it removes, nothing is claimed of the index.
  <1>5. ASSUME UNCHANGED <<modseq, modseqctr, vanished, index, cache, used>>,
               o.pc \in Removing, op'[s].pc \in Removing,
               \A k \in Messages : uid'[k] \in {uid[k], 0},
               \A k \in eml : uid[k] > 0 => (k \in eml' /\ uid'[k] = uid[k]) \/ Going(op'[s], uid[k]),
               \A u \in Positive : Going(op[s], u) => Going(op'[s], u)
        PROVE  FaithInv'
    <2>1. OpenTrue(op[s])' /\ WriteTrue(op[s])'
      BY <1>5 DEF OpenTrue, WriteTrue, Removing
    <2>2. Ordered'
      BY <1>1, <1>5 DEF Ordered
    <2>3. \A t \in Sessions : Remembered(t)'
      BY <1>0, <1>1, <1>5, RememberFrame
    <2>4. QED
      BY <1>1, <1>5, <2>1, <2>2, <2>3, FaithStep DEF Rewriting
  <1>6. CASE RemoveFiles(s)
    <2>1. /\ o.pc = "remove" /\ o.ids # {} /\ eml' = eml \ {m} /\ uid' = [uid EXCEPT ![m] = 0]
          /\ op'[s] = Removed(o, m) /\ UNCHANGED <<modseq, modseqctr, vanished, index, cache, used>>
      BY <1>0, <1>6 DEF RemoveFiles, At, Step
    <2>2. op'[s].pc = "remove" /\ op'[s].gone = o.gone \union {v} /\ o.pc \in Removing
      BY <1>4, <2>1 DEF Removing
    <2>3. /\ \A k \in Messages : uid'[k] \in {uid[k], 0} /\ (k # m => uid'[k] = uid[k])
      BY <1>0, <1>2, <2>1
    <2>4. uid[m] > 0 => uid[m] = v
      BY <1>3, <2>1, <2>2
    <2> HIDE DEF m, v
    <2>5. Going(op'[s], v)
      BY <2>2 DEF Going, Removing
    <2>6. \A k \in eml : uid[k] > 0 => (k \in eml' /\ uid'[k] = uid[k]) \/ Going(op'[s], uid[k])
      BY <1>0, <2>1, <2>3, <2>4, <2>5
    <2>7. \A u \in Positive : Going(op[s], u) => Going(op'[s], u)
      BY <2>1, <2>2 DEF Going, Removing
    <2>8. QED
      BY <1>5, <2>1, <2>2, <2>3, <2>6, <2>7 DEF Removing
  <1>7. CASE ArchiveSidecar(s)
    <2>1. /\ o.pc = "remove" /\ op'[s].pc = "move" /\ op'[s].gone = o.gone
          /\ UNCHANGED <<eml, uid, modseq, modseqctr, vanished, index, cache, used>>
      BY <1>0, <1>7 DEF ArchiveSidecar, At, Step, Ops, disk, history
    <2>2. \A u \in Positive : Going(op[s], u) => Going(op'[s], u)
      BY <2>1 DEF Going, Removing
    <2>3. QED
      BY <1>5, <2>1, <2>2 DEF Removing
  <1>8. CASE ArchiveSidecars(s)
    <2>1. /\ o.pc = "move" /\ o.ids # {} /\ uid' = [uid EXCEPT ![m] = 0]
          /\ op'[s].pc = "body" /\ op'[s].gone = o.gone /\ op'[s].ids = o.ids /\ op'[s].snap = o.snap
          /\ UNCHANGED <<eml, modseq, modseqctr, vanished, index, cache, used>>
      BY <1>0, <1>8 DEF ArchiveSidecars, At, Step, Ops, Shape, history
    <2>2. /\ \A k \in Messages : uid'[k] \in {uid[k], 0} /\ (k # m => uid'[k] = uid[k])
      BY <1>0, <1>2, <2>1
    <2>3. uid[m] > 0 => uid[m] = v
      BY <1>3, <2>1 DEF Removing
    <2>4. Going(op'[s], v)
      BY <2>1 DEF Going, Removing
    <2> HIDE DEF m, v
    <2>5. \A k \in eml : uid[k] > 0 => (k \in eml' /\ uid'[k] = uid[k]) \/ Going(op'[s], uid[k])
      BY <1>0, <2>1, <2>2, <2>3, <2>4
    <2>6. \A u \in Positive : Going(op[s], u) => Going(op'[s], u)
      BY <2>1 DEF Going, Removing
    <2>7. QED
      BY <1>5, <2>1, <2>2, <2>5, <2>6 DEF Removing
  <1>9. CASE ArchiveBody(s)
    <2>1. /\ o.pc = "body" /\ o.ids # {} /\ eml' = eml \ {m}
          /\ op'[s] = Removed(o, m) /\ UNCHANGED <<uid, modseq, modseqctr, vanished, index, cache, used>>
      BY <1>0, <1>9 DEF ArchiveBody, At, Step, Shape
    <2>2. op'[s].pc = "remove" /\ op'[s].gone = o.gone \union {v} /\ o.pc \in Removing
      BY <1>4, <2>1 DEF Removing
    <2>3. uid[m] > 0 => uid[m] = v
      BY <1>3, <2>1, <2>2
    <2>4. \A u \in Positive : Going(op[s], u) => Going(op'[s], u)
      BY <2>1, <2>2 DEF Going, Removing
    <2> HIDE DEF m, v
    <2>5. Going(op'[s], v)
      BY <2>2 DEF Going, Removing
    <2>6. \A k \in eml : uid[k] > 0 => (k \in eml' /\ uid'[k] = uid[k]) \/ Going(op'[s], uid[k])
      BY <1>0, <2>1, <2>3, <2>5
    <2>7. QED
      BY <1>5, <2>1, <2>2, <2>4, <2>6 DEF Removing
  <1>10. CASE VanishedBump(s)
    <2>1. /\ o.pc = "remove" /\ modseqctr' = modseqctr + 1
          /\ op'[s].pc = "record" /\ op'[s].counter = modseqctr + 1 /\ op'[s].gone = o.gone
          /\ UNCHANGED <<eml, uid, modseq, vanished, index, cache, used>>
      BY <1>0, <1>10 DEF VanishedBump, At, Step, Ops, history
    <2>2. modseqctr' \in Nat /\ modseqctr <= modseqctr' /\ index'.gen[1] < modseqctr'
      BY <1>0, <1>1, <2>1
    <2>3. WriteTrue(op[s])'
      <3>1. \A t \in Sessions : cache'[t].modseq < op'[s].counter
        BY <1>0, <1>1, <2>1 DEF Remembered, Caches
      <3>2. QED
        BY <2>1, <3>1 DEF WriteTrue
    <2>4. OpenTrue(op[s])'
      BY <2>1 DEF OpenTrue
    <2>5. Ordered'
      BY <1>0, <1>1, <2>1 DEF Ordered
    <2>6. \A u \in Positive : Going(op[s], u) => Going(op'[s], u)
      BY <2>1 DEF Going, Removing
    <2>7. \A t \in Sessions : Remembered(t)'
      BY <1>0, <1>1, <2>1, <2>2, <2>6, RememberFrame
    <2>8. QED
      BY <1>0, <2>1, <2>2, <2>3, <2>4, <2>5, <2>7, FaithStep
  <1>11. CASE VanishedRecord(s)
    <2>1. /\ o.pc = "record" /\ op'[s] = Idle /\ vanished' = vanished \union {<<u, o.counter>> : u \in o.gone}
          /\ UNCHANGED <<eml, flags, uid, modseq, modseqctr, index, used>>
          /\ \A t \in Sessions : cache'[t].uids \subseteq cache[t].uids /\ cache'[t].modseq = cache[t].modseq
      <3>1. \A t \in Sessions : cache'[t].uids \subseteq cache[t].uids /\ cache'[t].modseq = cache[t].modseq
        <4>1. CASE o.why = "destroy"
          BY <1>11, <4>1 DEF VanishedRecord
        <4>2. CASE o.why # "destroy"
          <5>1. \E ns : cache' = [cache EXCEPT ![s].uids = @ \ ns]
            BY <1>11, <4>2 DEF VanishedRecord
          <5>2. QED
            BY <1>0, <5>1 DEF Caches
        <4>3. QED
          BY <4>1, <4>2
      <3>2. QED
        BY <1>0, <1>11, <3>1 DEF VanishedRecord, LogLines, At, Done, Step, history
    <2>2. op'[s].pc = "idle"
      BY <2>1 DEF Idle
    <2>3. OpenTrue(op[s])' /\ WriteTrue(op[s])'
      BY <2>2 DEF OpenTrue, WriteTrue
    <2>4. Ordered'
      BY <1>1, <2>1 DEF Ordered
    <2>5. \A u \in Positive : Going(op[s], u) => \A t \in Sessions : u \in Since(cache[t].modseq)'
      <3>1. SUFFICES ASSUME NEW u \in Positive, Going(op[s], u), NEW t \in Sessions
                     PROVE  u \in Since(cache[t].modseq)'
        OBVIOUS
      <3>2. u \in o.gone
        BY <2>1, <3>1 DEF Going
      <3>3. <<u, o.counter>> \in vanished' /\ o.counter > cache'[t].modseq
        BY <1>0, <1>1, <2>1, <3>2 DEF WriteTrue, Caches
      <3>4. QED
        BY <3>3 DEF Since
    <2>6. \A t \in Sessions : Remembered(t)'
      BY <1>0, <1>1, <2>1, <2>5, RememberFrame
    <2>7. index.gen[1] = modseqctr => Honest' /\ Whole'
      BY <1>1, <2>1 DEF Honest, Whole, Matches, Rewriting, Removing, Scanning
    <2>8. QED
      BY <1>1, <2>1, <2>3, <2>4, <2>6, <2>7, FaithStep
  <1>12. ~ArchiveFails(s)
    BY DEF ArchiveFails, InTurn, Spared
  <1>13. QED
    BY <1>6, <1>7, <1>8, <1>9, <1>10, <1>11, <1>12 DEF Removal

\* STORE: the flags, the counter, the mod-sequence.
LEMMA StoreFaith ==
  ASSUME TypeInv, FaithInv, Undisturbed, NEW s \in Sessions, Alone(s),
         \/ \E m \in Messages, mode \in Modes, given \in SUBSET Flags, since \in {0, cache[s].modseq} :
               Store(s, m, mode, given, since)
         \/ StoreBump(s) \/ StoreStamp(s)
  PROVE  FaithInv'
  <1> DEFINE o == op[s]
  <1>0. /\ o \in Ops /\ op \in [Sessions -> Ops] /\ modseqctr \in Nat
        /\ uid \in [Messages -> Nat] /\ modseq \in [Messages -> Nat] /\ o.counter \in Nat
        /\ index.gen[1] \in Nat
    BY DEF TypeInv, DiskTypes, SessionTypes, Ops
  <1>1. WriteTrue(o) /\ Ordered /\ (\A t \in Sessions : Remembered(t)) /\ index.gen[1] <= modseqctr
    BY FaithNow
  <1>2. ASSUME UNCHANGED <<eml, uid, vanished, index, cache, used>>, o.pc \in {"idle", "bump", "stamp"},
               modseqctr' \in Nat, modseqctr <= modseqctr',
               op'[s].pc \in Rewriting \/ index.gen[1] < modseqctr',
               op'[s].pc \in {"bump", "stamp", "idle"},
               op'[s].pc = "stamp" => op'[s].counter <= modseqctr' /\ index.gen[1] < modseqctr',
               \A m \in Messages : modseq'[m] <= modseqctr'
        PROVE  FaithInv'
    <2>1. OpenTrue(op[s])' /\ WriteTrue(op[s])'
      BY <1>2 DEF OpenTrue, WriteTrue
    <2>2. Ordered'
      BY <1>1, <1>2 DEF Ordered
    <2>3. \A u \in Positive : ~Going(op[s], u)
      BY <1>2 DEF Going, Removing
    <2>4. \A t \in Sessions : Remembered(t)'
      BY <1>0, <1>1, <1>2, <2>3, RememberFrame
    <2>5. index'.gen[1] <= modseqctr'
      BY <1>0, <1>1, <1>2
    <2>6. op'[s].pc \in Rewriting \/ index'.gen[1] # modseqctr'
      BY <1>0, <1>2
    <2>7. QED
      BY <2>1, <2>2, <2>4, <2>5, <2>6, FaithStep
  <1>3. ASSUME NEW m \in Messages, NEW mode \in Modes, NEW given \in SUBSET Flags,
               NEW since \in {0, cache[s].modseq}, Store(s, m, mode, given, since)
        PROVE  FaithInv'
    <2>1. /\ o.pc = "idle" /\ op'[s].pc = "bump"
          /\ UNCHANGED <<eml, uid, modseq, modseqctr, vanished, index, cache, used>>
      BY <1>0, <1>3 DEF Store, Begin, Step, Idle, history
    <2>2. QED
      BY <1>0, <1>1, <1>2, <2>1 DEF Rewriting, Ordered
  <1>4. CASE StoreBump(s)
    <2>1. /\ o.pc = "bump" /\ op'[s].pc = "stamp" /\ op'[s].counter = modseqctr + 1
          /\ modseqctr' = modseqctr + 1
          /\ UNCHANGED <<eml, uid, modseq, vanished, index, cache, used>>
      BY <1>0, <1>4 DEF StoreBump, At, Step, Ops, history
    <2>2. modseqctr' \in Nat /\ modseqctr <= modseqctr' /\ index.gen[1] < modseqctr'
      BY <1>0, <1>1, <2>1
    <2>3. \A m \in Messages : modseq'[m] <= modseqctr'
      BY <1>0, <1>1, <2>1 DEF Ordered
    <2>4. QED
      BY <1>2, <2>1, <2>2, <2>3
  <1>5. CASE StoreStamp(s)
    <2>1. /\ o.pc = "stamp" /\ op'[s].pc = "idle" /\ modseq' = [modseq EXCEPT ![o.new] = o.counter]
          /\ UNCHANGED <<eml, uid, modseqctr, vanished, index, cache, used>>
      BY <1>0, <1>5 DEF StoreStamp, At, Done, Step, Idle, history
    <2>2. o.counter <= modseqctr /\ index.gen[1] < modseqctr
      BY <1>1, <2>1 DEF WriteTrue
    <2>3. \A m \in Messages : modseq'[m] <= modseqctr'
      BY <1>0, <1>1, <2>1, <2>2 DEF Ordered
    <2>4. QED
      BY <1>0, <1>2, <2>1, <2>2, <2>3
  <1>6. QED
    BY <1>3, <1>4, <1>5

\* SELECT tells its client the truth, and that is what it remembers.
LEMMA SelectFaith ==
  ASSUME TypeInv, FaithInv, Undisturbed, NEW s \in Sessions, Alone(s), SelectDone(s)
  PROVE  FaithInv'
  <1> DEFINE o == op[s]
             f == o.snap.messages
  <1>0. /\ o \in Ops /\ op \in [Sessions -> Ops] /\ modseqctr \in Nat /\ f \in RefMaps
        /\ cache \in [Sessions -> Caches] /\ eml \subseteq Messages
    BY DEF TypeInv, DiskTypes, SessionTypes, Ops, Snapshots
  <1>1. /\ OpenTrue(o) /\ Ordered /\ \A t \in Sessions : Remembered(t) /\ index.gen[1] <= modseqctr
        /\ index.gen[1] = modseqctr /\ o.pc \notin Rewriting => Honest
        /\ index.gen[1] = modseqctr /\ o.pc \notin Rewriting \union Scanning => Whole
    BY FaithNow
  <1>2. /\ o.pc = "opened" /\ op'[s].pc = "idle"
        /\ UNCHANGED <<eml, flags, uid, modseq, modseqctr, vanished, index, used>>
        /\ cache'[s].uids = Uids(f) /\ cache'[s].modseq = o.snap.highest
    BY <1>0 DEF SelectDone, At, Done, Step, Idle, disk
  <1>3. OpenTrue(op[s])' /\ WriteTrue(op[s])' /\ Ordered'
    BY <1>1, <1>2 DEF OpenTrue, WriteTrue, Ordered
  <1>4. index.gen[1] = modseqctr => Honest' /\ Whole'
    BY <1>1, <1>2 DEF Honest, Whole, Matches, Rewriting, Removing, Scanning
  <1>5. Remembered(s)'
    <2>1. o.snap.highest <= modseqctr /\ DOMAIN f \subseteq eml /\ Matches(f)
      BY <1>1, <1>2 DEF OpenTrue, Covered
    <2>2. \A u \in Uids(f) : \E m \in eml : uid[m] = u
      BY <2>1 DEF Uids, Matches
    <2>3. QED
      BY <1>2, <2>1, <2>2 DEF Remembered
  <1>6. ASSUME NEW t \in Sessions, t # s
        PROVE  Remembered(t)'
    <2>1. \A r \in Sessions : \A u : ~Going(op[r], u)
      BY <1>2 DEF Alone, Going, Removing
    <2>2. cache'[t] = cache[t]
      BY <1>6 DEF Alone
    <2>3. QED
      BY <1>1, <1>2, <2>1, <2>2 DEF Remembered, Since
  <1>7. \A t \in Sessions : Remembered(t)'
    BY <1>5, <1>6
  <1>8. QED
    BY <1>1, <1>2, <1>3, <1>4, <1>7, FaithStep

LEMMA CommandFaith ==
  ASSUME TypeInv, TypeInv', FreshInv, FaithInv, Undisturbed, NEW s \in Sessions, Alone(s), Command(s)
  PROVE  FaithInv'
  <1> DEFINE o == op[s]
  <1>0. /\ o \in Ops /\ op \in [Sessions -> Ops] /\ eml \subseteq Messages /\ DOMAIN index.messages \subseteq used
        /\ eml' \subseteq Messages /\ flags \in [Messages -> SUBSET Flags]
    BY DEF TypeInv, DiskTypes, SessionTypes, FreshInv
  <1>f. Framed(s) /\ Carried(s)
    BY CommandFrame, CommandCarries
  <1>i. Idle.pc = "idle"
    BY DEF Idle
  <1>d. Done(s) => op'[s].pc = "idle"
    BY <1>0, <1>i DEF Done, Step
  <1>1. ASSUME UNCHANGED <<flags, modseq, modseqctr, cache>>,
               o.pc \in {"idle", "opened", "literal"}, op'[s].pc \in {"idle", "open", "literal", "remove", "flags"},
               op'[s].pc = "flags" => op'[s].new \notin used
        PROVE  FaithInv'
    <2>1. OpenTrue(op[s])' /\ WriteTrue(op[s])'
      BY <1>0, <1>1, <1>f DEF OpenTrue, WriteTrue, Framed
    <2>2. o.pc \notin Rewriting \union Scanning \union {"record"}
      BY <1>1 DEF Rewriting, Removing, Scanning
    <2>3. /\ UNCHANGED <<uid, vanished, index>> /\ used \subseteq used' /\ eml \subseteq eml'
          /\ eml' \intersect used \subseteq eml
      BY <1>f DEF Framed, Carried
    <2>4. QED
      BY <1>0, <1>1, <2>1, <2>2, <2>3, FaithCalm
  <1>2. CASE Select(s) \/ CheckIdle(s)
    <2>1. Start(s, "select") \/ Start(s, "idle")
      BY <1>2 DEF Select, CheckIdle
    <2>2. op'[s].pc = "open"
      BY <1>0, <2>1 DEF Start, Step, Idle
    <2>3. QED
      BY <1>1, <1>2, <2>2 DEF Select, CheckIdle, Begin, disk
  <1>3. CASE SelectDone(s)
    BY <1>3, SelectFaith
  <1>4. CASE CheckIdleDone(s) \/ Close(s)
    BY <1>1, <1>4, <1>d DEF CheckIdleDone, Close, At, disk
  <1>5. CASE \/ \E m \in Messages, mode \in Modes, given \in SUBSET Flags, since \in {0, cache[s].modseq} :
                   Store(s, m, mode, given, since)
             \/ StoreBump(s) \/ StoreStamp(s)
    BY <1>5, StoreFaith
  <1>6. ASSUME NEW ids \in SUBSET Messages, Expunge(s, ids)
        PROVE  FaithInv'
    <2>1. op'[s].pc = "remove" /\ o.pc = "idle" /\ UNCHANGED <<flags, modseq, modseqctr, cache>>
      BY <1>0, <1>6 DEF Expunge, Begin, Step, Idle, disk
    <2>2. QED
      BY <1>1, <2>1
  <1>7. ASSUME NEW m \in Messages, Destroy(s, m)
        PROVE  FaithInv'
    <2>1. op'[s].pc = "open" /\ o.pc = "idle" /\ UNCHANGED <<flags, modseq, modseqctr, cache>>
      BY <1>0, <1>7 DEF Destroy, Begin, Step, Idle, disk
    <2>2. QED
      BY <1>1, <2>1
  <1>8. CASE DestroyFound(s) \/ ReplaceExpunge(s)
    <2>1. /\ o.pc = "opened" /\ UNCHANGED <<flags, modseq, modseqctr, cache>>
          /\ Done(s) \/ \E ids : Step(s, [o EXCEPT !.pc = "remove", !.ids = ids])
      BY <1>8 DEF DestroyFound, ReplaceExpunge, At, disk
    <2>2. op'[s].pc \in {"remove", "idle"}
      <3>1. CASE \E ids : Step(s, [o EXCEPT !.pc = "remove", !.ids = ids])
        BY <1>0, <3>1 DEF Step, Ops
      <3>2. QED
        BY <1>d, <2>1, <3>1
    <2>3. QED
      BY <1>1, <2>1, <2>2
  <1>9. ASSUME NEW given \in SUBSET Flags, AppendBegin(s, given)
        PROVE  FaithInv'
    <2>1. op'[s].pc = "literal" /\ o.pc = "idle" /\ UNCHANGED <<flags, modseq, modseqctr, cache>>
      BY <1>0, <1>9 DEF AppendBegin, Begin, Step, Idle, disk
    <2>2. QED
      BY <1>1, <2>1
  <1>10. ASSUME NEW m \in Messages, NEW given \in SUBSET Flags, ReplaceBegin(s, m, given)
         PROVE  FaithInv'
    <2>1. op'[s].pc = "literal" /\ o.pc = "idle" /\ UNCHANGED <<flags, modseq, modseqctr, cache>>
      BY <1>0, <1>10 DEF ReplaceBegin, Begin, Step, Idle, disk
    <2>2. QED
      BY <1>1, <2>1
  <1>11. ASSUME NEW m \in Messages, LiteralDone(s, m)
         PROVE  FaithInv'
    <2>1. /\ op'[s].pc \in {"open", "flags"} /\ op'[s].new = m /\ o.pc = "literal"
          /\ UNCHANGED <<flags, modseq, modseqctr, cache>>
      BY <1>0, <1>11 DEF LiteralDone, At, Step, Ops
    <2>2. m \notin used
      BY <1>11, NewestNew DEF LiteralDone
    <2>3. QED
      BY <1>1, <2>1, <2>2
  \* The index has not heard of the message yet.
  <1>12. CASE AppendFlags(s)
    <2>1. /\ op'[s].pc = "open" /\ o.pc = "flags" /\ flags' = [flags EXCEPT ![o.new] = o.flags]
          /\ UNCHANGED <<eml, modseq, modseqctr, cache, used>>
      BY <1>0, <1>12 DEF AppendFlags, At, Step, Ops, history
    <2>2. UNCHANGED <<uid, vanished, index>>
      BY <1>f DEF Framed
    <2>3. /\ WriteTrue(o) /\ Ordered /\ \A t \in Sessions : Remembered(t) /\ index.gen[1] <= modseqctr
          /\ index.gen[1] = modseqctr /\ o.pc \notin Rewriting => Honest
          /\ index.gen[1] = modseqctr /\ o.pc \notin Rewriting \union Scanning => Whole
      BY FaithNow
    <2>4. \A k \in DOMAIN index.messages : flags'[k] = flags[k]
      <3>1. DOMAIN index.messages \subseteq Messages
        BY <1>0 DEF TypeInv, DiskTypes
      <3>2. o.new \notin DOMAIN index.messages
        BY <2>1, <2>3 DEF WriteTrue
      <3>3. QED
        BY <1>0, <2>1, <3>1, <3>2
    <2>5. index.gen[1] = modseqctr => Honest' /\ Whole'
      BY <2>1, <2>2, <2>3, <2>4 DEF Honest, Whole, Matches, Rewriting, Removing, Scanning
    <2>6. OpenTrue(op[s])' /\ WriteTrue(op[s])' /\ Ordered'
      BY <2>1, <2>2, <2>3 DEF OpenTrue, WriteTrue, Ordered
    <2>7. \A u \in Positive : ~Going(op[s], u)
      BY <2>1 DEF Going, Removing
    <2>8. \A t \in Sessions : Remembered(t)'
      <3>1. modseqctr \in Nat
        BY DEF TypeInv, DiskTypes
      <3>2. QED
        BY <2>1, <2>2, <2>3, <2>7, <3>1, RememberFrame
    <2>9. QED
      BY <2>1, <2>2, <2>3, <2>5, <2>6, <2>8, FaithStep
  <1>13. CASE AppendUid(s)
    <2>1. /\ o.pc = "opened" /\ UNCHANGED <<flags, modseq, modseqctr, cache>>
          /\ Done(s) \/ Step(s, [o EXCEPT !.pc = "open", !.why = "source"])
      BY <1>13 DEF AppendUid, At, disk
    <2>2. op'[s].pc \in {"open", "idle"}
      <3>1. CASE Step(s, [o EXCEPT !.pc = "open", !.why = "source"])
        BY <1>0, <3>1 DEF Step, Ops
      <3>2. QED
        BY <1>d, <2>1, <3>1
    <2>3. QED
      BY <1>1, <2>1, <2>2
  <1>14. QED
    BY <1>2, <1>3, <1>4, <1>5, <1>6, <1>7, <1>8, <1>9, <1>10, <1>11, <1>12, <1>13 DEF Command

LEMMA OthersFaith ==
  ASSUME TypeInv, TypeInv', FreshInv, TurnsInv, FaithInv, Others, Undisturbed'
  PROVE  FaithInv'
  <1>0. /\ modseqctr \in Nat /\ eml' \in SUBSET Messages /\ eml \in SUBSET Messages
        /\ op \in [Sessions -> Ops] /\ flags \in [Messages -> SUBSET Flags]
        /\ DOMAIN index.messages \subseteq used /\ DOMAIN index.messages \subseteq Messages
    BY DEF TypeInv, DiskTypes, SessionTypes, FreshInv
  \* Nothing changes on disk but for messages that arrive.
  <1>1. ASSUME disturbed \subseteq disturbed', used \subseteq used', eml \subseteq eml',
               eml' \intersect used \subseteq eml,
               UNCHANGED <<op, cache, flags, uid, modseq, modseqctr, vanished, index>>,
               \A p \in filing' : p \in filing \/ p[1] \notin used
        PROVE  FaithInv'
    <2>1. /\ IndexTrue /\ Ordered
          /\ \A t \in Sessions : OpenTrue(op[t]) /\ WriteTrue(op[t]) /\ Remembered(t)
      BY <1>1 DEF FaithInv, Undisturbed, Spared
    <2>2. \A m \in eml' : uid[m] > 0 => m \in eml
      BY <1>0, <1>1, <2>1 DEF Ordered
    <2>3. ASSUME NEW t \in Sessions
          PROVE  OpenTrue(op[t])'
      <3>1. op[t].pc = "load" => op[t].gen[2] <= Cardinality(eml')
        <4>1. IsFiniteSet(eml') /\ Cardinality(eml) \in Nat /\ Cardinality(eml') \in Nat
          BY <1>0, FiniteMessages
        <4>2. Cardinality(eml) <= Cardinality(eml')
          BY <1>1, <4>1, FS_Subset
        <4>3. op[t].gen[2] \in Nat
          BY <1>0 DEF Ops
        <4>4. QED
          BY <2>1, <4>1, <4>2, <4>3 DEF OpenTrue
      <3>2. QED
        BY <1>1, <2>1, <2>2, <3>1 DEF OpenTrue, Matches
    <2>4. \A t \in Sessions : WriteTrue(op[t])' /\ Remembered(t)'
      BY <1>1, <2>1 DEF WriteTrue, Remembered, Since
    <2>5. IndexTrue'
      BY <1>0, <1>1, <2>1, <2>2 DEF IndexTrue, Quiet, Honest, Whole, Matches
    <2>6. Ordered'
      BY <1>1, <2>1 DEF Ordered
    <2>7. QED
      BY <2>3, <2>4, <2>5, <2>6 DEF FaithInv
  <1>2. ASSUME NEW m \in Messages, NEW given \in SUBSET Flags, Deliver(m, given)
        PROVE  FaithInv'
    <2>1. /\ m \notin used /\ eml' = eml \union {m} /\ used' = used \union {m}
          /\ filing' \subseteq filing \union {<<m, given>>} /\ disturbed \subseteq disturbed'
          /\ UNCHANGED <<op, cache, flags, uid, modseq, modseqctr, vanished, index>>
      BY <1>2 DEF Deliver
    <2>2. \A p \in filing' : p \in filing \/ p[1] \notin used
      BY <2>1
    <2>3. QED
      BY <1>1, <2>1, <2>2
  \* No handler is at work, and the index has not heard of the message.
  <1>3. ASSUME NEW m \in Messages, NEW given \in SUBSET Flags, WriteFlagSidecar(m, given)
        PROVE  FaithInv'
    <2>1. /\ <<m, given>> \in filing /\ flags' = [flags EXCEPT ![m] = given] /\ filing' \subseteq filing
          /\ UNCHANGED <<op, cache, eml, uid, modseq, modseqctr, vanished, index, used, disturbed>>
      BY <1>3 DEF WriteFlagSidecar, history
    <2>2. /\ IndexTrue /\ Ordered
          /\ \A t \in Sessions : OpenTrue(op[t]) /\ WriteTrue(op[t]) /\ Remembered(t)
      BY <2>1 DEF FaithInv, Undisturbed, Spared
    <2>3. \A t \in Sessions : op[t].pc \in {"idle", "literal"}
      <3>1. InTurn
        BY <2>1 DEF Undisturbed, InTurn, Spared
      <3>2. QED
        BY <2>1, <3>1 DEF TurnsInv, Turns, Busy
    <2>4. \A t \in Sessions : OpenTrue(op[t])' /\ WriteTrue(op[t])'
      BY <2>1, <2>3 DEF OpenTrue, WriteTrue
    <2>5. \A t \in Sessions : Remembered(t)'
      BY <2>1, <2>2 DEF Remembered, Since
    <2>6. m \notin DOMAIN index.messages
      BY <2>1, <2>2 DEF IndexTrue
    <2>7. \A k \in DOMAIN index.messages : flags'[k] = flags[k]
      BY <1>0, <2>1, <2>6
    <2>8. IndexTrue' /\ Ordered'
      BY <2>1, <2>2, <2>7 DEF IndexTrue, Ordered, Quiet, Honest, Whole, Matches
    <2>9. QED
      BY <2>4, <2>5, <2>8 DEF FaithInv
  <1>4. ASSUME NEW m \in Messages, Pop3Remove(m)
        PROVE  FaithInv'
    BY <1>4 DEF Pop3Remove, Undisturbed, Spared
  <1>5. ASSUME NEW m \in Messages, NEW copy \in Messages, RestoreAppend(m, copy)
        PROVE  FaithInv'
    BY <1>1, <1>5, NewestNew DEF RestoreAppend
  <1>6. CASE RestoreRemove \/ SweepRead \/ SweepRemove \/ Tick
    BY <1>1, <1>6 DEF RestoreRemove, SweepRead, SweepRemove, Tick, disk, history
  <1>7. CASE Crash
    BY <1>7 DEF Crash, Undisturbed, Spared
  <1>8. QED
    BY <1>2, <1>3, <1>4, <1>5, <1>6, <1>7 DEF Others

----------------------------------------------------------------------------
(* The promises.                                                           *)

SerialInv == TypeInv /\ FreshInv /\ TurnsInv /\ UidInv /\ FaithInv

LEMMA SerialNext ==
  ASSUME SerialInv, [Next]_vars
  PROVE  SerialInv'
  <1>1. TypeInv /\ TypeInv' /\ FreshInv /\ TurnsInv /\ UidInv /\ FaithInv
    BY NextTypes DEF SerialInv
  <1>2. CASE UNCHANGED vars
    <2>1. FreshInv'
      BY <1>1, <1>2 DEF FreshInv, KnownOp, RecentOp, RecentSnap, vars, disk, others, history
    <2>2. TurnsInv'
      BY <1>1, <1>2 DEF TurnsInv, Turns, Busy, InTurn, Spared, vars, others
    <2>3. UidInv'
      BY <1>1, <1>2 DEF UidInv, InTurn, Spared, Counting, Current, OneUid, OneMessage, Named, Gone, Below,
                        vars, disk, history
    <2>4. FaithInv'
      BY <1>1, <1>2 DEF FaithInv, Undisturbed, Spared, OpenTrue, WriteTrue, Remembered, IndexTrue, Ordered,
                        Quiet, Honest, Whole, Matches, Since, vars, disk, others, history
    <2>5. QED
      BY <1>1, <2>1, <2>2, <2>3, <2>4 DEF SerialInv
  <1>3. CASE Others
    <2>1. FreshInv' /\ TurnsInv' /\ UidInv'
      BY <1>1, <1>3, OthersFresh, OthersTurns, OthersUids
    <2>2. FaithInv'
      BY <1>1, <1>3, OthersFaith DEF FaithInv
    <2>3. QED
      BY <1>1, <2>1, <2>2 DEF SerialInv
  <1>4. ASSUME NEW s \in Sessions, Open(s) \/ Removal(s) \/ Command(s)
        PROVE  SerialInv'
    <2>1. FreshInv'
      BY <1>1, <1>4, OpenFresh, RemovalFresh, CommandFresh
    <2>2. CASE ~InTurn'
      <3>1. TurnsInv' /\ UidInv'
        BY <2>2 DEF TurnsInv, UidInv
      <3>2. FaithInv'
        BY <2>2 DEF FaithInv, Undisturbed, InTurn, Spared
      <3>3. QED
        BY <1>1, <2>1, <3>1, <3>2 DEF SerialInv
    <2>3. CASE InTurn'
      <3>1. Alone(s)
        BY <1>1, <1>4, <2>3, StepAlone
      <3>2. TurnsInv'
        BY <3>1, AloneTurns DEF TurnsInv
      <3>3. UidInv'
        BY <1>1, <1>4, <2>3, OpenUids, RemovalUids, CommandUids
      <3>4. FaithInv'
        <4>1. CASE ~Undisturbed'
          BY <4>1 DEF FaithInv
        <4>2. CASE Undisturbed'
          <5>1. Undisturbed
            BY <3>1, <4>2 DEF Alone, Undisturbed, Spared
          <5>2. QED
            BY <1>1, <1>4, <2>3, <3>1, <5>1, OpenFaith, RemovalFaith, CommandFaith
        <4>3. QED
          BY <4>1, <4>2
      <3>5. QED
        BY <1>1, <2>1, <3>2, <3>3, <3>4 DEF SerialInv
    <2>4. QED
      BY <2>2, <2>3
  <1>5. QED
    BY <1>2, <1>3, <1>4 DEF Next

\* The invariant says what a client is promised.
LEMMA SerialKeeps ==
  ASSUME SerialInv
  PROVE  FaithfulWhenSerial /\ UidsWhenSerial /\ ResyncWhenSerial
  <1>0. TypeInv /\ TurnsInv /\ UidInv /\ FaithInv /\ issued \subseteq Positive \X Messages
    BY DEF SerialInv, TypeInv, OtherTypes, Positive
  <1>1. UidsWhenSerial
    <2>1. SUFFICES ASSUME InTurn, NEW a \in issued, NEW b \in issued
                   PROVE  (a[1] = b[1]) <=> (a[2] = b[2])
      BY DEF UidsWhenSerial, UidsNeverReused, InTurn
    <2>2. /\ a[1] \in Positive /\ a[2] \in Messages /\ a = <<a[1], a[2]>>
          /\ b[1] \in Positive /\ b[2] \in Messages /\ b = <<b[1], b[2]>>
      BY <1>0
    <2>3. Named(a[1], a[2]) /\ Named(b[1], b[2])
      BY <2>2 DEF Named
    <2>4. OneUid /\ OneMessage
      BY <1>0, <2>1 DEF UidInv
    <2>5. QED
      BY <2>2, <2>3, <2>4 DEF OneUid, OneMessage
  <1>2. ASSUME Undisturbed, NEW s \in Sessions, At(s, "opened")
        PROVE  LET f == op[s].snap.messages IN
               /\ DOMAIN f \subseteq eml /\ op[s].gen[2] <= Cardinality(DOMAIN f) /\ Matches(f)
               /\ \A m \in eml : uid[m] > 0 => m \in DOMAIN f
    <2>1. OpenTrue(op[s])
      BY <1>0, <1>2 DEF FaithInv
    <2>2. Covered(op[s]) = DOMAIN op[s].snap.messages
      BY <1>2 DEF At, Covered
    <2>3. QED
      BY <1>2, <2>1, <2>2 DEF At, OpenTrue
  <1>3. FaithfulWhenSerial
    <2>1. SUFFICES ASSUME Undisturbed, NEW s \in Sessions, At(s, "opened")
                   PROVE  LET f == op[s].snap.messages IN
                          /\ DOMAIN f \subseteq eml
                          /\ Cardinality(DOMAIN f) >= op[s].gen[2]
                          /\ \A m \in DOMAIN f : /\ f[m].uid = uid[m] /\ f[m].flags = flags[m]
                                                 /\ f[m].modseq = modseq[m]
      BY DEF FaithfulWhenSerial, SnapshotFaithful, Undisturbed
    <2>2. op[s].gen[2] \in Nat /\ DOMAIN op[s].snap.messages \in SUBSET Messages
      BY <1>0, RefMapFacts DEF TypeInv, SessionTypes, Ops, Snapshots
    <2>3. Cardinality(DOMAIN op[s].snap.messages) \in Nat
      BY <2>2, FiniteMessages
    <2>4. QED
      BY <1>2, <2>1, <2>2, <2>3 DEF Matches
  <1>4. ResyncWhenSerial
    <2>1. SUFFICES ASSUME Undisturbed, NEW s \in Sessions, At(s, "opened"),
                          NEW u \in cache[s].uids, u \notin Uids(op[s].snap.messages)
                   PROVE  u \in Since(cache[s].modseq)
      BY DEF ResyncWhenSerial, ResyncComplete, Undisturbed
    <2>2. u \in Positive
      BY <1>0 DEF TypeInv, SessionTypes, Caches, Positive
    <2>3. ~ \E m \in eml : uid[m] = u
      <3>1. SUFFICES ASSUME NEW m \in eml, uid[m] = u PROVE FALSE
        OBVIOUS
      <3>2. uid[m] > 0
        BY <2>2, <3>1 DEF Positive
      <3>3. m \in DOMAIN op[s].snap.messages /\ op[s].snap.messages[m].uid = u
        BY <1>2, <2>1, <3>1, <3>2 DEF Matches
      <3>4. QED
        BY <2>1, <3>3 DEF Uids
    <2>4. \A t \in Sessions : ~Going(op[t], u)
      <3>1. Turns
        BY <1>0, <2>1 DEF TurnsInv, InTurn, Undisturbed, Spared
      <3>2. QED
        BY <2>1, <3>1 DEF Turns, Busy, At, Going, Removing
    <2>5. QED
      BY <1>0, <2>1, <2>3, <2>4 DEF FaithInv, Remembered
  <1>5. QED
    BY <1>1, <1>3, <1>4

(***************************************************************************)
(* What the mailbox promises its clients while handlers take turns, for    *)
(* any number of messages and connections: a snapshot just opened is what  *)
(* is on disk, whether it came from the index or from a scan; a UID told   *)
(* to a client names one message for ever; and a client that returns with  *)
(* the mod-sequence it knows learns of every UID that vanished             *)
(* (imap/mailbox.rs, imap/index.rs).                                       *)
(***************************************************************************)
THEOREM MailboxServed == Spec => []MailboxCorrect
  <1>1. Init => SerialInv
    BY InitTypes, InitArchive, InitUids, InitFaith DEF SerialInv
  <1>2. SerialInv /\ [Next]_vars => SerialInv'
    BY SerialNext
  <1>3. SerialInv => MailboxCorrect
    BY TypeInvTypeOK, SerialKeeps DEF MailboxCorrect, SerialInv
  <1>4. QED
    BY <1>1, <1>2, <1>3, PTL DEF Spec
============================================================================

------------------------- MODULE AccountStoreProofs -------------------------
(***************************************************************************)
(* Proofs about AccountStore, for any number of accounts and addresses and *)
(* any restarts: type correctness and the uniqueness of addresses with any *)
(* number of requests at once and with file errors; and, for one request   *)
(* at a time and files that can be written, that the servers see what      *)
(* memory holds, that confirmed passwords stay, and that nothing of a      *)
(* removed account is left.                                                *)
(*                                                                         *)
(* Uniqueness of the published directory is not inductive: a directory is  *)
(* built in one step and published in a later one, so the invariant speaks *)
(* of the directories the requests hold as well, and of the row a PUT read *)
(* before it writes.                                                       *)
(***************************************************************************)
EXTENDS AccountStore, TLAPS

\* What a request handler holds at each of its steps.
Walking == {"replace", "masks", "apps", "supp", "mailbox", "row", "removed"}
Holds(r) ==
    /\ r.pc = "publish" => r.built \in Directory
    /\ r.then # "publish"
    /\ r.pc = "replace" \/ r.then = "replace" => r.was \in Row
    /\ r.pc \in Walking \/ r.then \in Walking => r.name \in Names

RequestsHold == \A p \in Procs : Holds(req[p])

TypeInv == TypeOK /\ RequestsHold

----------------------------------------------------------------------------
(* Updates of one request.                                                 *)

LEMMA IdleRequest == Idle \in Request /\ Holds(Idle)
  BY DEF Idle, Request, Steps, Holds, Walking

LEMMA UpdateRequest ==
  ASSUME TypeInv, NEW p \in Procs, NEW r \in Request, Holds(r), req' = [req EXCEPT ![p] = r]
  PROVE  req' \in [Procs -> Request] /\ RequestsHold'
  <1>1. req \in [Procs -> Request]
    BY DEF TypeInv, TypeOK
  <1>2. \A q \in Procs : req'[q] = IF q = p THEN r ELSE req[q]
    BY <1>1
  <1>3. QED
    BY <1>1, <1>2 DEF TypeInv, RequestsHold

LEMMA EndsRequest ==
  ASSUME TypeInv, NEW p \in Procs, Ends(p)
  PROVE  req' \in [Procs -> Request] /\ RequestsHold'
  BY IdleRequest, UpdateRequest DEF Ends

LEMMA PublishesRequest ==
  ASSUME TypeInv, NEW p \in Procs, NEW n \in Names, NEW promise \in Passwords \cup {NoPassword, Gone},
         NEW next \in Steps \ {"replace", "publish"}, Publishes(p, n, promise, next)
  PROVE  req' \in [Procs -> Request] /\ RequestsHold'
  <1> DEFINE r == [req[p] EXCEPT !.pc = "build", !.then = next, !.name = n, !.promise = promise]
  <1>1. req \in [Procs -> Request] /\ Holds(req[p])
    BY DEF TypeInv, TypeOK, RequestsHold
  <1>2. req' = [req EXCEPT ![p] = r]
    BY <1>1 DEF Publishes
  <1>3. r \in Request
    BY <1>1 DEF Request, Steps
  <1>4. r.pc = "build" /\ r.then = next /\ r.name = n
    BY <1>1 DEF Request
  <1>5. Holds(r)
    BY <1>4 DEF Holds, Walking
  <1>6. QED
    BY <1>2, <1>3, <1>5, UpdateRequest

LEMMA ContinuesRequest ==
  ASSUME TypeInv, NEW p \in Procs, req[p].name \in Names, NEW next \in Steps \ {"replace", "publish"},
         Continues(p, next)
  PROVE  req' \in [Procs -> Request] /\ RequestsHold'
  <1> DEFINE r == [req[p] EXCEPT !.pc = next]
  <1>1. req \in [Procs -> Request] /\ Holds(req[p])
    BY DEF TypeInv, TypeOK, RequestsHold
  <1>2. req' = [req EXCEPT ![p] = r]
    BY <1>1 DEF Continues
  <1>3. r \in Request
    BY <1>1 DEF Request, Steps
  <1>4. r.pc = next /\ r.then = req[p].then /\ r.name = req[p].name /\ r.was = req[p].was
    BY <1>1 DEF Request
  <1>5. Holds(r)
    BY <1>1, <1>4 DEF Holds, Walking
  <1>6. QED
    BY <1>2, <1>3, <1>5, UpdateRequest

----------------------------------------------------------------------------
(* Changes of one table.                                                   *)

LEMMA PersistTyped ==
  ASSUME TypeInv, NEW p \in Procs, NEW n \in Names, NEW promise \in Passwords \cup {NoPassword, Gone},
         NEW next \in Steps \ {"replace", "publish"}, NEW newRows \in Tables(Row),
         Persist(p, newRows, n, promise, next)
  PROVE  /\ rows' \in Tables(Row) /\ disk' \in Tables(Row) /\ faults' \in 0..MaxFaults
         /\ req' \in [Procs -> Request] /\ RequestsHold'
  <1>1. disk \in Tables(Row) /\ faults \in 0..MaxFaults /\ MaxFaults \in Nat
    BY StoreAssumption DEF TypeInv, TypeOK
  <1>2. rows' = newRows
    BY DEF Persist
  <1>3. CASE disk' = newRows /\ Publishes(p, n, promise, next) /\ UNCHANGED faults
    BY <1>1, <1>2, <1>3, PublishesRequest
  <1>4. CASE faults < MaxFaults /\ faults' = faults + 1 /\ Ends(p) /\ UNCHANGED disk
    <2>1. faults' \in 0..MaxFaults
      BY <1>1, <1>4
    <2>2. QED
      BY <1>1, <1>2, <1>4, <2>1, EndsRequest
  <1>5. QED
    BY <1>3, <1>4 DEF Persist

LEMMA PersistMasksTyped ==
  ASSUME TypeInv, NEW p \in Procs, NEW n \in Names, NEW next \in Steps \ {"replace", "publish"},
         NEW newMasks \in [Masks -> Mask \cup {Gone}], PersistMasks(p, newMasks, n, next)
  PROVE  /\ masks' \in [Masks -> Mask \cup {Gone}] /\ masksDisk' \in [Masks -> Mask \cup {Gone}]
         /\ faults' \in 0..MaxFaults
         /\ req' \in [Procs -> Request] /\ RequestsHold'
  <1>1. masksDisk \in [Masks -> Mask \cup {Gone}] /\ faults \in 0..MaxFaults /\ MaxFaults \in Nat
    BY StoreAssumption DEF TypeInv, TypeOK
  <1>2. masks' = newMasks
    BY DEF PersistMasks
  <1>3. CASE masksDisk' = newMasks /\ Publishes(p, n, Gone, next) /\ UNCHANGED faults
    BY <1>1, <1>2, <1>3, PublishesRequest
  <1>4. CASE faults < MaxFaults /\ faults' = faults + 1 /\ Ends(p) /\ UNCHANGED masksDisk
    <2>1. faults' \in 0..MaxFaults
      BY <1>1, <1>4
    <2>2. QED
      BY <1>1, <1>2, <1>4, <2>1, EndsRequest
  <1>5. QED
    BY <1>3, <1>4 DEF PersistMasks

\* A row under a new value keeps the table's type.
LEMMA RowChanged ==
  ASSUME NEW T \in Tables(Row), NEW n \in Names, NEW row \in Row \cup {Gone}
  PROVE  [T EXCEPT ![n] = row] \in Tables(Row)
  BY DEF Tables

LEMMA BuiltTyped ==
  ASSUME TypeOK
  PROVE  BuildDirectory \in Directory
  <1>1. \A m \in Masks : (IF masks[m] # Gone /\ masks[m].on THEN masks[m].owner ELSE Gone) \in Names \cup {Gone}
    BY DEF TypeOK, Mask
  <1>2. rows \in [Names -> Row \cup {Gone}] /\ apps \in [Names -> SUBSET Lives]
    BY DEF TypeOK, Tables
  <1>3. QED
    BY <1>1, <1>2 DEF BuildDirectory, Directory

----------------------------------------------------------------------------
(* Type correctness, action by action.                                     *)

LEMMA RowsTyped ==
  ASSUME TypeInv, NEW p \in Procs, NEW n \in Names
  PROVE  /\ \A pw \in Passwords \cup {NoPassword}, A \in SUBSET Addrs, off \in Flags :
               Add(p, n, pw, A, off) => TypeInv'
         /\ \A pw \in Passwords : SetPasswordHash(p, n, pw) => TypeInv'
         /\ \A off \in Flags : SetDisabled(p, n, off) => TypeInv'
         /\ \A on \in BOOLEAN : SetTotp(p, n, on) => TypeInv'
  <1>0. TypeOK /\ Flags \subseteq BOOLEAN
    BY StoreAssumption DEF TypeInv
  <1>1. ASSUME NEW pw \in Passwords \cup {NoPassword}, NEW A \in SUBSET Addrs, NEW off \in Flags,
               Add(p, n, pw, A, off)
        PROVE  TypeInv'
    <2> DEFINE row == [addrs |-> A, pw |-> pw, totp |-> FALSE, off |-> off, life |-> born[n] + 1]
    <2>1. born[n] + 1 \in Lives /\ born' \in [Names -> Lives]
      BY <1>0, <1>1, StoreAssumption DEF Add, TypeOK, Lives
    <2>2. row \in Row
      BY <1>0, <2>1 DEF Row
    <2>3. [rows EXCEPT ![n] = row] \in Tables(Row)
      BY <1>0, <2>2, RowChanged DEF TypeOK
    <2>4. Persist(p, [rows EXCEPT ![n] = row], n, pw, "idle")
      BY <1>1 DEF Add
    <2>5. /\ rows' \in Tables(Row) /\ disk' \in Tables(Row) /\ faults' \in 0..MaxFaults
          /\ req' \in [Procs -> Request] /\ RequestsHold'
      <3> HIDE DEF row
      <3>1. "idle" \in Steps \ {"replace", "publish"}
        BY DEF Steps
      <3>2. QED
        BY <2>3, <2>4, <3>1, PersistTyped
    <2>6. acked' \in [Names -> Passwords \cup {NoPassword, Gone}]
      BY <1>0, <1>1 DEF Add, TypeOK
    <2>7. QED
      BY <1>0, <1>1, <2>1, <2>4, <2>5, <2>6 DEF Add, Persist, TypeInv, TypeOK, outside
  <1>2. ASSUME NEW pw \in Passwords, SetPasswordHash(p, n, pw)
        PROVE  TypeInv'
    <2>1. [rows[n] EXCEPT !.pw = pw] \in Row
      BY <1>0, <1>2 DEF SetPasswordHash, TypeOK, Tables, Exists, Row
    <2>2. [rows EXCEPT ![n].pw = pw] \in Tables(Row)
      BY <1>0, <2>1, RowChanged DEF TypeOK
    <2>3. Persist(p, [rows EXCEPT ![n].pw = pw], n, pw, "idle")
      BY <1>2 DEF SetPasswordHash
    <2>4. /\ rows' \in Tables(Row) /\ disk' \in Tables(Row) /\ faults' \in 0..MaxFaults
          /\ req' \in [Procs -> Request] /\ RequestsHold'
      <3>1. "idle" \in Steps \ {"replace", "publish"}
        BY DEF Steps
      <3>2. QED
        BY <2>2, <2>3, <3>1, PersistTyped
    <2>5. acked' \in [Names -> Passwords \cup {NoPassword, Gone}]
      BY <1>0, <1>2 DEF SetPasswordHash, TypeOK
    <2>6. QED
      BY <1>0, <1>2, <2>3, <2>4, <2>5 DEF SetPasswordHash, Persist, TypeInv, TypeOK, outside
  <1>3. ASSUME NEW off \in Flags, SetDisabled(p, n, off)
        PROVE  TypeInv'
    <2>1. [rows[n] EXCEPT !.off = off] \in Row
      BY <1>0, <1>3 DEF SetDisabled, TypeOK, Tables, Exists, Row
    <2>2. [rows EXCEPT ![n].off = off] \in Tables(Row)
      BY <1>0, <2>1, RowChanged DEF TypeOK
    <2>3. Persist(p, [rows EXCEPT ![n].off = off], n, Gone, "idle")
      BY <1>3 DEF SetDisabled
    <2>4. /\ rows' \in Tables(Row) /\ disk' \in Tables(Row) /\ faults' \in 0..MaxFaults
          /\ req' \in [Procs -> Request] /\ RequestsHold'
      <3>1. "idle" \in Steps \ {"replace", "publish"}
        BY DEF Steps
      <3>2. QED
        BY <2>2, <2>3, <3>1, PersistTyped
    <2>5. QED
      BY <1>0, <1>3, <2>3, <2>4 DEF SetDisabled, Persist, TypeInv, TypeOK, outside
  <1>4. ASSUME NEW on \in BOOLEAN, SetTotp(p, n, on)
        PROVE  TypeInv'
    <2>1. [rows[n] EXCEPT !.totp = on] \in Row
      BY <1>0, <1>4 DEF SetTotp, TypeOK, Tables, Exists, Row
    <2>2. rows' \in Tables(Row)
      BY <1>0, <1>4, <2>1, RowChanged DEF SetTotp, TypeOK
    <2>3. disk' \in Tables(Row) /\ faults' \in 0..MaxFaults
      <3>1. disk \in Tables(Row) /\ faults \in 0..MaxFaults /\ MaxFaults \in Nat
        BY <1>0, StoreAssumption DEF TypeOK
      <3>2. disk' \in Tables(Row)
        BY <1>4, <2>2, <3>1 DEF SetTotp
      <3>3. UNCHANGED faults \/ (faults < MaxFaults /\ faults' = faults + 1)
        BY <1>4 DEF SetTotp
      <3>4. faults' \in 0..MaxFaults
        BY <3>1, <3>3
      <3>5. QED
        BY <3>2, <3>4
    <2>4. RequestsHold'
      BY <1>4 DEF SetTotp, TypeInv, RequestsHold
    <2>5. QED
      BY <1>0, <1>4, <2>2, <2>3, <2>4 DEF SetTotp, TypeInv, TypeOK, outside
  <1>5. QED
    BY <1>1, <1>2, <1>3, <1>4

LEMMA PutTyped ==
  ASSUME TypeInv, NEW p \in Procs
  PROVE  /\ \A n \in Names : PutUser(p, n) => TypeInv'
         /\ \A n \in Names, pw \in PutPasswords : PutPassword(p, n, pw) => TypeInv'
         /\ \A A \in (SUBSET Addrs) \ {{}}, off \in Flags : ReplaceAccount(p, A, off) => TypeInv'
  <1>0. TypeOK /\ Holds(req[p]) /\ req[p] \in Request /\ req \in [Procs -> Request]
    BY DEF TypeInv, TypeOK, RequestsHold
  <1>1. ASSUME NEW n \in Names, PutUser(p, n)
        PROVE  TypeInv'
    <2> DEFINE r == [req[p] EXCEPT !.pc = "replace", !.name = n, !.was = rows[n]]
    <2>1. rows[n] \in Row
      BY <1>0, <1>1 DEF PutUser, TypeOK, Tables, Exists
    <2>2. r \in Request
      BY <1>0, <2>1 DEF Request, Steps
    <2>3. r.pc = "replace" /\ r.then = req[p].then /\ r.name = n /\ r.was = rows[n]
      BY <1>0 DEF Request
    <2>4. Holds(r)
      BY <1>0, <2>1, <2>3 DEF Holds
    <2>5. req' = [req EXCEPT ![p] = r]
      BY <1>0, <1>1 DEF PutUser
    <2>6. req' \in [Procs -> Request] /\ RequestsHold'
      <3> HIDE DEF r
      <3>1. QED
        BY <2>2, <2>4, <2>5, UpdateRequest
    <2>7. QED
      BY <1>0, <1>1, <2>6 DEF PutUser, TypeInv, TypeOK, stored, outside, counters
  <1>2. ASSUME NEW n \in Names, NEW pw \in PutPasswords, PutPassword(p, n, pw)
        PROVE  TypeInv'
    <2> DEFINE r == [req[p] EXCEPT !.pc = "build", !.then = "replace", !.name = n, !.promise = pw,
                                   !.was = rows[n]]
    <2>0. pw \in Passwords
      BY StoreAssumption
    <2>1. rows[n] \in Row /\ [rows[n] EXCEPT !.pw = pw] \in Row
      BY <1>0, <1>2, <2>0 DEF PutPassword, TypeOK, Tables, Exists, Row
    <2>2. rows' \in Tables(Row)
      BY <1>0, <1>2, <2>1, RowChanged DEF PutPassword, TypeOK
    <2>3. acked' \in [Names -> Passwords \cup {NoPassword, Gone}]
      BY <1>0, <1>2 DEF PutPassword, TypeOK
    <2>4. /\ disk' \in Tables(Row) /\ faults' \in 0..MaxFaults
          /\ req' \in [Procs -> Request] /\ RequestsHold'
      <3>0. disk \in Tables(Row) /\ faults \in 0..MaxFaults /\ MaxFaults \in Nat
        BY <1>0, StoreAssumption DEF TypeOK
      <3>1. CASE disk' = rows' /\ UNCHANGED faults /\ req' = [req EXCEPT ![p] = r]
        <4>1. r \in Request
          BY <1>0, <2>0, <2>1 DEF Request, Steps
        <4>2. r.pc = "build" /\ r.then = "replace" /\ r.name = n /\ r.was = rows[n]
          BY <1>0 DEF Request
        <4>3. Holds(r)
          BY <2>1, <4>2 DEF Holds, Walking
        <4>4. req' \in [Procs -> Request] /\ RequestsHold'
          <5> HIDE DEF r
          <5>1. QED
            BY <3>1, <4>1, <4>3, UpdateRequest
        <4>5. QED
          BY <2>2, <3>0, <3>1, <4>4
      <3>2. CASE faults < MaxFaults /\ faults' = faults + 1 /\ Ends(p) /\ UNCHANGED disk
        <4>1. faults' \in 0..MaxFaults
          BY <3>0, <3>2
        <4>2. QED
          BY <3>0, <3>2, <4>1, EndsRequest
      <3>3. QED
        BY <1>2, <3>1, <3>2 DEF PutPassword
    <2>5. QED
      BY <1>0, <1>2, <2>2, <2>3, <2>4 DEF PutPassword, TypeInv, TypeOK, outside
  <1>3. ASSUME NEW A \in (SUBSET Addrs) \ {{}}, NEW off \in Flags, ReplaceAccount(p, A, off)
        PROVE  TypeInv'
    <2> DEFINE n == req[p].name
               row == [req[p].was EXCEPT !.addrs = A, !.off = off]
    <2>0. Flags \subseteq BOOLEAN
      BY StoreAssumption
    <2>1. n \in Names /\ req[p].was \in Row /\ req[p].promise \in Passwords \cup {NoPassword, Gone}
      BY <1>0, <1>3 DEF ReplaceAccount, Holds, Walking, Request
    <2>2. row \in Row
      BY <2>0, <2>1 DEF Row
    <2>3. [rows EXCEPT ![n] = row] \in Tables(Row)
      BY <1>0, <2>1, <2>2, RowChanged DEF TypeOK
    <2>4. CASE Persist(p, [rows EXCEPT ![n] = row], n, req[p].promise, "idle")
      <3>1. /\ rows' \in Tables(Row) /\ disk' \in Tables(Row) /\ faults' \in 0..MaxFaults
            /\ req' \in [Procs -> Request] /\ RequestsHold'
        <4>1. "idle" \in Steps \ {"replace", "publish"}
          BY DEF Steps
        <4> HIDE DEF n, row
        <4>2. QED
          BY <2>1, <2>3, <2>4, <4>1, PersistTyped
      <3>2. QED
        BY <1>0, <1>3, <2>4, <3>1 DEF ReplaceAccount, Persist, TypeInv, TypeOK, outside
    <2>5. CASE Ends(p) /\ UNCHANGED <<stored, view, faults, crashes>>
      <3>1. req' \in [Procs -> Request] /\ RequestsHold'
        BY <2>5, EndsRequest
      <3>2. QED
        BY <1>0, <1>3, <2>5, <3>1 DEF ReplaceAccount, TypeInv, TypeOK, stored, outside
    <2>6. QED
      BY <1>3, <2>4, <2>5 DEF ReplaceAccount
  <1>4. QED
    BY <1>1, <1>2, <1>3

LEMMA PublishTyped ==
  ASSUME TypeInv, NEW p \in Procs
  PROVE  /\ BuildStep(p) => TypeInv'
         /\ PublishStep(p) => TypeInv'
         /\ Refresh(p) => TypeInv'
  <1>0. TypeOK /\ Holds(req[p]) /\ req[p] \in Request /\ req \in [Procs -> Request]
    BY DEF TypeInv, TypeOK, RequestsHold
  <1>1. ASSUME BuildStep(p)
        PROVE  TypeInv'
    <2> DEFINE r == [req[p] EXCEPT !.pc = "publish", !.built = BuildDirectory]
    <2>1. BuildDirectory \in Directory
      BY <1>0, BuiltTyped
    <2>2. r \in Request
      BY <1>0, <2>1 DEF Request, Steps
    <2>3. r.pc = "publish" /\ r.then = req[p].then /\ r.name = req[p].name /\ r.was = req[p].was
          /\ r.built = BuildDirectory
      BY <1>0 DEF Request
    <2>4. Holds(r)
      BY <1>0, <2>1, <2>3 DEF Holds, Walking
    <2>5. req' = [req EXCEPT ![p] = r]
      BY <1>0, <1>1 DEF BuildStep
    <2>6. req' \in [Procs -> Request] /\ RequestsHold'
      <3> HIDE DEF r
      <3>1. QED
        BY <2>2, <2>4, <2>5, UpdateRequest
    <2>7. QED
      BY <1>0, <1>1, <2>6 DEF BuildStep, TypeInv, TypeOK, stored, outside, counters
  <1>2. ASSUME PublishStep(p)
        PROVE  TypeInv'
    <2>1. view' \in Directory
      BY <1>0, <1>2 DEF PublishStep, Holds
    <2>2. acked' \in [Names -> Passwords \cup {NoPassword, Gone}]
      <3>1. acked \in [Names -> Passwords \cup {NoPassword, Gone}]
        BY <1>0 DEF TypeOK
      <3>2. req[p].promise \in Passwords \cup {NoPassword, Gone}
        BY <1>0 DEF Request
      <3>3. acked' = acked \/ acked' = [acked EXCEPT ![req[p].name] = req[p].promise]
        BY <1>2 DEF PublishStep
      <3>4. QED
        BY <3>1, <3>2, <3>3
    <2>3. req' \in [Procs -> Request] /\ RequestsHold'
      <3>1. CASE req[p].then \in {"idle", "removed"}
        BY <1>2, <3>1, EndsRequest DEF PublishStep
      <3>2. CASE req[p].then \notin {"idle", "removed"}
        <4> DEFINE r == [req[p] EXCEPT !.pc = req[p].then, !.then = "idle", !.built = Gone]
        <4>1. r \in Request
          BY <1>0 DEF Request, Steps
        <4>2. r.pc = req[p].then /\ r.then = "idle" /\ r.name = req[p].name /\ r.was = req[p].was
          BY <1>0 DEF Request
        <4>3. Holds(r)
          BY <1>0, <4>2 DEF Holds, Walking
        <4>4. req' = [req EXCEPT ![p] = r]
          BY <1>0, <1>2, <3>2 DEF PublishStep
        <4> HIDE DEF r
        <4>5. QED
          BY <4>1, <4>3, <4>4, UpdateRequest
      <3>3. QED
        BY <3>1, <3>2
    <2>4. QED
      BY <1>0, <1>2, <2>1, <2>2, <2>3 DEF PublishStep, TypeInv, TypeOK, stored, outside, counters
  <1>3. ASSUME Refresh(p)
        PROVE  TypeInv'
    <2> DEFINE r == [req[p] EXCEPT !.pc = "build"]
    <2>1. r \in Request
      BY <1>0 DEF Request, Steps
    <2>2. r.pc = "build" /\ r.then = req[p].then /\ r.name = req[p].name /\ r.was = req[p].was
      BY <1>0 DEF Request
    <2>3. Holds(r)
      BY <1>0, <2>2 DEF Holds, Walking
    <2>4. req' = [req EXCEPT ![p] = r]
      BY <1>0, <1>3 DEF Refresh
    <2>5. req' \in [Procs -> Request] /\ RequestsHold'
      <3> HIDE DEF r
      <3>1. QED
        BY <2>1, <2>3, <2>4, UpdateRequest
    <2>6. QED
      BY <1>0, <1>3, <2>5 DEF Refresh, TypeInv, TypeOK, stored, outside, counters
  <1>4. QED
    BY <1>1, <1>2, <1>3

LEMMA LifeTyped ==
  ASSUME TypeOK, NEW n \in Names
  PROVE  LifeOf(n) \in Lives
  <1>1. rows[n] \in Row \cup {Gone} /\ 0 \in Lives
    BY StoreAssumption DEF TypeOK, Tables, Lives
  <1>2. QED
    BY <1>1 DEF LifeOf, Exists, Row

LEMMA MasksTyped ==
  ASSUME TypeInv, NEW p \in Procs
  PROVE  /\ \A n \in Names, m \in Masks : AddMasked(p, n, m) => TypeInv'
         /\ \A n \in Names, m \in Masks : RemoveMasked(p, n, m) => TypeInv'
         /\ \A n \in Names, m \in Masks, on \in BOOLEAN : SetMaskedEnabled(p, n, m, on) => TypeInv'
         /\ RemoveMasks(p) => TypeInv'
  <1> DEFINE MaskTable == [Masks -> Mask \cup {Gone}]
  <1>0. TypeOK /\ Holds(req[p]) /\ req[p] \in Request /\ masks \in MaskTable
    BY DEF TypeInv, TypeOK, RequestsHold
  <1>s. "idle" \in Steps \ {"replace", "publish"} /\ "apps" \in Steps \ {"replace", "publish"}
    BY DEF Steps
  <1>t. ASSUME NEW n \in Names, NEW next \in Steps \ {"replace", "publish"}, NEW newMasks \in MaskTable,
               PersistMasks(p, newMasks, n, next), UNCHANGED outside
        PROVE  TypeInv'
    <2>1. /\ masks' \in MaskTable /\ masksDisk' \in MaskTable /\ faults' \in 0..MaxFaults
          /\ req' \in [Procs -> Request] /\ RequestsHold'
      BY <1>t, PersistMasksTyped
    <2>2. QED
      BY <1>0, <1>t, <2>1 DEF PersistMasks, TypeInv, TypeOK, outside
  <1>1. ASSUME NEW n \in Names, NEW m \in Masks, AddMasked(p, n, m)
        PROVE  TypeInv'
    <2>1. [owner |-> n, on |-> TRUE, life |-> LifeOf(n)] \in Mask
      BY <1>0, LifeTyped DEF Mask
    <2>2. [masks EXCEPT ![m] = [owner |-> n, on |-> TRUE, life |-> LifeOf(n)]] \in MaskTable
      BY <1>0, <2>1
    <2>3. QED
      BY <1>1, <1>s, <1>t, <2>2 DEF AddMasked
  <1>2. ASSUME NEW n \in Names, NEW m \in Masks, RemoveMasked(p, n, m)
        PROVE  TypeInv'
    <2>1. [masks EXCEPT ![m] = Gone] \in MaskTable
      BY <1>0
    <2>2. QED
      BY <1>2, <1>s, <1>t, <2>1 DEF RemoveMasked
  <1>3. ASSUME NEW n \in Names, NEW m \in Masks, NEW on \in BOOLEAN, SetMaskedEnabled(p, n, m, on)
        PROVE  TypeInv'
    <2>1. CASE masks[m].on = on
      <3>1. Publishes(p, n, Gone, "idle") /\ UNCHANGED <<stored, view, acked, counters, outside>>
        BY <1>3, <2>1 DEF SetMaskedEnabled
      <3>2. req' \in [Procs -> Request] /\ RequestsHold'
        BY <1>s, <3>1, PublishesRequest
      <3>3. QED
        BY <1>0, <3>1, <3>2 DEF TypeInv, TypeOK, stored, outside, counters
    <2>2. CASE masks[m].on # on
      <3>1. masks[m] \in Mask
        BY <1>0, <1>3 DEF SetMaskedEnabled, OwnedBy
      <3>2. [masks[m] EXCEPT !.on = on] \in Mask
        BY <3>1 DEF Mask
      <3>3. [masks EXCEPT ![m].on = on] \in MaskTable
        BY <1>0, <3>2
      <3>4. PersistMasks(p, [masks EXCEPT ![m].on = on], n, "idle") /\ UNCHANGED outside
        BY <1>3, <2>2 DEF SetMaskedEnabled
      <3>5. QED
        BY <1>s, <1>t, <3>3, <3>4
    <2>3. QED
      BY <2>1, <2>2
  <1>4. ASSUME RemoveMasks(p)
        PROVE  TypeInv'
    <2> DEFINE n == req[p].name
               left == [m \in Masks |-> IF m \in OwnedBy(n) THEN Gone ELSE masks[m]]
    <2>1. n \in Names
      BY <1>0, <1>4 DEF RemoveMasks, Holds, Walking
    <2>2. CASE OwnedBy(n) = {}
      <3>1. Continues(p, "apps") /\ UNCHANGED <<stored, view, acked, counters, outside>>
        BY <1>4, <2>2 DEF RemoveMasks
      <3>2. req' \in [Procs -> Request] /\ RequestsHold'
        BY <1>s, <2>1, <3>1, ContinuesRequest
      <3>3. QED
        BY <1>0, <3>1, <3>2 DEF TypeInv, TypeOK, stored, outside, counters
    <2>3. CASE OwnedBy(n) # {}
      <3>1. left \in MaskTable
        BY <1>0
      <3>2. PersistMasks(p, left, n, "apps") /\ UNCHANGED outside
        BY <1>4, <2>3 DEF RemoveMasks
      <3> HIDE DEF left
      <3>3. QED
        BY <1>s, <1>t, <2>1, <3>1, <3>2
    <2>4. QED
      BY <2>2, <2>3
  <1>5. QED
    BY <1>1, <1>2, <1>3, <1>4

LEMMA RemovalTyped ==
  ASSUME TypeInv, NEW p \in Procs
  PROVE  /\ \A n \in Names, discard \in BOOLEAN : RemoveAccount(p, n, discard) => TypeInv'
         /\ RemoveApps(p) => TypeInv'
         /\ RemoveSuppression(p) => TypeInv'
         /\ RemoveMailbox(p) => TypeInv'
         /\ RemoveRow(p) => TypeInv'
  <1>0. TypeOK /\ Holds(req[p]) /\ req[p] \in Request /\ req \in [Procs -> Request]
    BY DEF TypeInv, TypeOK, RequestsHold
  <1>n. req[p].pc \in Walking => req[p].name \in Names
    BY <1>0 DEF Holds
  <1>f. faults \in 0..MaxFaults /\ MaxFaults \in Nat
    BY <1>0, StoreAssumption DEF TypeOK
  <1>g. faults < MaxFaults /\ faults' = faults + 1 => faults' \in 0..MaxFaults
    BY <1>f
  <1>1. ASSUME NEW n \in Names, NEW discard \in BOOLEAN, RemoveAccount(p, n, discard)
        PROVE  TypeInv'
    <2> DEFINE r == [req[p] EXCEPT !.pc = "masks", !.name = n]
    <2>1. r \in Request
      BY <1>0 DEF Request, Steps
    <2>2. r.pc = "masks" /\ r.then = req[p].then /\ r.name = n /\ r.was = req[p].was
      BY <1>0 DEF Request
    <2>3. Holds(r)
      BY <1>0, <2>2 DEF Holds, Walking
    <2>4. req' = [req EXCEPT ![p] = r]
      BY <1>0, <1>1 DEF RemoveAccount
    <2>5. req' \in [Procs -> Request] /\ RequestsHold'
      <3> HIDE DEF r
      <3>1. QED
        BY <2>1, <2>3, <2>4, UpdateRequest
    <2>6. queued' \subseteq Addrs
      BY <1>0, <1>1 DEF RemoveAccount, TypeOK
    <2>7. QED
      BY <1>0, <1>1, <2>5, <2>6 DEF RemoveAccount, TypeInv, TypeOK, stored, counters
  <1>2. ASSUME RemoveApps(p)
        PROVE  TypeInv'
    <2> DEFINE n == req[p].name
    <2>1. n \in Names
      BY <1>2, <1>n DEF RemoveApps, Walking
    <2>2. CASE /\ appsDisk' = [appsDisk EXCEPT ![n] = {}]
               /\ apps' = [apps EXCEPT ![n] = {}]
               /\ Publishes(p, n, Gone, "supp")
               /\ UNCHANGED faults
      <3>1. "supp" \in Steps \ {"replace", "publish"}
        BY DEF Steps
      <3>2. req' \in [Procs -> Request] /\ RequestsHold'
        BY <2>1, <2>2, <3>1, PublishesRequest
      <3>3. apps' \in [Names -> SUBSET Lives] /\ appsDisk' \in [Names -> SUBSET Lives]
        BY <1>0, <2>2 DEF TypeOK
      <3>4. QED
        BY <1>0, <1>2, <2>2, <3>2, <3>3 DEF RemoveApps, TypeInv, TypeOK, outside
    <2>3. CASE /\ faults < MaxFaults /\ faults' = faults + 1 /\ Ends(p)
               /\ UNCHANGED <<apps, appsDisk>>
      <3>1. req' \in [Procs -> Request] /\ RequestsHold'
        BY <2>3, EndsRequest
      <3>2. QED
        BY <1>0, <1>2, <1>g, <2>3, <3>1 DEF RemoveApps, TypeInv, TypeOK, outside
    <2>4. QED
      BY <1>2, <2>2, <2>3 DEF RemoveApps
  <1>3. ASSUME RemoveSuppression(p)
        PROVE  TypeInv'
    <2>1. CASE supp' = [supp EXCEPT ![req[p].name] = {}] /\ Continues(p, "mailbox") /\ UNCHANGED faults
      <3>1. "mailbox" \in Steps \ {"replace", "publish"} /\ req[p].name \in Names
        BY <1>3, <1>n DEF RemoveSuppression, Steps, Walking
      <3>2. req' \in [Procs -> Request] /\ RequestsHold'
        BY <2>1, <3>1, ContinuesRequest
      <3>3. supp' \in [Names \cup Addrs -> SUBSET Lives]
        BY <1>0, <2>1 DEF TypeOK
      <3>4. QED
        BY <1>0, <1>3, <2>1, <3>2, <3>3 DEF RemoveSuppression, TypeInv, TypeOK, stored
    <2>2. CASE FailsUnchanged(p, supp)
      <3>1. req' \in [Procs -> Request] /\ RequestsHold'
        BY <2>2, EndsRequest DEF FailsUnchanged
      <3>2. QED
        BY <1>0, <1>3, <1>g, <2>2, <3>1 DEF RemoveSuppression, FailsUnchanged, TypeInv, TypeOK, stored
    <2>3. QED
      BY <1>3, <2>1, <2>2 DEF RemoveSuppression
  <1>4. ASSUME RemoveMailbox(p)
        PROVE  TypeInv'
    <2>1. CASE mail' = [mail EXCEPT ![req[p].name] = {}] /\ Continues(p, "row") /\ UNCHANGED faults
      <3>1. "row" \in Steps \ {"replace", "publish"} /\ req[p].name \in Names
        BY <1>4, <1>n DEF RemoveMailbox, Steps, Walking
      <3>2. req' \in [Procs -> Request] /\ RequestsHold'
        BY <2>1, <3>1, ContinuesRequest
      <3>3. mail' \in [Names -> SUBSET Lives]
        BY <1>0, <2>1 DEF TypeOK
      <3>4. QED
        BY <1>0, <1>4, <2>1, <3>2, <3>3 DEF RemoveMailbox, TypeInv, TypeOK, stored
    <2>2. CASE FailsUnchanged(p, mail)
      <3>1. req' \in [Procs -> Request] /\ RequestsHold'
        BY <2>2, EndsRequest DEF FailsUnchanged
      <3>2. QED
        BY <1>0, <1>4, <1>g, <2>2, <3>1 DEF RemoveMailbox, FailsUnchanged, TypeInv, TypeOK, stored
    <2>3. QED
      BY <1>4, <2>1, <2>2 DEF RemoveMailbox
  <1>5. ASSUME RemoveRow(p)
        PROVE  TypeInv'
    <2> DEFINE n == req[p].name
    <2>1. n \in Names
      BY <1>5, <1>n DEF RemoveRow, Walking
    <2>2. CASE Exists(n)
      <3>1. Persist(p, [rows EXCEPT ![n] = Gone], n, Gone, "removed") /\ acked' = [acked EXCEPT ![n] = Gone]
        BY <1>5, <2>2 DEF RemoveRow
      <3>2. [rows EXCEPT ![n] = Gone] \in Tables(Row) /\ "removed" \in Steps \ {"replace", "publish"}
        BY <1>0, <2>1, RowChanged DEF TypeOK, Steps
      <3>3. /\ rows' \in Tables(Row) /\ disk' \in Tables(Row) /\ faults' \in 0..MaxFaults
            /\ req' \in [Procs -> Request] /\ RequestsHold'
        BY <2>1, <3>1, <3>2, PersistTyped
      <3>4. acked' \in [Names -> Passwords \cup {NoPassword, Gone}]
        BY <1>0, <3>1 DEF TypeOK
      <3>5. QED
        BY <1>0, <1>5, <3>1, <3>3, <3>4 DEF RemoveRow, Persist, TypeInv, TypeOK, outside
    <2>3. CASE ~Exists(n)
      <3>1. Ends(p) /\ UNCHANGED <<stored, view, acked, faults, crashes>>
        BY <1>5, <2>3 DEF RemoveRow
      <3>2. req' \in [Procs -> Request] /\ RequestsHold'
        BY <3>1, EndsRequest
      <3>3. QED
        BY <1>0, <1>5, <3>1, <3>2 DEF RemoveRow, TypeInv, TypeOK, stored, outside
    <2>4. QED
      BY <2>2, <2>3
  <1>6. QED
    BY <1>1, <1>2, <1>3, <1>4, <1>5

LEMMA ElsewhereTyped ==
  ASSUME TypeInv
  PROVE  /\ \A n \in Names : Resolve(n) => TypeInv'
         /\ \A n \in Names : CliAdd(n) => TypeInv'
         /\ \A n \in Names, l \in Lives : CliRevoke(n, l) => TypeInv'
         /\ \A n \in Names, a \in Addrs : Submit(n, a) => TypeInv'
         /\ \A n \in Names, a \in Addrs : SuppressFor(n, a) => TypeInv'
         /\ \A f \in inflight : Deposit(f) => TypeInv'
  <1>0. TypeOK /\ RequestsHold
    BY DEF TypeInv
  <1>v. ASSUME NEW n \in Names, view.rows[n] # Gone
        PROVE  view.rows[n] \in Row /\ view.rows[n].life \in Lives
    <2>1. view.rows[n] \in Row
      BY <1>0, <1>v DEF TypeOK, Directory
    <2>2. QED
      BY <2>1 DEF Row
  <1>1. ASSUME NEW n \in Names, Resolve(n)
        PROVE  TypeInv'
    <2>1. inflight' \subseteq [name : Names, life : Lives]
      BY <1>0, <1>1, <1>v DEF Resolve, TypeOK
    <2>2. QED
      BY <1>0, <1>1, <2>1 DEF Resolve, TypeInv, TypeOK, RequestsHold, stored, counters
  <1>2. ASSUME NEW n \in Names, CliAdd(n)
        PROVE  TypeInv'
    <2>1. appsDisk' \in [Names -> SUBSET Lives]
      BY <1>0, <1>2, LifeTyped DEF CliAdd, TypeOK
    <2>2. QED
      BY <1>0, <1>2, <2>1 DEF CliAdd, TypeInv, TypeOK, RequestsHold, outside, counters
  <1>3. ASSUME NEW n \in Names, NEW l \in Lives, CliRevoke(n, l)
        PROVE  TypeInv'
    <2>1. appsDisk' \in [Names -> SUBSET Lives]
      BY <1>0, <1>3 DEF CliRevoke, TypeOK
    <2>2. QED
      BY <1>0, <1>3, <2>1 DEF CliRevoke, TypeInv, TypeOK, RequestsHold, outside, counters
  <1>4. ASSUME NEW n \in Names, NEW a \in Addrs, Submit(n, a)
        PROVE  TypeInv'
    BY <1>0, <1>4 DEF Submit, TypeInv, TypeOK, RequestsHold, stored, counters
  <1>5. ASSUME NEW n \in Names, NEW a \in Addrs, SuppressFor(n, a)
        PROVE  TypeInv'
    <2>1. supp' \in [Names \cup Addrs -> SUBSET Lives]
      BY <1>0, <1>5, <1>v DEF SuppressFor, TypeOK
    <2>2. QED
      BY <1>0, <1>5, <2>1 DEF SuppressFor, TypeInv, TypeOK, RequestsHold, stored, counters
  <1>6. ASSUME NEW f \in inflight, Deposit(f)
        PROVE  TypeInv'
    <2>1. f.name \in Names /\ f.life \in Lives
      BY <1>0 DEF TypeOK
    <2>2. mail' \in [Names -> SUBSET Lives]
      BY <1>0, <1>6, <2>1 DEF Deposit, TypeOK
    <2>3. QED
      BY <1>0, <1>6, <2>2 DEF Deposit, TypeInv, TypeOK, RequestsHold, stored, counters
  <1>7. QED
    BY <1>1, <1>2, <1>3, <1>4, <1>5, <1>6

LEMMA CrashTyped ==
  ASSUME TypeInv, Crash
  PROVE  TypeInv'
  <1>0. TypeOK /\ crashes \in 0..MaxCrashes /\ MaxCrashes \in Nat
    BY StoreAssumption DEF TypeInv, TypeOK
  <1>1. req' \in [Procs -> Request] /\ RequestsHold'
    BY IdleRequest DEF Crash, RequestsHold
  <1>2. crashes' \in 0..MaxCrashes
    BY <1>0 DEF Crash
  <1>3. /\ rows' \in [Names -> Row \cup {Gone}]
        /\ masks' \in [Masks -> Mask \cup {Gone}]
        /\ apps' \in [Names -> SUBSET Lives]
    BY <1>0 DEF Crash, TypeOK, Tables
  <1>4. \A m \in Masks : (IF masks'[m] # Gone /\ masks'[m].on THEN masks'[m].owner ELSE Gone) \in Names \cup {Gone}
    BY <1>3 DEF Mask
  <1>5. view' \in Directory
    BY <1>3, <1>4 DEF Crash, BuildDirectory, Directory
  <1>6. QED
    BY <1>0, <1>1, <1>2, <1>5 DEF Crash, TypeInv, TypeOK

LEMMA StartTyped == Init => TypeInv
  <1> SUFFICES ASSUME Init PROVE TypeInv
    OBVIOUS
  <1>1. req \in [Procs -> Request] /\ RequestsHold
    BY IdleRequest DEF Init, RequestsHold
  <1>2. /\ rows \in [Names -> Row \cup {Gone}]
        /\ masks \in [Masks -> Mask \cup {Gone}]
        /\ apps \in [Names -> SUBSET Lives]
    BY DEF Init
  <1>3. \A m \in Masks : (IF masks[m] # Gone /\ masks[m].on THEN masks[m].owner ELSE Gone) \in Names \cup {Gone}
    BY DEF Init
  <1>4. view \in Directory
    BY <1>2, <1>3 DEF Init, BuildDirectory, Directory
  <1>5. faults \in 0..MaxFaults /\ crashes \in 0..MaxCrashes /\ 0 \in Lives
    BY StoreAssumption DEF Init, Lives
  <1>6. QED
    BY <1>1, <1>2, <1>4, <1>5 DEF Init, TypeInv, TypeOK, Tables

LEMMA RequestTyped ==
  ASSUME TypeInv, NEW p \in Procs, RequestStep(p)
  PROVE  TypeInv'
  BY RowsTyped, PutTyped, PublishTyped, MasksTyped, RemovalTyped DEF RequestStep

LEMMA StepTyped == TypeInv /\ [Next]_vars => TypeInv'
  <1> SUFFICES ASSUME TypeInv, [Next]_vars PROVE TypeInv'
    OBVIOUS
  <1>1. ASSUME NEW p \in Procs, RequestStep(p)
        PROVE  TypeInv'
    BY <1>1, RequestTyped
  <1>2. CASE Environment
    BY <1>2, ElsewhereTyped, CrashTyped DEF Environment
  <1>3. CASE UNCHANGED vars
    BY <1>3 DEF vars, stored, outside, counters, TypeInv, TypeOK, RequestsHold
  <1>4. QED
    BY <1>1, <1>2, <1>3 DEF Next

\* Every table, published directory and request of the account store keeps
\* its type, through file errors and restarts: no handler ever publishes a
\* directory it has not built or writes back a row it has not read.
THEOREM TypeCorrect == Spec => []TypeOK
  <1>1. TypeInv => TypeOK
    BY DEF TypeInv
  <1>2. QED
    BY <1>1, StartTyped, StepTyped, PTL DEF Spec

----------------------------------------------------------------------------
(***************************************************************************)
(* No address belongs to two accounts.  The checks look at memory under    *)
(* the lock, the file is the image of some earlier memory, and a directory *)
(* in a request's hands was built from memory: each copy is disjoint       *)
(* because the memory it was taken from was.                               *)
(***************************************************************************)
HeldDisjoint == \A p \in Procs : req[p].pc = "publish" => Disjoint(req[p].built.rows)
UniqueInv == TypeInv /\ AddressesUnique /\ HeldDisjoint

\* Addresses no other account has may be given to an account.
LEMMA FreeAddresses ==
  ASSUME TypeOK, Disjoint(rows), NEW n \in Names, NEW row \in Row, row.addrs \cap Taken(n) = {}
  PROVE  Disjoint([rows EXCEPT ![n] = row])
  <1> DEFINE T == [rows EXCEPT ![n] = row]
  <1>1. rows \in [Names -> Row \cup {Gone}]
    BY DEF TypeOK, Tables
  <1>2. \A k \in Names : T[k] = IF k = n THEN row ELSE rows[k]
    BY <1>1
  <1>3. row.addrs \cap StaticAddrs = {}
    BY DEF Taken
  <1>4. ASSUME NEW k \in Names, k # n, rows[k] # Gone
        PROVE  row.addrs \cap rows[k].addrs = {}
    <2>1. rows[k].addrs \subseteq Taken(n)
      BY <1>4 DEF Taken, Exists
    <2>2. QED
      BY <2>1
  <1>5. ASSUME NEW j \in Names, NEW k \in Names, j # k, T[j] # Gone, T[k] # Gone
        PROVE  T[j].addrs \cap T[k].addrs = {}
    <2>1. CASE j = n
      BY <1>2, <1>4, <1>5, <2>1
    <2>2. CASE k = n
      BY <1>2, <1>4, <1>5, <2>2
    <2>3. CASE j # n /\ k # n
      BY <1>2, <1>5, <2>3 DEF Disjoint
    <2>4. QED
      BY <2>1, <2>2, <2>3
  <1>6. ASSUME NEW k \in Names, T[k] # Gone
        PROVE  T[k].addrs \cap StaticAddrs = {}
    BY <1>2, <1>3, <1>6 DEF Disjoint
  <1> HIDE DEF T
  <1>7. Disjoint(T)
    BY <1>5, <1>6 DEF Disjoint
  <1>8. QED
    BY <1>7 DEF T

\* A change of anything but the addresses, or a removal, keeps tables disjoint.
LEMMA SameAddresses ==
  ASSUME NEW T, NEW U, Disjoint(T),
         \A n \in Names : U[n] # Gone => (T[n] # Gone /\ U[n].addrs = T[n].addrs)
  PROVE  Disjoint(U)
  BY DEF Disjoint

\* A request that does not hold a directory afterwards disturbs no other.
LEMMA HeldKept ==
  ASSUME UniqueInv, NEW p \in Procs, NEW r, r.pc # "publish", req' = [req EXCEPT ![p] = r]
  PROVE  HeldDisjoint'
  <1>1. req \in [Procs -> Request]
    BY DEF UniqueInv, TypeInv, TypeOK
  <1>2. \A q \in Procs : req'[q] = IF q = p THEN r ELSE req[q]
    BY <1>1
  <1>3. QED
    BY <1>2 DEF UniqueInv, HeldDisjoint

LEMMA MovesOn ==
  ASSUME UniqueInv, NEW p \in Procs
  PROVE  /\ \A n, promise, next : Publishes(p, n, promise, next) => HeldDisjoint'
         /\ \A next : next # "publish" /\ Continues(p, next) => HeldDisjoint'
         /\ Ends(p) => HeldDisjoint'
  <1>1. req[p] \in Request /\ req \in [Procs -> Request]
    BY DEF UniqueInv, TypeInv, TypeOK
  <1>2. ASSUME NEW n, NEW promise, NEW next, Publishes(p, n, promise, next)
        PROVE  HeldDisjoint'
    <2> DEFINE r == [req[p] EXCEPT !.pc = "build", !.then = next, !.name = n, !.promise = promise]
    <2>1. r.pc # "publish"
      BY <1>1 DEF Request
    <2>2. req' = [req EXCEPT ![p] = r]
      BY <1>1, <1>2 DEF Publishes
    <2> HIDE DEF r
    <2>3. QED
      BY <2>1, <2>2, HeldKept
  <1>3. ASSUME NEW next, next # "publish", Continues(p, next)
        PROVE  HeldDisjoint'
    <2> DEFINE r == [req[p] EXCEPT !.pc = next]
    <2>1. r.pc # "publish"
      BY <1>1, <1>3 DEF Request
    <2>2. req' = [req EXCEPT ![p] = r]
      BY <1>1, <1>3 DEF Continues
    <2> HIDE DEF r
    <2>3. QED
      BY <2>1, <2>2, HeldKept
  <1>4. ASSUME Ends(p)
        PROVE  HeldDisjoint'
    <2>1. Idle.pc # "publish"
      BY DEF Idle
    <2>2. QED
      BY <1>4, <2>1, HeldKept DEF Ends
  <1>5. QED
    BY <1>2, <1>3, <1>4

LEMMA PersistUnique ==
  ASSUME UniqueInv, NEW p \in Procs, NEW newRows, Disjoint(newRows), NEW n, NEW promise, NEW next,
         Persist(p, newRows, n, promise, next)
  PROVE  AddressesUnique' /\ HeldDisjoint'
  <1>1. rows' = newRows /\ view' = view /\ (disk' = newRows \/ disk' = disk)
    BY DEF Persist
  <1>2. Disjoint(rows') /\ Disjoint(disk') /\ Disjoint(view'.rows)
    BY <1>1 DEF UniqueInv, AddressesUnique
  <1>3. HeldDisjoint'
    BY MovesOn DEF Persist
  <1>4. AddressesUnique'
    BY <1>2 DEF AddressesUnique, Disjoint
  <1>5. QED
    BY <1>3, <1>4

\* Steps that touch no account row, no file of them and no published directory.
LEMMA Untouched ==
  ASSUME UniqueInv, UNCHANGED <<rows, disk, view>>
  PROVE  AddressesUnique'
  BY DEF UniqueInv, AddressesUnique, Disjoint

LEMMA RowsUnique ==
  ASSUME UniqueInv, NEW p \in Procs, NEW n \in Names
  PROVE  /\ \A pw \in Passwords \cup {NoPassword}, A \in SUBSET Addrs, off \in Flags :
               Add(p, n, pw, A, off) => AddressesUnique' /\ HeldDisjoint'
         /\ \A pw \in Passwords : SetPasswordHash(p, n, pw) => AddressesUnique' /\ HeldDisjoint'
         /\ \A off \in Flags : SetDisabled(p, n, off) => AddressesUnique' /\ HeldDisjoint'
         /\ \A on \in BOOLEAN : SetTotp(p, n, on) => AddressesUnique' /\ HeldDisjoint'
  <1>0. /\ TypeOK /\ Disjoint(rows) /\ Flags \subseteq BOOLEAN
        /\ rows \in [Names -> Row \cup {Gone}]
    BY StoreAssumption DEF UniqueInv, TypeInv, TypeOK, AddressesUnique, Tables
  <1>1. ASSUME NEW pw \in Passwords \cup {NoPassword}, NEW A \in SUBSET Addrs, NEW off \in Flags,
               Add(p, n, pw, A, off)
        PROVE  AddressesUnique' /\ HeldDisjoint'
    <2> DEFINE row == [addrs |-> A, pw |-> pw, totp |-> FALSE, off |-> off, life |-> born[n] + 1]
    <2>1. born[n] + 1 \in Lives
      BY <1>0, <1>1, StoreAssumption DEF Add, TypeOK, Lives
    <2>2. row \in Row /\ row.addrs = A
      BY <1>0, <2>1 DEF Row
    <2>3. A \cap Taken(n) = {} /\ Persist(p, [rows EXCEPT ![n] = row], n, pw, "idle")
      BY <1>1 DEF Add
    <2> HIDE DEF row
    <2>4. Disjoint([rows EXCEPT ![n] = row])
      BY <1>0, <2>2, <2>3, FreeAddresses
    <2>5. QED
      BY <2>3, <2>4, PersistUnique
  <1>2. ASSUME NEW pw \in Passwords, SetPasswordHash(p, n, pw)
        PROVE  AddressesUnique' /\ HeldDisjoint'
    <2> DEFINE T == [rows EXCEPT ![n].pw = pw]
    <2>0. rows[n] # Gone /\ rows[n] \in Row
      BY <1>0, <1>2 DEF SetPasswordHash, Exists
    <2>1. \A k \in Names : T[k] # Gone => (rows[k] # Gone /\ T[k].addrs = rows[k].addrs)
      BY <1>0, <2>0 DEF Row
    <2>2. Persist(p, T, n, pw, "idle")
      BY <1>2 DEF SetPasswordHash
    <2> HIDE DEF T
    <2>3. Disjoint(T)
      BY <1>0, <2>1, SameAddresses
    <2>4. QED
      BY <2>2, <2>3, PersistUnique
  <1>3. ASSUME NEW off \in Flags, SetDisabled(p, n, off)
        PROVE  AddressesUnique' /\ HeldDisjoint'
    <2> DEFINE T == [rows EXCEPT ![n].off = off]
    <2>0. rows[n] # Gone /\ rows[n] \in Row
      BY <1>0, <1>3 DEF SetDisabled, Exists
    <2>1. \A k \in Names : T[k] # Gone => (rows[k] # Gone /\ T[k].addrs = rows[k].addrs)
      BY <1>0, <2>0 DEF Row
    <2>2. Persist(p, T, n, Gone, "idle")
      BY <1>3 DEF SetDisabled
    <2> HIDE DEF T
    <2>3. Disjoint(T)
      BY <1>0, <2>1, SameAddresses
    <2>4. QED
      BY <2>2, <2>3, PersistUnique
  <1>4. ASSUME NEW on \in BOOLEAN, SetTotp(p, n, on)
        PROVE  AddressesUnique' /\ HeldDisjoint'
    <2> DEFINE T == [rows EXCEPT ![n].totp = on]
    <2>0. rows[n] # Gone /\ rows[n] \in Row
      BY <1>0, <1>4 DEF SetTotp, Exists
    <2>1. \A k \in Names : T[k] # Gone => (rows[k] # Gone /\ T[k].addrs = rows[k].addrs)
      BY <1>0, <2>0 DEF Row
    <2>2. /\ rows' = T /\ (disk' = T \/ disk' = disk)
          /\ view' = view /\ req' = req
      BY <1>4 DEF SetTotp
    <2> HIDE DEF T
    <2>3. Disjoint(T)
      BY <1>0, <2>1, SameAddresses
    <2>4. Disjoint(rows') /\ Disjoint(disk') /\ Disjoint(view'.rows)
      BY <2>2, <2>3 DEF UniqueInv, AddressesUnique
    <2>5. AddressesUnique'
      BY <2>4 DEF AddressesUnique, Disjoint
    <2>6. HeldDisjoint'
      BY <2>2 DEF UniqueInv, HeldDisjoint, Disjoint
    <2>7. QED
      BY <2>5, <2>6
  <1>5. QED
    BY <1>1, <1>2, <1>3, <1>4

LEMMA PutUnique ==
  ASSUME UniqueInv, NEW p \in Procs
  PROVE  /\ \A n \in Names : PutUser(p, n) => AddressesUnique' /\ HeldDisjoint'
         /\ \A n \in Names, pw \in PutPasswords : PutPassword(p, n, pw) => AddressesUnique' /\ HeldDisjoint'
         /\ \A A \in (SUBSET Addrs) \ {{}}, off \in Flags :
               ReplaceAccount(p, A, off) => AddressesUnique' /\ HeldDisjoint'
  <1>0. /\ TypeOK /\ Disjoint(rows) /\ Holds(req[p])
        /\ rows \in [Names -> Row \cup {Gone}]
        /\ req[p] \in Request /\ req \in [Procs -> Request]
    BY DEF UniqueInv, TypeInv, TypeOK, RequestsHold, AddressesUnique, Tables
  <1>1. ASSUME NEW n \in Names, PutUser(p, n)
        PROVE  AddressesUnique' /\ HeldDisjoint'
    <2> DEFINE r == [req[p] EXCEPT !.pc = "replace", !.name = n, !.was = rows[n]]
    <2>1. r.pc # "publish" /\ req' = [req EXCEPT ![p] = r]
      BY <1>0, <1>1 DEF PutUser, Request
    <2>2. UNCHANGED <<rows, disk, view>>
      BY <1>1 DEF PutUser, stored
    <2> HIDE DEF r
    <2>3. QED
      BY <2>1, <2>2, HeldKept, Untouched
  <1>2. ASSUME NEW n \in Names, NEW pw \in PutPasswords, PutPassword(p, n, pw)
        PROVE  AddressesUnique' /\ HeldDisjoint'
    <2> DEFINE T == [rows EXCEPT ![n].pw = pw]
               r == [req[p] EXCEPT !.pc = "build", !.then = "replace", !.name = n, !.promise = pw,
                                   !.was = rows[n]]
    <2>0. rows[n] # Gone /\ rows[n] \in Row
      BY <1>0, <1>2 DEF PutPassword, Exists
    <2>1. \A k \in Names : T[k] # Gone => (rows[k] # Gone /\ T[k].addrs = rows[k].addrs)
      BY <1>0, <2>0 DEF Row
    <2>2. rows' = T /\ (disk' = T \/ disk' = disk) /\ view' = view
      BY <1>2 DEF PutPassword
    <2>3. r.pc # "publish" /\ (req' = [req EXCEPT ![p] = r] \/ Ends(p))
      BY <1>0, <1>2 DEF PutPassword, Request
    <2> HIDE DEF T, r
    <2>4. Disjoint(T)
      BY <1>0, <2>1, SameAddresses
    <2>5. Disjoint(rows') /\ Disjoint(disk') /\ Disjoint(view'.rows)
      BY <2>2, <2>4 DEF UniqueInv, AddressesUnique
    <2>6. AddressesUnique'
      BY <2>5 DEF AddressesUnique, Disjoint
    <2>7. HeldDisjoint'
      BY <2>3, HeldKept, MovesOn
    <2>8. QED
      BY <2>6, <2>7
  <1>3. ASSUME NEW A \in (SUBSET Addrs) \ {{}}, NEW off \in Flags, ReplaceAccount(p, A, off)
        PROVE  AddressesUnique' /\ HeldDisjoint'
    <2> DEFINE n == req[p].name
               row == [req[p].was EXCEPT !.addrs = A, !.off = off]
    <2>0. n \in Names /\ req[p].was \in Row /\ Flags \subseteq BOOLEAN
      BY <1>0, <1>3, StoreAssumption DEF ReplaceAccount, Holds, Walking
    <2>1. row \in Row /\ row.addrs = A
      BY <2>0 DEF Row
    <2>2. CASE ~Clash(n, A) /\ Persist(p, [rows EXCEPT ![n] = row], n, req[p].promise, "idle")
      <3> HIDE DEF row, n
      <3>1. Disjoint([rows EXCEPT ![n] = row])
        BY <1>0, <2>0, <2>1, <2>2, FreeAddresses DEF Clash
      <3>2. QED
        BY <2>2, <3>1, PersistUnique
    <2>3. CASE Ends(p) /\ UNCHANGED <<stored, view, faults, crashes>>
      <3>1. UNCHANGED <<rows, disk, view>>
        BY <2>3 DEF stored
      <3>2. QED
        BY <2>3, <3>1, Untouched, MovesOn
    <2>4. QED
      BY <1>3, <2>2, <2>3 DEF ReplaceAccount
  <1>4. QED
    BY <1>1, <1>2, <1>3

LEMMA PublishUnique ==
  ASSUME UniqueInv, NEW p \in Procs
  PROVE  /\ BuildStep(p) => AddressesUnique' /\ HeldDisjoint'
         /\ PublishStep(p) => AddressesUnique' /\ HeldDisjoint'
         /\ Refresh(p) => AddressesUnique' /\ HeldDisjoint'
  <1>0. /\ Disjoint(rows) /\ Disjoint(disk) /\ HeldDisjoint /\ Holds(req[p])
        /\ req[p] \in Request /\ req \in [Procs -> Request]
    BY DEF UniqueInv, TypeInv, TypeOK, RequestsHold, AddressesUnique
  <1>1. ASSUME BuildStep(p)
        PROVE  AddressesUnique' /\ HeldDisjoint'
    <2> DEFINE r == [req[p] EXCEPT !.pc = "publish", !.built = BuildDirectory]
    <2>1. UNCHANGED <<rows, disk, view>> /\ req' = [req EXCEPT ![p] = r]
      BY <1>0, <1>1 DEF BuildStep, stored
    <2>2. r.built.rows = rows
      BY <1>0 DEF Request, BuildDirectory
    <2> HIDE DEF r
    <2>3. \A q \in Procs : req'[q] = IF q = p THEN r ELSE req[q]
      BY <1>0, <2>1
    <2>4. \A q \in Procs : req'[q].pc = "publish" => Disjoint(req'[q].built.rows)
      BY <1>0, <2>2, <2>3 DEF HeldDisjoint
    <2>5. HeldDisjoint'
      BY <2>4 DEF HeldDisjoint, Disjoint
    <2>6. QED
      BY <2>1, <2>5, Untouched
  <1>2. ASSUME PublishStep(p)
        PROVE  AddressesUnique' /\ HeldDisjoint'
    <2>1. rows' = rows /\ disk' = disk /\ view' = req[p].built /\ req[p].pc = "publish"
      BY <1>2 DEF PublishStep, stored
    <2>2. Disjoint(rows') /\ Disjoint(disk') /\ Disjoint(view'.rows)
      BY <1>0, <2>1 DEF HeldDisjoint
    <2>3. AddressesUnique'
      BY <2>2 DEF AddressesUnique, Disjoint
    <2>4. HeldDisjoint'
      <3>1. CASE req[p].then \in {"idle", "removed"}
        BY <1>2, <3>1, MovesOn DEF PublishStep
      <3>2. CASE req[p].then \notin {"idle", "removed"}
        <4> DEFINE r == [req[p] EXCEPT !.pc = req[p].then, !.then = "idle", !.built = Gone]
        <4>1. r.pc = req[p].then
          BY <1>0 DEF Request
        <4>2. r.pc # "publish" /\ req' = [req EXCEPT ![p] = r]
          BY <1>0, <1>2, <3>2, <4>1 DEF PublishStep, Holds
        <4> HIDE DEF r
        <4>3. QED
          BY <4>2, HeldKept
      <3>3. QED
        BY <3>1, <3>2
    <2>5. QED
      BY <2>3, <2>4
  <1>3. ASSUME Refresh(p)
        PROVE  AddressesUnique' /\ HeldDisjoint'
    <2>1. UNCHANGED <<rows, disk, view>> /\ Continues(p, "build")
      BY <1>3 DEF Refresh, Continues, stored
    <2>2. QED
      BY <2>1, Untouched, MovesOn
  <1>4. QED
    BY <1>1, <1>2, <1>3

LEMMA RemovalUnique ==
  ASSUME UniqueInv, NEW p \in Procs
  PROVE  /\ \A n \in Names, discard \in BOOLEAN : RemoveAccount(p, n, discard) => AddressesUnique' /\ HeldDisjoint'
         /\ RemoveApps(p) => AddressesUnique' /\ HeldDisjoint'
         /\ RemoveSuppression(p) => AddressesUnique' /\ HeldDisjoint'
         /\ RemoveMailbox(p) => AddressesUnique' /\ HeldDisjoint'
         /\ RemoveRow(p) => AddressesUnique' /\ HeldDisjoint'
  <1>0. /\ Disjoint(rows) /\ rows \in [Names -> Row \cup {Gone}]
        /\ req[p] \in Request /\ req \in [Procs -> Request]
    BY DEF UniqueInv, TypeInv, TypeOK, AddressesUnique, Tables
  <1>1. ASSUME NEW n \in Names, NEW discard \in BOOLEAN, RemoveAccount(p, n, discard)
        PROVE  AddressesUnique' /\ HeldDisjoint'
    <2> DEFINE r == [req[p] EXCEPT !.pc = "masks", !.name = n]
    <2>1. r.pc # "publish" /\ req' = [req EXCEPT ![p] = r] /\ UNCHANGED <<rows, disk, view>>
      BY <1>0, <1>1 DEF RemoveAccount, Request, stored
    <2> HIDE DEF r
    <2>2. QED
      BY <2>1, HeldKept, Untouched
  <1>2. ASSUME RemoveApps(p)
        PROVE  AddressesUnique' /\ HeldDisjoint'
    <2>1. UNCHANGED <<rows, disk, view>>
      BY <1>2 DEF RemoveApps
    <2>2. Publishes(p, req[p].name, Gone, "supp") \/ Ends(p)
      BY <1>2 DEF RemoveApps
    <2>3. QED
      BY <2>1, <2>2, Untouched, MovesOn
  <1>3. ASSUME RemoveSuppression(p)
        PROVE  AddressesUnique' /\ HeldDisjoint'
    <2>1. UNCHANGED <<rows, disk, view>>
      BY <1>3 DEF RemoveSuppression, stored
    <2>2. Continues(p, "mailbox") \/ Ends(p)
      BY <1>3 DEF RemoveSuppression, FailsUnchanged
    <2>3. QED
      BY <2>1, <2>2, Untouched, MovesOn
  <1>4. ASSUME RemoveMailbox(p)
        PROVE  AddressesUnique' /\ HeldDisjoint'
    <2>1. UNCHANGED <<rows, disk, view>>
      BY <1>4 DEF RemoveMailbox, stored
    <2>2. Continues(p, "row") \/ Ends(p)
      BY <1>4 DEF RemoveMailbox, FailsUnchanged
    <2>3. QED
      BY <2>1, <2>2, Untouched, MovesOn
  <1>5. ASSUME RemoveRow(p)
        PROVE  AddressesUnique' /\ HeldDisjoint'
    <2> DEFINE n == req[p].name
    <2>1. CASE Exists(n)
      <3> DEFINE T == [rows EXCEPT ![n] = Gone]
      <3>1. \A k \in Names : T[k] # Gone => (rows[k] # Gone /\ T[k].addrs = rows[k].addrs)
        BY <1>0
      <3>2. Persist(p, T, n, Gone, "removed")
        BY <1>5, <2>1 DEF RemoveRow
      <3> HIDE DEF T
      <3>3. Disjoint(T)
        BY <1>0, <3>1, SameAddresses
      <3>4. QED
        BY <3>2, <3>3, PersistUnique
    <2>2. CASE ~Exists(n)
      <3>1. Ends(p) /\ UNCHANGED <<rows, disk, view>>
        BY <1>5, <2>2 DEF RemoveRow, stored
      <3>2. QED
        BY <3>1, Untouched, MovesOn
    <2>3. QED
      BY <2>1, <2>2
  <1>6. QED
    BY <1>1, <1>2, <1>3, <1>4, <1>5

LEMMA MasksUnique ==
  ASSUME UniqueInv, NEW p \in Procs
  PROVE  /\ \A n \in Names, m \in Masks : AddMasked(p, n, m) \/ RemoveMasked(p, n, m)
                                         => AddressesUnique' /\ HeldDisjoint'
         /\ \A n \in Names, m \in Masks, on \in BOOLEAN : SetMaskedEnabled(p, n, m, on)
                                         => AddressesUnique' /\ HeldDisjoint'
         /\ RemoveMasks(p) => AddressesUnique' /\ HeldDisjoint'
  <1>1. ASSUME NEW newMasks, NEW n, NEW next, PersistMasks(p, newMasks, n, next)
        PROVE  AddressesUnique' /\ HeldDisjoint'
    <2>1. UNCHANGED <<rows, disk, view>> /\ (Publishes(p, n, Gone, next) \/ Ends(p))
      BY <1>1 DEF PersistMasks
    <2>2. QED
      BY <2>1, Untouched, MovesOn
  <1>2. ASSUME NEW n \in Names, NEW m \in Masks, AddMasked(p, n, m) \/ RemoveMasked(p, n, m)
        PROVE  AddressesUnique' /\ HeldDisjoint'
    BY <1>1, <1>2 DEF AddMasked, RemoveMasked
  <1>3. ASSUME NEW n \in Names, NEW m \in Masks, NEW on \in BOOLEAN, SetMaskedEnabled(p, n, m, on)
        PROVE  AddressesUnique' /\ HeldDisjoint'
    <2>1. CASE masks[m].on = on
      <3>1. Publishes(p, n, Gone, "idle") /\ UNCHANGED <<rows, disk, view>>
        BY <1>3, <2>1 DEF SetMaskedEnabled, stored
      <3>2. QED
        BY <3>1, Untouched, MovesOn
    <2>2. CASE masks[m].on # on
      BY <1>1, <1>3, <2>2 DEF SetMaskedEnabled
    <2>3. QED
      BY <2>1, <2>2
  <1>4. ASSUME RemoveMasks(p)
        PROVE  AddressesUnique' /\ HeldDisjoint'
    <2>1. CASE OwnedBy(req[p].name) = {}
      <3>1. Continues(p, "apps") /\ UNCHANGED <<rows, disk, view>>
        BY <1>4, <2>1 DEF RemoveMasks, stored
      <3>2. QED
        BY <3>1, Untouched, MovesOn
    <2>2. CASE OwnedBy(req[p].name) # {}
      BY <1>1, <1>4, <2>2 DEF RemoveMasks
    <2>3. QED
      BY <2>1, <2>2
  <1>5. QED
    BY <1>2, <1>3, <1>4

LEMMA EnvironmentUnique ==
  ASSUME UniqueInv, Environment
  PROVE  AddressesUnique' /\ HeldDisjoint'
  <1>1. CASE Crash
    <2>1. rows' = disk /\ disk' = disk /\ view'.rows = rows' /\ req' = [q \in Procs |-> Idle]
      BY <1>1 DEF Crash, BuildDirectory
    <2>2. Disjoint(rows') /\ Disjoint(disk') /\ Disjoint(view'.rows)
      BY <2>1 DEF UniqueInv, AddressesUnique
    <2>3. HeldDisjoint'
      BY <2>1 DEF HeldDisjoint, Idle
    <2>4. AddressesUnique'
      BY <2>2 DEF AddressesUnique, Disjoint
    <2>5. QED
      BY <2>3, <2>4
  <1>2. CASE UNCHANGED <<rows, disk, view, req>>
    <2>1. HeldDisjoint'
      BY <1>2 DEF UniqueInv, HeldDisjoint, Disjoint
    <2>2. QED
      BY <1>2, <2>1, Untouched
  <1>3. Crash \/ UNCHANGED <<rows, disk, view, req>>
    BY DEF Environment, Resolve, CliAdd, CliRevoke, Submit, SuppressFor, Deposit, stored
  <1>4. QED
    BY <1>1, <1>2, <1>3

LEMMA StartUnique == Init => UniqueInv
  <1> SUFFICES ASSUME Init PROVE UniqueInv
    OBVIOUS
  <1>1. \A n \in Names : rows[n] = Gone
    BY DEF Init
  <1>2. disk = rows /\ view.rows = rows
    BY DEF Init, BuildDirectory
  <1>3. Disjoint(rows)
    BY <1>1 DEF Disjoint
  <1>4. AddressesUnique
    BY <1>2, <1>3 DEF AddressesUnique
  <1>5. HeldDisjoint
    BY DEF Init, HeldDisjoint, Idle
  <1>6. QED
    BY <1>4, <1>5, StartTyped DEF UniqueInv

LEMMA RequestUnique ==
  ASSUME UniqueInv, NEW p \in Procs, RequestStep(p)
  PROVE  AddressesUnique' /\ HeldDisjoint'
  BY RowsUnique, PutUnique, PublishUnique, MasksUnique, RemovalUnique DEF RequestStep

LEMMA StepUnique == UniqueInv /\ [Next]_vars => UniqueInv'
  <1> SUFFICES ASSUME UniqueInv, [Next]_vars PROVE UniqueInv'
    OBVIOUS
  <1>1. TypeInv'
    BY StepTyped DEF UniqueInv
  <1>2. ASSUME NEW p \in Procs, RequestStep(p)
        PROVE  AddressesUnique' /\ HeldDisjoint'
    BY <1>2, RequestUnique
  <1>3. CASE Environment
    BY <1>1, <1>3, EnvironmentUnique DEF UniqueInv
  <1>4. CASE UNCHANGED vars
    BY <1>1, <1>4 DEF vars, stored, UniqueInv, AddressesUnique, HeldDisjoint, Disjoint
  <1>5. QED
    BY <1>1, <1>2, <1>3, <1>4 DEF Next, UniqueInv

\* No address belongs to two accounts, nor to an account and the configuration
\* file, in memory, on disk or in the published directory, whatever requests
\* overlap, whichever file writes fail and whenever the server restarts: add
\* and replace_account check under the lock they write under, and every other
\* copy is taken whole from a table that was checked.
THEOREM Unique == Spec => []AddressesUnique
  <1>1. UniqueInv => AddressesUnique
    BY DEF UniqueInv
  <1>2. QED
    BY <1>1, StartUnique, StepUnique, PTL DEF Spec

----------------------------------------------------------------------------
(***************************************************************************)
(* One request at a time, with files that can be written (Procs has one    *)
(* member and MaxFaults is 0).  Two requests at once, or a failed write,   *)
(* leave the published directory behind memory until the next publication  *)
(* (README, findings), so the properties below are stated for this case;   *)
(* restarts, deliveries and the command line still come between any steps. *)
(***************************************************************************)
Files == disk = rows /\ masksDisk = masks

\* What the directory d shows of memory: everything but the second factor.
Seen(d) ==
    /\ d.masks = BuildDirectory.masks /\ d.apps = apps
    /\ \A n \in Names :
         /\ d.rows[n] = Gone <=> ~Exists(n)
         /\ Exists(n) => [d.rows[n] EXCEPT !.totp = rows[n].totp] = rows[n]

Shown(p) == /\ req[p].pc \notin {"build", "publish"} => Seen(view)
            /\ req[p].pc = "publish" => Seen(req[p].built)
Resets(p) == /\ req[p].pc = "idle" => req[p] = Idle
             /\ req[p].pc \notin {"build", "publish"} => req[p].then = "idle"

\* The row a PUT read is still the one in memory, but for the password and flags.
Rereads(p) == req[p].pc = "replace" \/ req[p].then = "replace"
              => /\ Exists(req[p].name)
                 /\ req[p].was.life = rows[req[p].name].life
                 /\ PutPasswords = {} => /\ req[p].then # "replace"
                                         /\ req[p].was = rows[req[p].name]

SerialInv(p) == TypeInv /\ Files /\ Shown(p) /\ Resets(p) /\ Rereads(p)

(***************************************************************************)
(* A promise an OK answer made, or is about to make, is kept.              *)
(***************************************************************************)
Promised(p) ==
    /\ \A n \in Names : acked[n] # Gone => Exists(n) /\ rows[n].pw = acked[n]
    /\ req[p].promise # Gone =>
         /\ req[p].pc \in {"build", "publish"} /\ req[p].then = "idle"
         /\ req[p].name \in Names /\ Exists(req[p].name)
         /\ rows[req[p].name].pw = req[p].promise
    /\ req[p].then # "replace"

(***************************************************************************)
(* Removal: what is gone at each stage of the walk, and that nothing of a  *)
(* name outlives its row.                                                  *)
(***************************************************************************)
Stage(r) == IF r.pc \in {"build", "publish"} THEN r.then ELSE r.pc

Cleared(p) ==
    LET n == req[p].name
    IN  /\ Stage(req[p]) \in {"apps", "supp", "mailbox", "row", "removed"} => OwnedBy(n) = {}
        /\ Stage(req[p]) \in {"supp", "mailbox", "row", "removed"} => apps[n] = {} /\ appsDisk[n] = {}
        /\ Stage(req[p]) \in {"row", "removed"} => mail[n] = {}

Owned ==
    /\ \A n \in Names : mail[n] \subseteq Own(n) /\ apps[n] \cup appsDisk[n] \subseteq Own(n)
    /\ \A m \in Masks : masks[m] # Gone => masks[m].life \in Own(masks[m].owner)

Deliveries ==
    /\ \A n \in Names : view.rows[n] # Gone /\ ~Removing(n) => view.rows[n].life \in Own(n)
    /\ \A f \in inflight : f.life \in Own(f.name) /\ ~Removing(f.name)

GhostInv(p) == Cleared(p) /\ Owned /\ Deliveries

LEMMA Written ==
  ASSUME TypeInv, MaxFaults = 0, NEW p \in Procs, NEW newRows, NEW n, NEW promise, NEW next,
         Persist(p, newRows, n, promise, next)
  PROVE  /\ rows' = newRows /\ disk' = newRows
         /\ UNCHANGED <<masks, masksDisk, apps, appsDisk, view>>
         /\ req'[p].pc = "build" /\ req'[p].then = next /\ req'[p].name = n
         /\ req'[p].promise = promise /\ req'[p].was = req[p].was
  <1>1. faults \in 0..0 /\ req \in [Procs -> Request] /\ req[p] \in Request
    BY DEF TypeInv, TypeOK
  <1>2. ~(faults < MaxFaults)
    BY <1>1
  <1>3. Publishes(p, n, promise, next) /\ disk' = newRows
    BY <1>2 DEF Persist
  <1>4. req'[p] = [req[p] EXCEPT !.pc = "build", !.then = next, !.name = n, !.promise = promise]
    BY <1>1, <1>3 DEF Publishes
  <1>5. /\ req'[p].pc = "build" /\ req'[p].then = next /\ req'[p].name = n
        /\ req'[p].promise = promise /\ req'[p].was = req[p].was
    BY <1>1, <1>4 DEF Request
  <1>6. QED
    BY <1>3, <1>5 DEF Persist

LEMMA WrittenMasks ==
  ASSUME TypeInv, MaxFaults = 0, NEW p \in Procs, NEW newMasks, NEW n, NEW next,
         PersistMasks(p, newMasks, n, next)
  PROVE  /\ masks' = newMasks /\ masksDisk' = newMasks
         /\ UNCHANGED <<rows, disk, apps, appsDisk, view, acked>>
         /\ req'[p].pc = "build" /\ req'[p].then = next /\ req'[p].name = n
         /\ req'[p].promise = Gone /\ req'[p].was = req[p].was
  <1>1. faults \in 0..0 /\ req \in [Procs -> Request] /\ req[p] \in Request
    BY DEF TypeInv, TypeOK
  <1>2. ~(faults < MaxFaults)
    BY <1>1
  <1>3. Publishes(p, n, Gone, next) /\ masksDisk' = newMasks
    BY <1>2 DEF PersistMasks
  <1>4. req'[p] = [req[p] EXCEPT !.pc = "build", !.then = next, !.name = n, !.promise = Gone]
    BY <1>1, <1>3 DEF Publishes
  <1>5. /\ req'[p].pc = "build" /\ req'[p].then = next /\ req'[p].name = n
        /\ req'[p].promise = Gone /\ req'[p].was = req[p].was
    BY <1>1, <1>4 DEF Request
  <1>6. QED
    BY <1>3, <1>5 DEF PersistMasks

\* The other ways a request moves on.
LEMMA Moved ==
  ASSUME TypeInv, NEW p \in Procs
  PROVE  /\ \A n, promise, next : Publishes(p, n, promise, next) =>
              /\ req'[p].pc = "build" /\ req'[p].then = next /\ req'[p].name = n
              /\ req'[p].promise = promise /\ req'[p].was = req[p].was
         /\ \A next : Continues(p, next) =>
              /\ req'[p].pc = next /\ req'[p].then = req[p].then /\ req'[p].name = req[p].name
              /\ req'[p].promise = req[p].promise /\ req'[p].was = req[p].was
         /\ Ends(p) => req'[p] = Idle
         /\ ~(faults < 0)
  <1>1. req \in [Procs -> Request] /\ req[p] \in Request /\ faults \in 0..MaxFaults /\ MaxFaults \in Nat
    BY StoreAssumption DEF TypeInv, TypeOK
  <1>2. ASSUME NEW n, NEW promise, NEW next, Publishes(p, n, promise, next)
        PROVE  /\ req'[p].pc = "build" /\ req'[p].then = next /\ req'[p].name = n
               /\ req'[p].promise = promise /\ req'[p].was = req[p].was
    <2>1. req'[p] = [req[p] EXCEPT !.pc = "build", !.then = next, !.name = n, !.promise = promise]
      BY <1>1, <1>2 DEF Publishes
    <2>2. QED
      BY <1>1, <2>1 DEF Request
  <1>3. ASSUME NEW next, Continues(p, next)
        PROVE  /\ req'[p].pc = next /\ req'[p].then = req[p].then /\ req'[p].name = req[p].name
               /\ req'[p].promise = req[p].promise /\ req'[p].was = req[p].was
    <2>1. req'[p] = [req[p] EXCEPT !.pc = next]
      BY <1>1, <1>3 DEF Continues
    <2>2. QED
      BY <1>1, <2>1 DEF Request
  <1>4. ASSUME Ends(p)
        PROVE  req'[p] = Idle
    BY <1>1, <1>4 DEF Ends
  <1>5. ~(faults < 0)
    BY <1>1
  <1>6. QED
    BY <1>2, <1>3, <1>4, <1>5

----------------------------------------------------------------------------
(* The invariant of one request at a time.                                 *)

\* A request about to build need not show anything yet.
LEMMA BuildsNext ==
  ASSUME NEW p \in Procs, req'[p].pc = "build", req'[p].then # "replace"
  PROVE  Shown(p)' /\ Resets(p)' /\ Rereads(p)'
  BY DEF Shown, Resets, Rereads

\* A step outside a publication that changes nothing the directory shows.
LEMMA StaysShown ==
  ASSUME NEW p \in Procs, SerialInv(p), UNCHANGED <<rows, masks, apps, view>>,
         req[p].pc \notin {"build", "publish"}, req'[p].pc \notin {"build", "publish"}
  PROVE  Shown(p)'
  <1>1. Seen(view)
    BY DEF SerialInv, Shown
  <1>2. Seen(view)'
    BY <1>1 DEF Seen, BuildDirectory, Exists
  <1>3. QED
    BY <1>2 DEF Shown

\* What the directory built from memory shows.
LEMMA BuiltShows ==
  ASSUME TypeOK
  PROVE  Seen(BuildDirectory)
  <1>1. \A n \in Names : Exists(n) => [rows[n] EXCEPT !.totp = rows[n].totp] = rows[n]
    <2> SUFFICES ASSUME NEW n \in Names, Exists(n) PROVE [rows[n] EXCEPT !.totp = rows[n].totp] = rows[n]
      OBVIOUS
    <2>1. rows[n] \in Row
      BY DEF TypeOK, Tables, Exists
    <2>2. QED
      BY <2>1 DEF Row
  <1>2. BuildDirectory.rows = rows /\ BuildDirectory.apps = apps
    BY DEF BuildDirectory
  <1>3. QED
    BY <1>1, <1>2 DEF Seen, Exists

SerialStep(p) == Files' /\ Shown(p)' /\ Resets(p)' /\ Rereads(p)'

LEMMA RowsSerial ==
  ASSUME NEW p \in Procs, SerialInv(p), MaxFaults = 0, NEW n \in Names
  PROVE  /\ \A pw \in Passwords \cup {NoPassword}, A \in SUBSET Addrs, off \in Flags :
               Add(p, n, pw, A, off) => SerialStep(p)
         /\ \A pw \in Passwords : SetPasswordHash(p, n, pw) => SerialStep(p)
         /\ \A off \in Flags : SetDisabled(p, n, off) => SerialStep(p)
         /\ \A on \in BOOLEAN : SetTotp(p, n, on) => SerialStep(p)
  <1>0. TypeInv /\ Files /\ rows \in [Names -> Row \cup {Gone}] /\ view \in Directory
    BY DEF SerialInv, TypeInv, TypeOK, Tables
  <1>1. ASSUME NEW newRows, NEW promise, Persist(p, newRows, n, promise, "idle")
        PROVE  SerialStep(p)
    BY <1>0, <1>1, Written, BuildsNext DEF Files, SerialStep
  <1>2. ASSUME NEW on \in BOOLEAN, SetTotp(p, n, on)
        PROVE  SerialStep(p)
    <2>0. req[p].pc = "idle" /\ rows[n] # Gone /\ rows[n] \in Row /\ req' = req
      BY <1>0, <1>2 DEF SetTotp, Starts, Exists
    <2>1. ~(faults < MaxFaults)
      BY <1>0, Moved
    <2>2. /\ rows' = [rows EXCEPT ![n].totp = on] /\ disk' = rows'
          /\ UNCHANGED <<masks, masksDisk, apps, view>>
      BY <1>2, <2>1 DEF SetTotp
    <2>3. Files'
      BY <1>0, <2>2 DEF Files
    <2>4. Seen(view)
      BY <2>0 DEF SerialInv, Shown
    <2>5. ASSUME NEW k \in Names
          PROVE  /\ view.rows[k] = Gone <=> rows'[k] = Gone
                 /\ rows'[k] # Gone => [view.rows[k] EXCEPT !.totp = rows'[k].totp] = rows'[k]
      <3>1. CASE k # n
        BY <1>0, <2>2, <2>4, <3>1 DEF Seen, Exists
      <3>2. CASE k = n
        <4>1. rows'[n] = [rows[n] EXCEPT !.totp = on] /\ rows'[n].totp = on
          BY <1>0, <2>0, <2>2 DEF Row
        <4>2. view.rows[n] # Gone /\ [view.rows[n] EXCEPT !.totp = rows[n].totp] = rows[n]
          BY <2>0, <2>4 DEF Seen, Exists
        <4>3. view.rows[n] \in Row
          BY <1>0, <4>2 DEF Directory
        <4>4. [view.rows[n] EXCEPT !.totp = on] = rows'[n]
          BY <2>0, <4>1, <4>2, <4>3 DEF Row
        <4>5. rows'[n] # Gone
          <5>1. rows'[n] \in Row
            BY <2>0, <4>1 DEF Row
          <5>2. QED
            BY <5>1, GoneAssumption
        <4>6. QED
          BY <3>2, <4>1, <4>2, <4>4, <4>5
      <3>3. QED
        BY <3>1, <3>2
    <2>6. Seen(view)'
      BY <2>2, <2>4, <2>5 DEF Seen, Exists, BuildDirectory
    <2>7. Shown(p)' /\ Resets(p)' /\ Rereads(p)'
      BY <2>0, <2>6 DEF SerialInv, Shown, Resets, Rereads, Idle
    <2>8. QED
      BY <2>3, <2>7 DEF SerialStep
  <1>3. QED
    BY <1>1, <1>2 DEF Add, SetPasswordHash, SetDisabled

LEMMA PutSerial ==
  ASSUME NEW p \in Procs, SerialInv(p), MaxFaults = 0
  PROVE  /\ \A n \in Names : PutUser(p, n) => SerialStep(p)
         /\ \A n \in Names, pw \in PutPasswords : PutPassword(p, n, pw) => SerialStep(p)
         /\ \A A \in (SUBSET Addrs) \ {{}}, off \in Flags : ReplaceAccount(p, A, off) => SerialStep(p)
  <1>0. /\ TypeInv /\ Files /\ rows \in [Names -> Row \cup {Gone}]
        /\ req[p] \in Request /\ req \in [Procs -> Request]
    BY DEF SerialInv, TypeInv, TypeOK, Tables
  <1>1. ASSUME NEW n \in Names, PutUser(p, n)
        PROVE  SerialStep(p)
    <2>1. /\ req[p].pc = "idle" /\ req[p].then = "idle" /\ Exists(n)
          /\ UNCHANGED <<rows, disk, masks, masksDisk, apps, view>>
      BY <1>1 DEF PutUser, Starts, stored, SerialInv, Resets, Idle
    <2>2. req'[p] = [req[p] EXCEPT !.pc = "replace", !.name = n, !.was = rows[n]]
      BY <1>0, <1>1 DEF PutUser
    <2>3. /\ req'[p].pc = "replace" /\ req'[p].then = "idle" /\ req'[p].name = n
          /\ req'[p].was = rows[n]
      BY <1>0, <2>1, <2>2 DEF Request
    <2>4. Shown(p)'
      BY <2>1, <2>3, StaysShown
    <2>5. Files' /\ Resets(p)' /\ Rereads(p)'
      BY <1>0, <2>1, <2>3 DEF Files, Resets, Rereads, Exists
    <2>6. QED
      BY <2>4, <2>5 DEF SerialStep
  <1>2. ASSUME NEW n \in Names, NEW pw \in PutPasswords, PutPassword(p, n, pw)
        PROVE  SerialStep(p)
    <2>1. ~(faults < MaxFaults)
      BY <1>0, Moved
    <2>2. /\ rows' = [rows EXCEPT ![n].pw = pw] /\ disk' = rows' /\ UNCHANGED <<masks, masksDisk>>
          /\ req' = [req EXCEPT ![p] = [@ EXCEPT !.pc = "build", !.then = "replace",
                                !.name = n, !.promise = pw, !.was = rows[n]]]
      BY <1>2, <2>1 DEF PutPassword
    <2>3. req'[p] = [req[p] EXCEPT !.pc = "build", !.then = "replace", !.name = n, !.promise = pw, !.was = rows[n]]
      BY <1>0, <2>2
    <2>4. req'[p].pc = "build" /\ req'[p].then = "replace" /\ req'[p].name = n /\ req'[p].was = rows[n]
      BY <1>0, <2>3 DEF Request
    <2>5. rows[n] \in Row /\ rows'[n] = [rows[n] EXCEPT !.pw = pw]
      BY <1>0, <1>2, <2>2 DEF PutPassword, Exists
    <2>6. rows'[n].life = rows[n].life
      BY <2>5 DEF Row
    <2>7. rows'[n] # Gone
      <3>1. pw \in Passwords
        BY StoreAssumption
      <3>2. rows'[n] \in Row
        BY <2>5, <3>1 DEF Row
      <3>3. QED
        BY <3>2, GoneAssumption
    <2>8. Rereads(p)'
      BY <2>4, <2>6, <2>7 DEF Rereads, Exists
    <2>9. Files' /\ Shown(p)' /\ Resets(p)'
      BY <1>0, <2>2, <2>4 DEF Files, Shown, Resets
    <2>10. QED
      BY <2>8, <2>9 DEF SerialStep
  <1>3. ASSUME NEW A \in (SUBSET Addrs) \ {{}}, NEW off \in Flags, ReplaceAccount(p, A, off)
        PROVE  SerialStep(p)
    <2>1. ASSUME NEW newRows, Persist(p, newRows, req[p].name, req[p].promise, "idle")
          PROVE  SerialStep(p)
      BY <1>0, <2>1, Written, BuildsNext DEF Files, SerialStep
    <2>2. CASE Ends(p) /\ UNCHANGED <<stored, view, faults, crashes>>
      <3>1. req'[p] = Idle /\ req[p].pc = "replace" /\ UNCHANGED <<rows, disk, masks, masksDisk, apps, view>>
        BY <1>0, <1>3, <2>2, Moved DEF ReplaceAccount, stored
      <3>2. Shown(p)'
        BY <3>1, StaysShown DEF Idle
      <3>3. QED
        BY <1>0, <3>1, <3>2 DEF Files, Resets, Rereads, Idle, SerialStep
    <2>3. QED
      BY <1>3, <2>1, <2>2 DEF ReplaceAccount
  <1>4. QED
    BY <1>1, <1>2, <1>3

LEMMA PublishSerial ==
  ASSUME NEW p \in Procs, SerialInv(p), MaxFaults = 0
  PROVE  /\ BuildStep(p) => SerialStep(p)
         /\ PublishStep(p) => SerialStep(p)
         /\ Refresh(p) => SerialStep(p)
  <1>0. /\ TypeInv /\ TypeOK /\ Files /\ Shown(p) /\ Rereads(p) /\ Holds(req[p])
        /\ req[p] \in Request /\ req \in [Procs -> Request]
    BY DEF SerialInv, TypeInv, TypeOK, RequestsHold
  <1>1. ASSUME BuildStep(p)
        PROVE  SerialStep(p)
    <2>1. UNCHANGED <<rows, disk, masks, masksDisk, apps, view>>
      BY <1>1 DEF BuildStep, stored
    <2>2. req'[p] = [req[p] EXCEPT !.pc = "publish", !.built = BuildDirectory] /\ req[p].pc = "build"
      BY <1>0, <1>1 DEF BuildStep
    <2>3. /\ req'[p].pc = "publish" /\ req'[p].built = BuildDirectory /\ req'[p].then = req[p].then
          /\ req'[p].name = req[p].name /\ req'[p].was = req[p].was
      BY <1>0, <2>2 DEF Request
    <2>4. Seen(BuildDirectory)
      BY <1>0, BuiltShows
    <2>5. BuildDirectory' = BuildDirectory
      BY <2>1 DEF BuildDirectory
    <2>6. Shown(p)'
      BY <2>1, <2>3, <2>4, <2>5 DEF Shown, Seen, Exists
    <2>7. Rereads(p)'
      BY <1>0, <2>1, <2>2, <2>3 DEF Rereads, Exists
    <2>8. QED
      BY <1>0, <2>1, <2>3, <2>6, <2>7 DEF Files, Resets, SerialStep
  <1>2. ASSUME PublishStep(p)
        PROVE  SerialStep(p)
    <2>1. /\ UNCHANGED <<rows, disk, masks, masksDisk, apps>> /\ view' = req[p].built
          /\ req[p].pc = "publish"
      BY <1>2 DEF PublishStep, stored
    <2>2. Seen(req[p].built)
      BY <1>0, <2>1 DEF Shown
    <2>3. BuildDirectory' = BuildDirectory
      BY <2>1 DEF BuildDirectory
    <2>4. Seen(view)'
      BY <2>1, <2>2, <2>3 DEF Seen, Exists
    <2>5. Resets(p)' /\ Rereads(p)' /\ req'[p].pc # "publish"
      <3>1. CASE req[p].then \in {"idle", "removed"}
        <4>1. req'[p] = Idle
          BY <1>0, <1>2, <3>1, Moved DEF PublishStep
        <4>2. QED
          BY <4>1 DEF Idle, Resets, Rereads
      <3>2. CASE req[p].then \notin {"idle", "removed"}
        <4>1. req'[p] = [req[p] EXCEPT !.pc = req[p].then, !.then = "idle", !.built = Gone]
          BY <1>0, <1>2, <3>2 DEF PublishStep
        <4>2. /\ req'[p].pc = req[p].then /\ req'[p].then = "idle" /\ req'[p].name = req[p].name
              /\ req'[p].was = req[p].was
          BY <1>0, <4>1 DEF Request
        <4>3. Rereads(p)'
          BY <1>0, <2>1, <4>2 DEF Rereads, Exists
        <4>4. QED
          BY <1>0, <3>2, <4>2, <4>3 DEF Holds, Resets
      <3>3. QED
        BY <3>1, <3>2
    <2>6. Shown(p)'
      BY <2>4, <2>5 DEF Shown
    <2>7. QED
      BY <1>0, <2>1, <2>5, <2>6 DEF Files, SerialStep
  <1>3. ASSUME Refresh(p)
        PROVE  SerialStep(p)
    <2>1. /\ UNCHANGED <<rows, disk, masks, masksDisk, apps, view>> /\ Continues(p, "build")
          /\ req[p].then = "idle"
      BY <1>3 DEF Refresh, Continues, Starts, stored, SerialInv, Resets, Idle
    <2>2. req'[p].pc = "build" /\ req'[p].then = "idle"
      BY <1>0, <2>1, Moved
    <2>3. QED
      BY <1>0, <2>1, <2>2, BuildsNext DEF Files, SerialStep
  <1>4. QED
    BY <1>1, <1>2, <1>3

LEMMA MasksSerial ==
  ASSUME NEW p \in Procs, SerialInv(p), MaxFaults = 0
  PROVE  /\ \A n \in Names, m \in Masks : AddMasked(p, n, m) \/ RemoveMasked(p, n, m) => SerialStep(p)
         /\ \A n \in Names, m \in Masks, on \in BOOLEAN : SetMaskedEnabled(p, n, m, on) => SerialStep(p)
         /\ RemoveMasks(p) => SerialStep(p)
  <1>0. TypeInv /\ Files
    BY DEF SerialInv
  <1>1. ASSUME NEW newMasks, NEW n, NEW next, next # "replace", PersistMasks(p, newMasks, n, next)
        PROVE  SerialStep(p)
    BY <1>0, <1>1, WrittenMasks, BuildsNext DEF Files, SerialStep
  <1>2. ASSUME NEW n \in Names, NEW m \in Masks, AddMasked(p, n, m) \/ RemoveMasked(p, n, m)
        PROVE  SerialStep(p)
    BY <1>1, <1>2 DEF AddMasked, RemoveMasked
  <1>3. ASSUME NEW n \in Names, NEW m \in Masks, NEW on \in BOOLEAN, SetMaskedEnabled(p, n, m, on)
        PROVE  SerialStep(p)
    <2>1. CASE masks[m].on = on
      <3>1. Publishes(p, n, Gone, "idle") /\ UNCHANGED <<rows, disk, masks, masksDisk>>
        BY <1>3, <2>1 DEF SetMaskedEnabled, stored
      <3>2. QED
        BY <1>0, <3>1, Moved, BuildsNext DEF Files, SerialStep
    <2>2. CASE masks[m].on # on
      BY <1>1, <1>3, <2>2 DEF SetMaskedEnabled
    <2>3. QED
      BY <2>1, <2>2
  <1>4. ASSUME RemoveMasks(p)
        PROVE  SerialStep(p)
    <2>1. CASE OwnedBy(req[p].name) = {}
      <3>1. /\ Continues(p, "apps") /\ UNCHANGED <<rows, disk, masks, masksDisk, apps, view>>
            /\ req[p].pc = "masks"
        BY <1>4, <2>1 DEF RemoveMasks, stored
      <3>2. /\ req'[p].pc = "apps" /\ req'[p].then = req[p].then /\ req'[p].name = req[p].name
            /\ req'[p].was = req[p].was
        BY <1>0, <3>1, Moved
      <3>i. req[p].then = "idle"
        BY <3>1 DEF SerialInv, Resets
      <3>3. Shown(p)' /\ Resets(p)' /\ Files'
        BY <1>0, <3>1, <3>2, <3>i, StaysShown DEF Resets, Files
      <3>4. Rereads(p)'
        BY <3>1, <3>2 DEF SerialInv, Rereads, Exists
      <3>5. QED
        BY <3>3, <3>4 DEF SerialStep
    <2>2. CASE OwnedBy(req[p].name) # {}
      BY <1>1, <1>4, <2>2 DEF RemoveMasks
    <2>3. QED
      BY <2>1, <2>2
  <1>5. QED
    BY <1>2, <1>3, <1>4

LEMMA RemovalSerial ==
  ASSUME NEW p \in Procs, SerialInv(p), MaxFaults = 0
  PROVE  /\ \A n \in Names, discard \in BOOLEAN : RemoveAccount(p, n, discard) => SerialStep(p)
         /\ RemoveApps(p) => SerialStep(p)
         /\ RemoveSuppression(p) => SerialStep(p)
         /\ RemoveMailbox(p) => SerialStep(p)
         /\ RemoveRow(p) => SerialStep(p)
  <1>0. /\ TypeInv /\ Files /\ Rereads(p) /\ ~(faults < MaxFaults)
        /\ req[p] \in Request /\ req \in [Procs -> Request]
    BY Moved DEF SerialInv, TypeInv, TypeOK
  <1>1. ASSUME NEW n \in Names, NEW discard \in BOOLEAN, RemoveAccount(p, n, discard)
        PROVE  SerialStep(p)
    <2>1. /\ req[p].pc = "idle" /\ req[p].then = "idle"
          /\ UNCHANGED <<rows, disk, masks, masksDisk, apps, view>>
      BY <1>1 DEF RemoveAccount, Starts, stored, SerialInv, Resets, Idle
    <2>2. req'[p] = [req[p] EXCEPT !.pc = "masks", !.name = n]
      BY <1>0, <1>1 DEF RemoveAccount
    <2>3. req'[p].pc = "masks" /\ req'[p].then = "idle"
      BY <1>0, <2>1, <2>2 DEF Request
    <2>4. QED
      BY <1>0, <2>1, <2>3, StaysShown DEF Files, Resets, Rereads, SerialStep
  <1>2. ASSUME RemoveApps(p)
        PROVE  SerialStep(p)
    <2>1. Publishes(p, req[p].name, Gone, "supp") /\ UNCHANGED <<rows, disk, masks, masksDisk>>
      BY <1>0, <1>2 DEF RemoveApps
    <2>2. QED
      BY <1>0, <2>1, Moved, BuildsNext DEF Files, SerialStep
  <1>3. ASSUME RemoveSuppression(p) \/ RemoveMailbox(p)
        PROVE  SerialStep(p)
    <2>1. /\ UNCHANGED <<rows, disk, masks, masksDisk, apps, view>>
          /\ req[p].pc \in {"supp", "mailbox"}
          /\ Continues(p, "mailbox") \/ Continues(p, "row")
      BY <1>0, <1>3 DEF RemoveSuppression, RemoveMailbox, FailsUnchanged, stored
    <2>2. /\ req'[p].pc \in {"mailbox", "row"} /\ req'[p].then = req[p].then
          /\ req'[p].name = req[p].name /\ req'[p].was = req[p].was
      BY <1>0, <2>1, Moved
    <2>i. req[p].then = "idle"
      BY <2>1 DEF SerialInv, Resets
    <2>3. Shown(p)' /\ Resets(p)' /\ Files'
      BY <1>0, <2>1, <2>2, <2>i, StaysShown DEF Resets, Files
    <2>4. Rereads(p)'
      BY <1>0, <2>1, <2>2 DEF Rereads, Exists
    <2>5. QED
      BY <2>3, <2>4 DEF SerialStep
  <1>4. ASSUME RemoveRow(p)
        PROVE  SerialStep(p)
    <2>1. CASE Exists(req[p].name)
      <3>1. Persist(p, [rows EXCEPT ![req[p].name] = Gone], req[p].name, Gone, "removed")
        BY <1>4, <2>1 DEF RemoveRow
      <3>2. UNCHANGED <<masks, masksDisk>> /\ disk' = rows' /\ req'[p].pc = "build" /\ req'[p].then = "removed"
        BY <1>0, <3>1, Written
      <3>3. QED
        BY <1>0, <3>2, BuildsNext DEF Files, SerialStep
    <2>2. CASE ~Exists(req[p].name)
      <3>1. Ends(p) /\ UNCHANGED <<rows, disk, masks, masksDisk, apps, view>> /\ req[p].pc = "row"
        BY <1>4, <2>2 DEF RemoveRow, stored
      <3>2. req'[p] = Idle
        BY <1>0, <3>1, Moved
      <3>3. Shown(p)'
        BY <3>1, <3>2, StaysShown DEF Idle
      <3>4. QED
        BY <1>0, <3>1, <3>2, <3>3 DEF Files, Resets, Rereads, Idle, SerialStep
    <2>3. QED
      BY <2>1, <2>2
  <1>5. QED
    BY <1>1, <1>2, <1>3, <1>4

LEMMA EnvironmentSerial ==
  ASSUME NEW p \in Procs, SerialInv(p), Environment
  PROVE  SerialStep(p)
  <1>1. CASE Crash
    <2>1. /\ req'[p] = Idle /\ view' = BuildDirectory'
          /\ rows' = disk /\ masks' = masksDisk /\ UNCHANGED <<disk, masksDisk>>
      BY <1>1 DEF Crash
    <2>2. TypeInv'
      BY <1>1, CrashTyped DEF SerialInv
    <2>3. TypeOK'
      BY <2>2 DEF TypeInv
    <2>4. Seen(BuildDirectory)'
      BY <2>3, BuiltShows, PTL
    <2>5. Seen(view)'
      BY <2>1, <2>4 DEF Seen
    <2>6. QED
      BY <2>1, <2>5 DEF Shown, Resets, Rereads, Files, Idle, SerialStep
  <1>2. CASE UNCHANGED <<rows, disk, masks, masksDisk, apps, view, req>>
    <2>1. Shown(p)'
      BY <1>2 DEF SerialInv, Shown, Seen, BuildDirectory, Exists
    <2>2. QED
      BY <1>2, <2>1 DEF SerialInv, Resets, Rereads, Files, Exists, Idle, SerialStep
  <1>3. Crash \/ UNCHANGED <<rows, disk, masks, masksDisk, apps, view, req>>
    BY DEF Environment, Resolve, CliAdd, CliRevoke, Submit, SuppressFor, Deposit, stored
  <1>4. QED
    BY <1>1, <1>2, <1>3

LEMMA RequestSerial ==
  ASSUME NEW p \in Procs, SerialInv(p), MaxFaults = 0, RequestStep(p)
  PROVE  SerialStep(p)
  BY RowsSerial, PutSerial, PublishSerial, MasksSerial, RemovalSerial DEF RequestStep

LEMMA StartSerial ==
  ASSUME NEW p \in Procs, Init
  PROVE  SerialInv(p)
  <1>1. TypeInv
    BY StartTyped
  <1>2. TypeOK
    BY <1>1 DEF TypeInv
  <1>3. req[p] = Idle /\ view = BuildDirectory
    BY DEF Init
  <1>4. Seen(view)
    BY <1>2, <1>3, BuiltShows
  <1>5. QED
    BY <1>1, <1>3, <1>4 DEF Init, SerialInv, Files, Shown, Resets, Rereads, Idle

LEMMA StepSerial ==
  ASSUME NEW p, Procs = {p}, MaxFaults = 0, SerialInv(p), [Next]_vars
  PROVE  SerialInv(p)'
  <1>0. p \in Procs
    OBVIOUS
  <1>1. TypeInv'
    BY StepTyped DEF SerialInv
  <1>2. ASSUME NEW q \in Procs, RequestStep(q)
        PROVE  SerialStep(p)
    BY <1>0, <1>2, RequestSerial
  <1>3. ASSUME Environment
        PROVE  SerialStep(p)
    BY <1>0, <1>3, EnvironmentSerial
  <1>4. ASSUME UNCHANGED vars
        PROVE  SerialStep(p)
    <2>1. UNCHANGED <<rows, disk, masks, masksDisk, apps, view, req>>
      BY <1>4 DEF vars, stored
    <2>2. Shown(p)'
      BY <2>1 DEF SerialInv, Shown, Seen, BuildDirectory, Exists
    <2>3. QED
      BY <2>1, <2>2 DEF SerialInv, Resets, Rereads, Files, Exists, Idle, SerialStep
  <1>5. SerialStep(p)
    BY <1>2, <1>3, <1>4 DEF Next
  <1>6. QED
    BY <1>1, <1>5 DEF SerialInv, SerialStep

\* While requests come one at a time and files can be written, the servers see
\* what memory holds whenever no request runs, also across restarts: every
\* mutator publishes what it changed.
THEOREM Current ==
  ASSUME NEW p, Procs = {p}, MaxFaults = 0
  PROVE  Spec => []PublishedCurrent
  <1>1. Init => SerialInv(p)
    BY StartSerial
  <1>2. SerialInv(p) /\ [Next]_vars => SerialInv(p)'
    BY StepSerial
  <1>3. SerialInv(p) => PublishedCurrent
    BY DEF SerialInv, Shown, Seen, PublishedCurrent, Resting
  <1>4. QED
    BY <1>1, <1>2, <1>3, PTL DEF Spec

----------------------------------------------------------------------------
(* Passwords.                                                              *)

PasswordInv(p) == SerialInv(p) /\ Promised(p)
AckedKept == \A n \in Names : acked[n] # Gone => rows[n] # Gone /\ rows[n].pw = acked[n]

LEMMA NothingPromised ==
  ASSUME NEW p \in Procs, AckedKept', req'[p].promise = Gone, req'[p].then # "replace"
  PROVE  Promised(p)'
  BY DEF Promised, AckedKept, Exists

\* A row is rewritten with its own password, or no answer vouches for it any more.
LEMMA AckedAfter ==
  ASSUME TypeOK, AckedKept, NEW n \in Names, NEW row \in Row,
         rows' = [rows EXCEPT ![n] = row],
         \/ acked' = [acked EXCEPT ![n] = Gone]
         \/ acked' = acked /\ row.pw = rows[n].pw
  PROVE  AckedKept' /\ rows'[n] = row /\ row # Gone
  <1>1. rows \in [Names -> Row \cup {Gone}] /\ acked \in [Names -> Passwords \cup {NoPassword, Gone}]
    BY DEF TypeOK, Tables
  <1>2. row # Gone
    BY GoneAssumption
  <1>3. \A k \in Names : rows'[k] = IF k = n THEN row ELSE rows[k]
    BY <1>1
  <1>4. ASSUME NEW k \in Names, acked'[k] # Gone
        PROVE  rows'[k] # Gone /\ rows'[k].pw = acked'[k]
    <2>1. CASE k # n
      <3>1. acked'[k] = acked[k]
        BY <1>1, <2>1
      <3>2. QED
        BY <1>3, <1>4, <2>1, <3>1 DEF AckedKept
    <2>2. CASE k = n
      <3>1. acked' = acked /\ row.pw = rows[n].pw
        BY <1>1, <1>4, <2>2
      <3>2. QED
        BY <1>2, <1>3, <1>4, <2>2, <3>1 DEF AckedKept
    <2>3. QED
      BY <2>1, <2>2
  <1>5. QED
    BY <1>2, <1>3, <1>4 DEF AckedKept

LEMMA RequestHonours ==
  ASSUME NEW p \in Procs, PasswordInv(p), MaxFaults = 0, PutPasswords = {}, RequestStep(p)
  PROVE  Promised(p)'
  <1>0. /\ SerialInv(p) /\ TypeInv /\ TypeOK /\ Files /\ AckedKept /\ Rereads(p) /\ Holds(req[p])
        /\ req[p].then # "replace" /\ ~(faults < MaxFaults)
        /\ req[p] \in Request /\ req \in [Procs -> Request]
        /\ rows \in [Names -> Row \cup {Gone}] /\ Flags \subseteq BOOLEAN
    BY Moved, StoreAssumption
       DEF PasswordInv, SerialInv, TypeInv, TypeOK, RequestsHold, Tables, Promised, AckedKept, Exists
  <1>t. TypeInv
    BY <1>0
  <1>i. ASSUME req[p].pc = "idle"
        PROVE  req[p] = Idle /\ req[p].promise = Gone /\ req[p].then = "idle"
    BY <1>0, <1>i DEF SerialInv, Resets, Idle
  <1>p. ASSUME req[p].pc \notin {"build", "publish"}
        PROVE  req[p].promise = Gone
    BY <1>p DEF PasswordInv, Promised
  <1>w. ASSUME NEW n \in Names, NEW row \in Row, NEW promise, Persist(p, [rows EXCEPT ![n] = row], n, promise, "idle"),
               promise = row.pw \/ promise = Gone,
               \/ acked' = [acked EXCEPT ![n] = Gone]
               \/ acked' = acked /\ row.pw = rows[n].pw
        PROVE  Promised(p)'
    <2>1. /\ rows' = [rows EXCEPT ![n] = row] /\ req'[p].pc = "build" /\ req'[p].then = "idle"
          /\ req'[p].name = n /\ req'[p].promise = promise
      BY <1>t, <1>w, Written
    <2>2. AckedKept' /\ rows'[n] = row /\ row # Gone
      BY <1>0, <1>w, <2>1, AckedAfter
    <2>3. CASE promise = Gone
      BY <2>1, <2>2, <2>3, NothingPromised
    <2>4. CASE promise = row.pw
      BY <2>1, <2>2, <2>4 DEF Promised, AckedKept, Exists
    <2>5. QED
      BY <1>w, <2>3, <2>4
  <1>u. ASSUME UNCHANGED <<rows, acked>>
        PROVE  AckedKept'
    BY <1>0, <1>u DEF AckedKept
  <1>1. ASSUME NEW n \in Names, NEW pw \in Passwords \cup {NoPassword}, NEW A \in SUBSET Addrs,
               NEW off \in Flags, Add(p, n, pw, A, off)
        PROVE  Promised(p)'
    <2> DEFINE row == [addrs |-> A, pw |-> pw, totp |-> FALSE, off |-> off, life |-> born[n] + 1]
    <2>1. born[n] + 1 \in Lives
      BY <1>0, <1>1, StoreAssumption DEF Add, TypeOK, Lives
    <2>2. row \in Row /\ row.pw = pw
      BY <1>0, <2>1 DEF Row
    <2>3. Persist(p, [rows EXCEPT ![n] = row], n, pw, "idle") /\ acked' = [acked EXCEPT ![n] = Gone]
      BY <1>1 DEF Add
    <2> HIDE DEF row
    <2>4. QED
      BY <1>w, <2>2, <2>3
  <1>2. ASSUME NEW n \in Names, NEW pw \in Passwords, SetPasswordHash(p, n, pw)
        PROVE  Promised(p)'
    <2> DEFINE row == [rows[n] EXCEPT !.pw = pw]
    <2>1. rows[n] \in Row
      BY <1>0, <1>2 DEF SetPasswordHash, Exists
    <2>2. row \in Row /\ row.pw = pw
      BY <2>1 DEF Row
    <2>3. Persist(p, [rows EXCEPT ![n] = row], n, pw, "idle") /\ acked' = [acked EXCEPT ![n] = Gone]
      BY <1>0, <1>2 DEF SetPasswordHash
    <2> HIDE DEF row
    <2>4. QED
      BY <1>w, <2>2, <2>3
  <1>3. ASSUME NEW n \in Names, NEW off \in Flags, SetDisabled(p, n, off)
        PROVE  Promised(p)'
    <2> DEFINE row == [rows[n] EXCEPT !.off = off]
    <2>1. rows[n] \in Row
      BY <1>0, <1>3 DEF SetDisabled, Exists
    <2>2. row \in Row /\ row.pw = rows[n].pw
      BY <1>0, <2>1 DEF Row
    <2>3. Persist(p, [rows EXCEPT ![n] = row], n, Gone, "idle") /\ acked' = acked
      BY <1>0, <1>3 DEF SetDisabled
    <2> HIDE DEF row
    <2>4. QED
      BY <1>w, <2>2, <2>3
  <1>4. ASSUME NEW n \in Names, NEW on \in BOOLEAN, SetTotp(p, n, on)
        PROVE  Promised(p)'
    <2> DEFINE row == [rows[n] EXCEPT !.totp = on]
    <2>1. rows[n] \in Row
      BY <1>0, <1>4 DEF SetTotp, Exists
    <2>2. row \in Row /\ row.pw = rows[n].pw
      BY <2>1 DEF Row
    <2>3. rows' = [rows EXCEPT ![n] = row] /\ acked' = acked /\ req' = req /\ req[p].pc = "idle"
      BY <1>0, <1>4 DEF SetTotp, Starts
    <2> HIDE DEF row
    <2>4. AckedKept'
      BY <1>0, <2>2, <2>3, AckedAfter
    <2>5. QED
      BY <1>0, <1>i, <2>3, <2>4, NothingPromised
  <1>5. ASSUME NEW n \in Names, PutUser(p, n)
        PROVE  Promised(p)'
    <2>1. req'[p] = [req[p] EXCEPT !.pc = "replace", !.name = n, !.was = rows[n]]
      BY <1>0, <1>5 DEF PutUser
    <2>2. req'[p].promise = req[p].promise /\ req'[p].then = req[p].then
      BY <1>0, <2>1 DEF Request
    <2>3. UNCHANGED <<rows, acked>> /\ req[p].pc = "idle"
      BY <1>5 DEF PutUser, stored, Starts
    <2>4. QED
      BY <1>0, <1>i, <1>u, <2>2, <2>3, NothingPromised
  <1>6. ASSUME NEW A \in (SUBSET Addrs) \ {{}}, NEW off \in Flags, ReplaceAccount(p, A, off)
        PROVE  Promised(p)'
    <2> DEFINE n == req[p].name
               row == [req[p].was EXCEPT !.addrs = A, !.off = off]
    <2>0. req[p].pc = "replace" /\ req[p].promise = Gone /\ acked' = acked
      BY <1>6, <1>p DEF ReplaceAccount
    <2>1. n \in Names /\ req[p].was \in Row /\ req[p].was = rows[n]
      BY <1>0, <2>0 DEF Holds, Walking, Rereads
    <2>2. row \in Row /\ row.pw = rows[n].pw
      BY <1>0, <2>1 DEF Row
    <2>3. CASE Persist(p, [rows EXCEPT ![n] = row], n, req[p].promise, "idle")
      <3> HIDE DEF row, n
      <3>1. QED
        BY <1>w, <2>0, <2>1, <2>2, <2>3
    <2>4. CASE Ends(p) /\ UNCHANGED <<stored, view, faults, crashes>>
      <3>1. req'[p] = Idle /\ UNCHANGED <<rows, acked>>
        BY <1>0, <2>0, <2>4, Moved DEF stored
      <3>2. QED
        BY <1>u, <3>1, NothingPromised DEF Idle
    <2>5. QED
      BY <1>6, <2>3, <2>4 DEF ReplaceAccount
  <1>7. ASSUME BuildStep(p)
        PROVE  Promised(p)'
    <2>1. req'[p] = [req[p] EXCEPT !.pc = "publish", !.built = BuildDirectory]
      BY <1>0, <1>7 DEF BuildStep
    <2>2. /\ req'[p].pc = "publish" /\ req'[p].promise = req[p].promise
          /\ req'[p].then = req[p].then /\ req'[p].name = req[p].name
      BY <1>0, <2>1 DEF Request
    <2>3. UNCHANGED <<rows, acked>>
      BY <1>7 DEF BuildStep, stored
    <2>4. QED
      BY <2>2, <2>3 DEF PasswordInv, Promised, Exists
  <1>8. ASSUME PublishStep(p)
        PROVE  Promised(p)'
    <2>1. rows' = rows /\ acked \in [Names -> Passwords \cup {NoPassword, Gone}]
      BY <1>0, <1>8 DEF PublishStep, stored, TypeOK
    <2>2. CASE req[p].promise = Gone
      <3>1. acked' = acked
        BY <1>8, <2>2 DEF PublishStep
      <3>2. req'[p].promise = Gone /\ req'[p].then = "idle"
        <4>1. CASE req[p].then \in {"idle", "removed"}
          <5>1. req'[p] = Idle
            BY <1>0, <1>8, <4>1, Moved DEF PublishStep
          <5>2. QED
            BY <5>1 DEF Idle
        <4>2. CASE req[p].then \notin {"idle", "removed"}
          <5>1. req'[p] = [req[p] EXCEPT !.pc = req[p].then, !.then = "idle", !.built = Gone]
            BY <1>0, <1>8, <4>2 DEF PublishStep
          <5>2. QED
            BY <1>0, <2>2, <5>1 DEF Request
        <4>3. QED
          BY <4>1, <4>2
      <3>3. QED
        BY <1>u, <2>1, <3>1, <3>2, NothingPromised
    <2>3. CASE req[p].promise # Gone
      <3>1. /\ req[p].then = "idle" /\ req[p].name \in Names
            /\ rows[req[p].name] # Gone /\ rows[req[p].name].pw = req[p].promise
        BY <2>3 DEF PasswordInv, Promised, Exists
      <3>2. acked' = [acked EXCEPT ![req[p].name] = req[p].promise] /\ Ends(p)
        BY <1>8, <2>3, <3>1 DEF PublishStep
      <3>3. \A k \in Names : acked'[k] = IF k = req[p].name THEN req[p].promise ELSE acked[k]
        BY <2>1, <3>2
      <3>4. AckedKept'
        BY <1>0, <2>1, <3>1, <3>3 DEF AckedKept
      <3>5. req'[p] = Idle
        BY <1>0, <3>2, Moved
      <3>6. QED
        BY <3>4, <3>5, NothingPromised DEF Idle
    <2>4. QED
      BY <2>2, <2>3
  <1>9. ASSUME Refresh(p)
        PROVE  Promised(p)'
    <2>1. UNCHANGED <<rows, acked>> /\ Continues(p, "build") /\ req[p].pc = "idle"
      BY <1>9 DEF Refresh, Continues, Starts, stored
    <2>2. QED
      BY <1>0, <1>i, <1>u, <2>1, Moved, NothingPromised
  <1>10. ASSUME NEW newMasks, NEW n, NEW next, next # "replace", PersistMasks(p, newMasks, n, next)
         PROVE  Promised(p)'
    BY <1>0, <1>u, <1>10, WrittenMasks, NothingPromised
  <1>11. ASSUME NEW n \in Names, NEW m \in Masks, AddMasked(p, n, m) \/ RemoveMasked(p, n, m)
         PROVE  Promised(p)'
    BY <1>10, <1>11 DEF AddMasked, RemoveMasked
  <1>12. ASSUME NEW n \in Names, NEW m \in Masks, NEW on \in BOOLEAN, SetMaskedEnabled(p, n, m, on)
         PROVE  Promised(p)'
    <2>1. CASE masks[m].on = on
      <3>1. Publishes(p, n, Gone, "idle") /\ UNCHANGED <<rows, acked>>
        BY <1>12, <2>1 DEF SetMaskedEnabled, stored
      <3>2. QED
        BY <1>0, <1>u, <3>1, Moved, NothingPromised
    <2>2. CASE masks[m].on # on
      BY <1>10, <1>12, <2>2 DEF SetMaskedEnabled
    <2>3. QED
      BY <2>1, <2>2
  <1>13. ASSUME RemoveMasks(p)
         PROVE  Promised(p)'
    <2>1. CASE OwnedBy(req[p].name) = {}
      <3>1. Continues(p, "apps") /\ UNCHANGED <<rows, acked>> /\ req[p].pc = "masks"
        BY <1>13, <2>1 DEF RemoveMasks, stored
      <3>2. QED
        BY <1>0, <1>p, <1>u, <3>1, Moved, NothingPromised
    <2>2. CASE OwnedBy(req[p].name) # {}
      BY <1>10, <1>13, <2>2 DEF RemoveMasks
    <2>3. QED
      BY <2>1, <2>2
  <1>14. ASSUME NEW n \in Names, NEW discard \in BOOLEAN, RemoveAccount(p, n, discard)
         PROVE  Promised(p)'
    <2>1. req'[p] = [req[p] EXCEPT !.pc = "masks", !.name = n]
      BY <1>0, <1>14 DEF RemoveAccount
    <2>2. req'[p].promise = req[p].promise /\ req'[p].then = req[p].then
      BY <1>0, <2>1 DEF Request
    <2>3. UNCHANGED <<rows, acked>> /\ req[p].pc = "idle"
      BY <1>14 DEF RemoveAccount, stored, Starts
    <2>4. QED
      BY <1>0, <1>i, <1>u, <2>2, <2>3, NothingPromised
  <1>15. ASSUME RemoveApps(p)
         PROVE  Promised(p)'
    <2>1. Publishes(p, req[p].name, Gone, "supp") /\ UNCHANGED <<rows, acked>>
      BY <1>0, <1>15 DEF RemoveApps
    <2>2. QED
      BY <1>0, <1>u, <2>1, Moved, NothingPromised
  <1>16. ASSUME RemoveSuppression(p) \/ RemoveMailbox(p)
         PROVE  Promised(p)'
    <2>1. /\ UNCHANGED <<rows, acked>> /\ req[p].pc \in {"supp", "mailbox"}
          /\ Continues(p, "mailbox") \/ Continues(p, "row")
      BY <1>0, <1>16 DEF RemoveSuppression, RemoveMailbox, FailsUnchanged, stored
    <2>2. QED
      BY <1>0, <1>p, <1>u, <2>1, Moved, NothingPromised
  <1>17. ASSUME RemoveRow(p)
         PROVE  Promised(p)'
    <2> DEFINE n == req[p].name
    <2>1. CASE Exists(n)
      <3>1. Persist(p, [rows EXCEPT ![n] = Gone], n, Gone, "removed") /\ acked' = [acked EXCEPT ![n] = Gone]
        BY <1>17, <2>1 DEF RemoveRow
      <3>2. rows' = [rows EXCEPT ![n] = Gone] /\ req'[p].promise = Gone /\ req'[p].then = "removed"
        <4> HIDE DEF n
        <4>1. QED
          BY <1>t, <3>1, Written
      <3>3. acked \in [Names -> Passwords \cup {NoPassword, Gone}]
        BY <1>0 DEF TypeOK
      <3>4. \A k \in Names : acked'[k] # Gone => (k # n /\ acked'[k] = acked[k])
        BY <3>1, <3>3
      <3>5. \A k \in Names : k # n => rows'[k] = rows[k]
        BY <1>0, <3>2
      <3>6. AckedKept'
        BY <1>0, <3>4, <3>5 DEF AckedKept
      <3>7. QED
        BY <3>2, <3>6, NothingPromised
    <2>2. CASE ~Exists(n)
      <3>1. Ends(p) /\ UNCHANGED <<rows, acked>>
        BY <1>17, <2>2 DEF RemoveRow, stored
      <3>2. req'[p] = Idle
        BY <1>0, <3>1, Moved
      <3>3. QED
        BY <1>u, <3>1, <3>2, NothingPromised DEF Idle
    <2>3. QED
      BY <2>1, <2>2
  <1>18. QED
    BY <1>1, <1>2, <1>3, <1>4, <1>5, <1>6, <1>7, <1>8, <1>9, <1>11, <1>12, <1>13, <1>14, <1>15, <1>16, <1>17
       DEF RequestStep

LEMMA StepHonours ==
  ASSUME NEW p, Procs = {p}, MaxFaults = 0, PutPasswords = {}, PasswordInv(p), [Next]_vars
  PROVE  PasswordInv(p)'
  <1>0. p \in Procs /\ AckedKept /\ SerialInv(p)
    BY DEF PasswordInv, Promised, AckedKept, Exists
  <1>1. SerialInv(p)'
    BY StepSerial DEF PasswordInv
  <1>2. ASSUME NEW q \in Procs, RequestStep(q)
        PROVE  Promised(p)'
    BY <1>0, <1>2, RequestHonours
  <1>3. ASSUME Environment
        PROVE  Promised(p)'
    <2>1. CASE Crash
      <3>1. req'[p] = Idle /\ rows' = rows /\ acked' = acked
        BY <1>0, <2>1 DEF Crash, SerialInv, Files
      <3>2. AckedKept'
        BY <1>0, <3>1 DEF AckedKept
      <3>3. QED
        BY <1>0, <3>1, <3>2, NothingPromised DEF Idle
    <2>2. CASE UNCHANGED <<rows, acked, req>>
      BY <2>2 DEF PasswordInv, Promised, Exists
    <2>3. Crash \/ UNCHANGED <<rows, acked, req>>
      BY <1>3 DEF Environment, Resolve, CliAdd, CliRevoke, Submit, SuppressFor, Deposit, stored
    <2>4. QED
      BY <2>1, <2>2, <2>3
  <1>4. ASSUME UNCHANGED vars
        PROVE  Promised(p)'
    BY <1>4 DEF vars, stored, PasswordInv, Promised, Exists
  <1>5. Promised(p)'
    BY <1>2, <1>3, <1>4 DEF Next
  <1>6. QED
    BY <1>1, <1>5 DEF PasswordInv

\* While requests come one at a time, files can be written and no SCIM PUT
\* carries a password, a password an OK answer confirmed is the account's
\* password in memory and in the file until a request changes it: no request
\* about something else, and no restart, brings an older one back.
THEOREM Honoured ==
  ASSUME NEW p, Procs = {p}, MaxFaults = 0, PutPasswords = {}
  PROVE  Spec => []PasswordHonoured
  <1>1. Init => PasswordInv(p)
    <2> SUFFICES ASSUME Init PROVE PasswordInv(p)
      OBVIOUS
    <2>1. SerialInv(p) /\ req[p] = Idle /\ \A n \in Names : acked[n] = Gone
      BY StartSerial DEF Init
    <2>2. Promised(p)
      BY <2>1 DEF Promised, Idle
    <2>3. QED
      BY <2>1, <2>2 DEF PasswordInv
  <1>2. PasswordInv(p) /\ [Next]_vars => PasswordInv(p)'
    BY StepHonours
  <1>3. PasswordInv(p) => PasswordHonoured
    BY DEF PasswordInv, SerialInv, Promised, Files, PasswordHonoured, Exists
  <1>4. QED
    BY <1>1, <1>2, <1>3, PTL DEF Spec

----------------------------------------------------------------------------
(* Removal leaves nothing behind.                                          *)

WalkSteps == {"masks", "apps", "supp", "mailbox", "row", "removed"}
GhostStep(p) == Cleared(p)' /\ Owned' /\ Deliveries'

LEMMA OneRemoval ==
  ASSUME NEW p, Procs = {p}
  PROVE  /\ \A n : Removing(n) <=> (req[p].name = n /\ (req[p].pc \in WalkSteps \/ req[p].then \in WalkSteps))
         /\ \A n : Removing(n)' <=> (req'[p].name = n /\ (req'[p].pc \in WalkSteps \/ req'[p].then \in WalkSteps))
  BY DEF Removing, WalkSteps

\* A directory that shows memory shows the lives of the rows in memory.
LEMMA SeenLives ==
  ASSUME TypeOK, NEW d \in Directory, Seen(d), NEW n \in Names, d.rows[n] # Gone
  PROVE  d.rows[n].life \in Own(n)
  <1>1. Exists(n) /\ [d.rows[n] EXCEPT !.totp = rows[n].totp] = rows[n]
    BY DEF Seen
  <1>2. d.rows[n] \in Row
    BY DEF Directory
  <1>3. d.rows[n].life = rows[n].life
    BY <1>1, <1>2 DEF Row
  <1>4. QED
    BY <1>1, <1>3 DEF Own, LifeOf

LEMMA ViewLives ==
  ASSUME NEW p \in Procs, SerialInv(p), req[p].pc \notin {"build", "publish"}
  PROVE  \A n \in Names : view.rows[n] # Gone => view.rows[n].life \in Own(n)
  BY SeenLives DEF SerialInv, TypeInv, TypeOK, Shown

\* Nothing a name owns changes, and the name's row keeps its life.
LEMMA OwnedStays ==
  ASSUME TypeOK, Owned, UNCHANGED <<mail, apps, appsDisk, masks>>,
         \A n \in Names : Own(n) \subseteq Own(n)'
  PROVE  Owned'
  <1>1. \A m \in Masks : masks[m] # Gone => masks[m].owner \in Names
    BY DEF TypeOK, Mask
  <1>2. ASSUME NEW n \in Names
        PROVE  mail'[n] \subseteq Own(n)' /\ apps'[n] \cup appsDisk'[n] \subseteq Own(n)'
    BY DEF Owned
  <1>3. ASSUME NEW m \in Masks, masks'[m] # Gone
        PROVE  masks'[m].life \in (Own(masks[m].owner))'
    BY <1>1, <1>3 DEF Owned
  <1>4. QED
    BY <1>2, <1>3 DEF Owned

LEMMA LifeStays ==
  ASSUME TypeOK, NEW n \in Names, NEW row \in Row, rows' = [rows EXCEPT ![n] = row],
         ~Exists(n) \/ row.life = rows[n].life
  PROVE  \A k \in Names : Own(k) \subseteq Own(k)'
  <1>1. rows \in [Names -> Row \cup {Gone}] /\ row # Gone
    BY GoneAssumption DEF TypeOK, Tables
  <1>2. \A k \in Names : rows'[k] = IF k = n THEN row ELSE rows[k]
    BY <1>1
  <1>3. QED
    BY <1>1, <1>2 DEF Own, LifeOf, Exists

\* A step of a request that is not a removal.
LEMMA NoRemoval ==
  ASSUME NEW p, Procs = {p}, SerialInv(p), GhostInv(p), Owned',
         req[p].pc \in {"idle", "replace"}, req'[p].pc \in {"idle", "build", "replace"},
         req'[p].then \in {"idle", "replace"},
         UNCHANGED <<mail, apps, appsDisk, view, inflight>>,
         \A n \in Names : Own(n) \subseteq Own(n)'
  PROVE  GhostStep(p)
  <1>1. p \in Procs /\ inflight \subseteq [name : Names, life : Lives]
    BY DEF SerialInv, TypeInv, TypeOK
  <1>2. \A n : ~Removing(n)'
    BY OneRemoval DEF WalkSteps
  <1>3. Cleared(p)'
    BY DEF Cleared, Stage
  <1>4. ASSUME NEW n \in Names, view'.rows[n] # Gone
        PROVE  view'.rows[n].life \in Own(n)'
    BY <1>1, <1>4, ViewLives
  <1>5. ASSUME NEW f \in inflight'
        PROVE  f.life \in Own(f.name)'
    <2>1. f \in inflight /\ f.name \in Names
      BY <1>1
    <2>2. f.life \in Own(f.name)
      BY <2>1 DEF GhostInv, Deliveries
    <2>3. QED
      BY <2>1, <2>2
  <1>6. Deliveries'
    BY <1>2, <1>4, <1>5 DEF Deliveries
  <1>7. QED
    BY <1>3, <1>6 DEF GhostStep

LEMMA RowsGhost ==
  ASSUME NEW p, Procs = {p}, MaxFaults = 0, SerialInv(p), GhostInv(p), NEW n \in Names
  PROVE  /\ \A pw \in Passwords \cup {NoPassword}, A \in SUBSET Addrs, off \in Flags :
               Add(p, n, pw, A, off) => GhostStep(p)
         /\ \A pw \in Passwords : SetPasswordHash(p, n, pw) => GhostStep(p)
         /\ \A off \in Flags : SetDisabled(p, n, off) => GhostStep(p)
         /\ \A on \in BOOLEAN : SetTotp(p, n, on) => GhostStep(p)
         /\ PutUser(p, n) => GhostStep(p)
         /\ \A pw \in PutPasswords : PutPassword(p, n, pw) => GhostStep(p)
  <1>t. TypeInv
    BY DEF SerialInv
  <1>0. /\ p \in Procs /\ TypeOK /\ Owned /\ Flags \subseteq BOOLEAN /\ PutPasswords \subseteq Passwords
        /\ rows \in [Names -> Row \cup {Gone}] /\ req[p] \in Request /\ req \in [Procs -> Request]
    BY StoreAssumption DEF SerialInv, TypeInv, TypeOK, Tables, GhostInv
  <1>f. ~(faults < MaxFaults)
    BY <1>0, <1>t, Moved
  <1>w. ASSUME NEW row \in Row, rows' = [rows EXCEPT ![n] = row], ~Exists(n) \/ row.life = rows[n].life,
               req[p].pc = "idle", req'[p].pc \in {"idle", "build", "replace"}, req'[p].then \in {"idle", "replace"},
               UNCHANGED <<mail, apps, appsDisk, masks, view, inflight>>
        PROVE  GhostStep(p)
    <2>1. \A k \in Names : Own(k) \subseteq Own(k)'
      BY <1>0, <1>w, LifeStays
    <2>2. Owned'
      BY <1>0, <1>w, <2>1, OwnedStays
    <2>3. QED
      BY <1>w, <2>1, <2>2, NoRemoval
  <1>1. ASSUME NEW row \in Row, NEW promise, Persist(p, [rows EXCEPT ![n] = row], n, promise, "idle"),
               ~Exists(n) \/ row.life = rows[n].life, req[p].pc = "idle", UNCHANGED outside
        PROVE  GhostStep(p)
    <2>1. /\ rows' = [rows EXCEPT ![n] = row] /\ req'[p].pc = "build" /\ req'[p].then = "idle"
          /\ UNCHANGED <<masks, apps, appsDisk, view>>
      BY <1>0, <1>t, <1>1, Written
    <2>2. UNCHANGED <<mail, inflight>>
      BY <1>1 DEF outside
    <2>3. QED
      BY <1>w, <1>1, <2>1, <2>2
  <1>2. ASSUME NEW pw \in Passwords \cup {NoPassword}, NEW A \in SUBSET Addrs, NEW off \in Flags,
               Add(p, n, pw, A, off)
        PROVE  GhostStep(p)
    <2> DEFINE row == [addrs |-> A, pw |-> pw, totp |-> FALSE, off |-> off, life |-> born[n] + 1]
    <2>1. born[n] + 1 \in Lives
      BY <1>0, <1>2, StoreAssumption DEF Add, TypeOK, Lives
    <2>2. row \in Row
      BY <1>0, <2>1 DEF Row
    <2>3. /\ Persist(p, [rows EXCEPT ![n] = row], n, pw, "idle") /\ ~Exists(n)
          /\ req[p].pc = "idle" /\ UNCHANGED outside
      BY <1>2 DEF Add, Starts
    <2> HIDE DEF row
    <2>4. QED
      BY <1>1, <2>2, <2>3
  <1>3. ASSUME NEW pw \in Passwords, SetPasswordHash(p, n, pw)
        PROVE  GhostStep(p)
    <2> DEFINE row == [rows[n] EXCEPT !.pw = pw]
    <2>1. rows[n] \in Row
      BY <1>0, <1>3 DEF SetPasswordHash, Exists
    <2>2. row \in Row /\ row.life = rows[n].life
      BY <2>1 DEF Row
    <2>3. /\ Persist(p, [rows EXCEPT ![n] = row], n, pw, "idle")
          /\ req[p].pc = "idle" /\ UNCHANGED outside
      BY <1>0, <1>3 DEF SetPasswordHash, Starts
    <2> HIDE DEF row
    <2>4. QED
      BY <1>1, <2>2, <2>3
  <1>4. ASSUME NEW off \in Flags, SetDisabled(p, n, off)
        PROVE  GhostStep(p)
    <2> DEFINE row == [rows[n] EXCEPT !.off = off]
    <2>1. rows[n] \in Row
      BY <1>0, <1>4 DEF SetDisabled, Exists
    <2>2. row \in Row /\ row.life = rows[n].life
      BY <1>0, <2>1 DEF Row
    <2>3. /\ Persist(p, [rows EXCEPT ![n] = row], n, Gone, "idle")
          /\ req[p].pc = "idle" /\ UNCHANGED outside
      BY <1>0, <1>4 DEF SetDisabled, Starts
    <2> HIDE DEF row
    <2>4. QED
      BY <1>1, <2>2, <2>3
  <1>5. ASSUME NEW on \in BOOLEAN, SetTotp(p, n, on)
        PROVE  GhostStep(p)
    <2> DEFINE row == [rows[n] EXCEPT !.totp = on]
    <2>1. rows[n] \in Row
      BY <1>0, <1>5 DEF SetTotp, Exists
    <2>2. row \in Row /\ row.life = rows[n].life
      BY <2>1 DEF Row
    <2>3. /\ rows' = [rows EXCEPT ![n] = row] /\ req' = req /\ req[p].pc = "idle"
          /\ UNCHANGED <<mail, apps, appsDisk, masks, view, inflight>>
      BY <1>0, <1>5 DEF SetTotp, Starts, outside
    <2>4. req[p].then = "idle"
      BY <2>3 DEF SerialInv, Resets
    <2> HIDE DEF row
    <2>5. QED
      BY <1>w, <2>2, <2>3, <2>4
  <1>6. ASSUME PutUser(p, n)
        PROVE  GhostStep(p)
    <2>1. /\ UNCHANGED <<rows, mail, apps, appsDisk, masks, view, inflight>> /\ req[p].pc = "idle"
      BY <1>6 DEF PutUser, stored, outside, Starts
    <2>2. req'[p] = [req[p] EXCEPT !.pc = "replace", !.name = n, !.was = rows[n]] /\ req[p].then = "idle"
      BY <1>0, <1>6, <2>1 DEF PutUser, SerialInv, Resets
    <2>3. req'[p].pc = "replace" /\ req'[p].then = "idle"
      BY <1>0, <2>2 DEF Request
    <2>4. \A k \in Names : Own(k) \subseteq Own(k)'
      BY <2>1 DEF Own, LifeOf, Exists
    <2>5. Owned'
      BY <1>0, <2>1, <2>4, OwnedStays
    <2>6. QED
      BY <2>1, <2>3, <2>4, <2>5, NoRemoval
  <1>7. ASSUME NEW pw \in PutPasswords, PutPassword(p, n, pw)
        PROVE  GhostStep(p)
    <2> DEFINE row == [rows[n] EXCEPT !.pw = pw]
    <2>1. rows[n] \in Row
      BY <1>0, <1>7 DEF PutPassword, Exists
    <2>2. row \in Row /\ row.life = rows[n].life
      BY <1>0, <2>1 DEF Row
    <2>3. /\ rows' = [rows EXCEPT ![n] = row] /\ req[p].pc = "idle"
          /\ UNCHANGED <<mail, apps, appsDisk, masks, view, inflight>>
      BY <1>0, <1>7 DEF PutPassword, Starts, outside
    <2>4. req' = [req EXCEPT ![p] = [@ EXCEPT !.pc = "build", !.then = "replace",
                                !.name = n, !.promise = pw, !.was = rows[n]]]
      BY <1>7, <1>f DEF PutPassword
    <2>5. req'[p] = [req[p] EXCEPT !.pc = "build", !.then = "replace", !.name = n, !.promise = pw, !.was = rows[n]]
      BY <1>0, <2>4
    <2>6. req'[p].pc = "build" /\ req'[p].then = "replace"
      BY <1>0, <2>5 DEF Request
    <2> HIDE DEF row
    <2>7. QED
      BY <1>w, <2>2, <2>3, <2>6
  <1>8. QED
    BY <1>2, <1>3, <1>4, <1>5, <1>6, <1>7

LEMMA ReplaceGhost ==
  ASSUME NEW p, Procs = {p}, MaxFaults = 0, SerialInv(p), GhostInv(p),
         NEW A \in (SUBSET Addrs) \ {{}}, NEW off \in Flags, ReplaceAccount(p, A, off)
  PROVE  GhostStep(p)
  <1> DEFINE n == req[p].name
             row == [req[p].was EXCEPT !.addrs = A, !.off = off]
  <1>t. TypeInv
    BY DEF SerialInv
  <1>0. /\ p \in Procs /\ TypeOK /\ Owned /\ Flags \subseteq BOOLEAN /\ Holds(req[p])
        /\ req[p].pc = "replace" /\ UNCHANGED <<mail, inflight>>
    BY StoreAssumption DEF SerialInv, TypeInv, RequestsHold, GhostInv, ReplaceAccount, outside
  <1>1. n \in Names /\ req[p].was \in Row /\ req[p].was.life = rows[n].life
    BY <1>0 DEF Holds, Walking, SerialInv, Rereads
  <1>2. row \in Row /\ row.life = rows[n].life
    BY <1>0, <1>1 DEF Row
  <1>3. CASE Persist(p, [rows EXCEPT ![n] = row], n, req[p].promise, "idle")
    <2> HIDE DEF n, row
    <2>1. /\ rows' = [rows EXCEPT ![n] = row] /\ req'[p].pc = "build" /\ req'[p].then = "idle"
          /\ UNCHANGED <<masks, apps, appsDisk, view>>
      BY <1>0, <1>t, <1>3, Written
    <2>2. \A k \in Names : Own(k) \subseteq Own(k)'
      BY <1>0, <1>1, <1>2, <2>1, LifeStays
    <2>3. Owned'
      BY <1>0, <2>1, <2>2, OwnedStays
    <2>4. QED
      BY <1>0, <2>1, <2>2, <2>3, NoRemoval
  <1>4. CASE Ends(p) /\ UNCHANGED <<stored, view, faults, crashes>>
    <2>1. req'[p] = Idle /\ UNCHANGED <<rows, masks, apps, appsDisk, view>>
      BY <1>0, <1>t, <1>4, Moved DEF stored
    <2>2. \A k \in Names : Own(k) \subseteq Own(k)'
      BY <2>1 DEF Own, LifeOf, Exists
    <2>3. Owned'
      BY <1>0, <2>1, <2>2, OwnedStays
    <2>4. req'[p].pc = "idle" /\ req'[p].then = "idle"
      BY <2>1 DEF Idle
    <2>5. QED
      BY <1>0, <2>1, <2>2, <2>3, <2>4, NoRemoval
  <1>5. QED
    BY <1>3, <1>4 DEF ReplaceAccount

LEMMA OwnStays ==
  ASSUME rows' = rows
  PROVE  \A k : Own(k)' = Own(k)
  BY DEF Own, LifeOf, Exists

LEMMA MasksGhost ==
  ASSUME NEW p, Procs = {p}, MaxFaults = 0, SerialInv(p), GhostInv(p), NEW n \in Names, NEW m \in Masks
  PROVE  /\ AddMasked(p, n, m) => GhostStep(p)
         /\ RemoveMasked(p, n, m) => GhostStep(p)
         /\ \A on \in BOOLEAN : SetMaskedEnabled(p, n, m, on) => GhostStep(p)
  <1>t. TypeInv
    BY DEF SerialInv
  <1>0. /\ p \in Procs /\ TypeOK /\ Owned /\ masks \in [Masks -> Mask \cup {Gone}]
    BY DEF SerialInv, TypeInv, TypeOK, GhostInv
  <1>1. ASSUME NEW newMasks, PersistMasks(p, newMasks, n, "idle"), req[p].pc = "idle", UNCHANGED outside,
               \A k \in Masks : newMasks[k] # Gone => newMasks[k].life \in Own(newMasks[k].owner)
        PROVE  GhostStep(p)
    <2>1. /\ masks' = newMasks /\ UNCHANGED <<rows, apps, appsDisk, view, mail, inflight>>
          /\ req'[p].pc = "build" /\ req'[p].then = "idle"
      BY <1>0, <1>t, <1>1, WrittenMasks DEF outside
    <2>2. \A k : Own(k)' = Own(k)
      BY <2>1, OwnStays
    <2>3. \A k \in Names : mail'[k] \subseteq Own(k)' /\ apps'[k] \cup appsDisk'[k] \subseteq Own(k)'
      BY <1>0, <2>1, <2>2 DEF Owned
    <2>4. \A k \in Masks : masks'[k] # Gone => masks'[k].life \in {0, (LifeOf(masks[k].owner))'}
      BY <1>1, <2>1 DEF Own, LifeOf, Exists
    <2>5. Owned'
      BY <2>3, <2>4 DEF Owned, Own
    <2>6. QED
      BY <1>1, <2>1, <2>2, <2>5, NoRemoval
  <1>2. ASSUME AddMasked(p, n, m)
        PROVE  GhostStep(p)
    <2> DEFINE new == [masks EXCEPT ![m] = [owner |-> n, on |-> TRUE, life |-> LifeOf(n)]]
    <2>1. \A k \in Masks : new[k] # Gone => new[k].life \in Own(new[k].owner)
      BY <1>0 DEF Owned, Own
    <2>2. PersistMasks(p, new, n, "idle") /\ req[p].pc = "idle" /\ UNCHANGED outside
      BY <1>2 DEF AddMasked, Starts
    <2> HIDE DEF new
    <2>3. QED
      BY <1>1, <2>1, <2>2
  <1>3. ASSUME RemoveMasked(p, n, m)
        PROVE  GhostStep(p)
    <2> DEFINE new == [masks EXCEPT ![m] = Gone]
    <2>1. \A k \in Masks : new[k] # Gone => new[k].life \in Own(new[k].owner)
      BY <1>0 DEF Owned
    <2>2. PersistMasks(p, new, n, "idle") /\ req[p].pc = "idle" /\ UNCHANGED outside
      BY <1>3 DEF RemoveMasked, Starts
    <2> HIDE DEF new
    <2>3. QED
      BY <1>1, <2>1, <2>2
  <1>4. ASSUME NEW on \in BOOLEAN, SetMaskedEnabled(p, n, m, on)
        PROVE  GhostStep(p)
    <2>0. req[p].pc = "idle" /\ UNCHANGED outside /\ m \in OwnedBy(n)
      BY <1>4 DEF SetMaskedEnabled, Starts
    <2>1. CASE masks[m].on = on
      <3>1. /\ Publishes(p, n, Gone, "idle")
            /\ UNCHANGED <<rows, masks, apps, appsDisk, view, mail, inflight>>
        BY <1>4, <2>0, <2>1 DEF SetMaskedEnabled, stored, outside
      <3>2. req'[p].pc = "build" /\ req'[p].then = "idle"
        BY <1>0, <1>t, <3>1, Moved
      <3>3. \A k : Own(k)' = Own(k)
        BY <3>1, OwnStays
      <3>4. Owned'
        BY <1>0, <3>1, <3>3, OwnedStays
      <3>5. QED
        BY <2>0, <3>1, <3>2, <3>3, <3>4, NoRemoval
    <2>2. CASE masks[m].on # on
      <3> DEFINE new == [masks EXCEPT ![m].on = on]
      <3>1. masks[m] \in Mask
        BY <1>0, <2>0 DEF OwnedBy
      <3>2. new[m].life = masks[m].life /\ new[m].owner = masks[m].owner
        BY <1>0, <3>1 DEF Mask
      <3>3. masks[m].life \in Own(masks[m].owner)
        BY <1>0, <2>0 DEF Owned, OwnedBy
      <3>4. \A k \in Masks : k # m => new[k] = masks[k]
        BY <1>0
      <3>5. PersistMasks(p, new, n, "idle")
        BY <1>4, <2>2 DEF SetMaskedEnabled
      <3> HIDE DEF new
      <3>6. \A k \in Masks : new[k] # Gone => new[k].life \in Own(new[k].owner)
        BY <1>0, <3>2, <3>3, <3>4 DEF Owned
      <3>7. QED
        BY <1>1, <2>0, <3>5, <3>6
    <2>3. QED
      BY <2>1, <2>2
  <1>5. QED
    BY <1>2, <1>3, <1>4

\* A step of a removal, or of a publication, that keeps whom it is about.
LEMMA WalkDelivers ==
  ASSUME NEW p, Procs = {p}, SerialInv(p), GhostInv(p), UNCHANGED <<rows, inflight>>,
         \A n : Removing(n)' => Removing(n),
         \A n \in Names : view'.rows[n] # Gone /\ ~Removing(n)' => view'.rows[n].life \in Own(n)
  PROVE  Deliveries'
  <1>1. \A k : Own(k)' = Own(k)
    BY OwnStays
  <1>2. inflight' = inflight /\ \A f \in inflight : f.life \in Own(f.name) /\ ~Removing(f.name)
    BY DEF GhostInv, Deliveries
  <1>3. ASSUME NEW f \in inflight'
        PROVE  f.life \in Own(f.name)' /\ ~Removing(f.name)'
    BY <1>1, <1>2
  <1>4. ASSUME NEW n \in Names, view'.rows[n] # Gone, ~Removing(n)'
        PROVE  view'.rows[n].life \in Own(n)'
    BY <1>1, <1>4
  <1>5. QED
    BY <1>3, <1>4 DEF Deliveries

LEMMA PublishGhost ==
  ASSUME NEW p, Procs = {p}, SerialInv(p), GhostInv(p)
  PROVE  /\ BuildStep(p) => GhostStep(p)
         /\ PublishStep(p) => GhostStep(p)
         /\ Refresh(p) => GhostStep(p)
  <1>t. TypeInv
    BY DEF SerialInv
  <1>0. /\ p \in Procs /\ TypeOK /\ Owned /\ Cleared(p) /\ Holds(req[p])
        /\ req[p] \in Request /\ req \in [Procs -> Request]
    BY DEF SerialInv, TypeInv, TypeOK, RequestsHold, GhostInv
  <1>1. ASSUME BuildStep(p)
        PROVE  GhostStep(p)
    <2>1. UNCHANGED <<rows, masks, apps, appsDisk, view, mail, inflight>> /\ req[p].pc = "build"
      BY <1>1 DEF BuildStep, stored, outside
    <2>2. req'[p] = [req[p] EXCEPT !.pc = "publish", !.built = BuildDirectory]
      BY <1>0, <1>1 DEF BuildStep
    <2>3. req'[p].pc = "publish" /\ req'[p].then = req[p].then /\ req'[p].name = req[p].name
      BY <1>0, <2>2 DEF Request
    <2>4. Cleared(p)'
      BY <1>0, <2>1, <2>3 DEF Cleared, Stage, OwnedBy
    <2>5. \A n : Removing(n)' <=> Removing(n)
      BY <2>1, <2>3, OneRemoval DEF WalkSteps
    <2>6. \A n \in Names : view'.rows[n] # Gone /\ ~Removing(n)' => view'.rows[n].life \in Own(n)
      BY <2>1, <2>5 DEF GhostInv, Deliveries
    <2>7. Deliveries'
      BY <2>1, <2>5, <2>6, WalkDelivers
    <2>8. Owned'
      BY <1>0, <2>1, OwnedStays, OwnStays
    <2>9. QED
      BY <2>4, <2>7, <2>8 DEF GhostStep
  <1>2. ASSUME PublishStep(p)
        PROVE  GhostStep(p)
    <2>1. /\ UNCHANGED <<rows, masks, apps, appsDisk, mail, inflight>> /\ req[p].pc = "publish"
          /\ view' = req[p].built
      BY <1>2 DEF PublishStep, stored, outside
    <2>2. req[p].built \in Directory /\ Seen(req[p].built)
      BY <1>0, <2>1 DEF Holds, SerialInv, Shown
    <2>3. \A n \in Names : view'.rows[n] # Gone => view'.rows[n].life \in Own(n)
      BY <1>0, <2>1, <2>2, SeenLives
    <2>4. Cleared(p)' /\ \A n : Removing(n)' => Removing(n)
      <3>1. CASE req[p].then \in {"idle", "removed"}
        <4>1. req'[p] = Idle
          BY <1>0, <1>t, <1>2, <3>1, Moved DEF PublishStep
        <4>2. req'[p].pc = "idle" /\ req'[p].then = "idle"
          BY <4>1 DEF Idle
        <4>3. QED
          BY <4>2, OneRemoval DEF Cleared, Stage, WalkSteps
      <3>2. CASE req[p].then \notin {"idle", "removed"}
        <4>1. req'[p] = [req[p] EXCEPT !.pc = req[p].then, !.then = "idle", !.built = Gone]
          BY <1>0, <1>2, <3>2 DEF PublishStep
        <4>2. req'[p].pc = req[p].then /\ req'[p].then = "idle" /\ req'[p].name = req[p].name
          BY <1>0, <4>1 DEF Request
        <4>3. Cleared(p)'
          BY <1>0, <2>1, <4>2 DEF Cleared, Stage, OwnedBy
        <4>4. QED
          BY <4>2, <4>3, OneRemoval DEF WalkSteps
      <3>3. QED
        BY <3>1, <3>2
    <2>5. Deliveries'
      BY <2>1, <2>3, <2>4, WalkDelivers
    <2>6. Owned'
      BY <1>0, <2>1, OwnedStays, OwnStays
    <2>7. QED
      BY <2>4, <2>5, <2>6 DEF GhostStep
  <1>3. ASSUME Refresh(p)
        PROVE  GhostStep(p)
    <2>1. /\ UNCHANGED <<rows, masks, apps, appsDisk, view, mail, inflight>>
          /\ Continues(p, "build") /\ req[p].pc = "idle"
      BY <1>3 DEF Refresh, Continues, Starts, stored, outside
    <2>2. req[p].then = "idle"
      BY <2>1 DEF SerialInv, Resets
    <2>3. req'[p].pc = "build" /\ req'[p].then = "idle"
      BY <1>0, <1>t, <2>1, <2>2, Moved
    <2>4. Owned' /\ \A k \in Names : Own(k) \subseteq Own(k)'
      BY <1>0, <2>1, OwnedStays, OwnStays
    <2>5. QED
      BY <2>1, <2>3, <2>4, NoRemoval
  <1>4. QED
    BY <1>1, <1>2, <1>3

LEMMA WalkGhost ==
  ASSUME NEW p, Procs = {p}, MaxFaults = 0, Quiesced, SerialInv(p), GhostInv(p)
  PROVE  /\ \A n \in Names, discard \in BOOLEAN : RemoveAccount(p, n, discard) => GhostStep(p)
         /\ RemoveMasks(p) => GhostStep(p)
         /\ RemoveApps(p) => GhostStep(p)
         /\ RemoveSuppression(p) => GhostStep(p)
         /\ RemoveMailbox(p) => GhostStep(p)
  <1>t. TypeInv
    BY DEF SerialInv
  <1>0. /\ p \in Procs /\ TypeOK /\ Owned /\ Cleared(p) /\ Holds(req[p])
        /\ req[p] \in Request /\ req \in [Procs -> Request] /\ masks \in [Masks -> Mask \cup {Gone}]
        /\ apps \in [Names -> SUBSET Lives] /\ appsDisk \in [Names -> SUBSET Lives]
        /\ mail \in [Names -> SUBSET Lives]
    BY DEF SerialInv, TypeInv, TypeOK, RequestsHold, GhostInv
  <1>f. ~(faults < MaxFaults)
    BY <1>0, <1>t, Moved
  <1>d. ASSUME UNCHANGED <<rows, inflight, view>>, \A n : Removing(n)' => Removing(n),
               req[p].pc \notin {"build", "publish"}
        PROVE  Deliveries'
    BY <1>0, <1>d, ViewLives, WalkDelivers
  <1>1. ASSUME NEW n \in Names, NEW discard \in BOOLEAN, RemoveAccount(p, n, discard)
        PROVE  GhostStep(p)
    <2>1. /\ UNCHANGED <<rows, masks, apps, appsDisk, view, mail, inflight>> /\ req[p].pc = "idle"
          /\ \A f \in inflight : f.name # n
      BY <1>1 DEF RemoveAccount, Starts, stored
    <2>2. req'[p] = [req[p] EXCEPT !.pc = "masks", !.name = n]
      BY <1>0, <1>1 DEF RemoveAccount
    <2>3. req'[p].pc = "masks" /\ req'[p].name = n
      BY <1>0, <2>2 DEF Request
    <2>4. Cleared(p)' /\ \A k : Removing(k)' => k = n
      BY <2>3, OneRemoval DEF Cleared, Stage
    <2>5. \A k : Own(k)' = Own(k)
      BY <2>1, OwnStays
    <2>6. ASSUME NEW f \in inflight'
          PROVE  f.life \in Own(f.name)' /\ ~Removing(f.name)'
      BY <2>1, <2>4, <2>5 DEF GhostInv, Deliveries
    <2>7. ASSUME NEW k \in Names, view'.rows[k] # Gone
          PROVE  view'.rows[k].life \in Own(k)'
      BY <1>0, <2>1, <2>5, <2>7, ViewLives
    <2>8. Deliveries'
      BY <2>6, <2>7 DEF Deliveries
    <2>9. Owned'
      BY <1>0, <2>1, OwnedStays, OwnStays
    <2>10. QED
      BY <2>4, <2>8, <2>9 DEF GhostStep
  <1>2. ASSUME RemoveMasks(p)
        PROVE  GhostStep(p)
    <2> DEFINE n == req[p].name
               left == [m \in Masks |-> IF m \in OwnedBy(n) THEN Gone ELSE masks[m]]
    <2>0. req[p].pc = "masks" /\ UNCHANGED <<mail, inflight>>
      BY <1>2 DEF RemoveMasks, outside
    <2>1. CASE OwnedBy(n) = {}
      <3>1. Continues(p, "apps") /\ UNCHANGED <<rows, masks, apps, appsDisk, view>>
        BY <1>2, <2>1 DEF RemoveMasks, stored
      <3>2. req'[p].pc = "apps" /\ req'[p].name = n
        BY <1>0, <1>t, <3>1, Moved
      <3>3. Cleared(p)'
        BY <2>1, <3>1, <3>2 DEF Cleared, Stage, OwnedBy
      <3>4. \A k : Removing(k)' => Removing(k)
        BY <2>0, <3>2, OneRemoval DEF WalkSteps
      <3>5. Deliveries' /\ Owned'
        BY <1>0, <1>d, <2>0, <3>1, <3>4, OwnedStays, OwnStays
      <3>6. QED
        BY <3>3, <3>5 DEF GhostStep
    <2>2. CASE OwnedBy(n) # {}
      <3>1. PersistMasks(p, left, n, "apps")
        BY <1>2, <2>2 DEF RemoveMasks
      <3>2. /\ masks' = left /\ UNCHANGED <<rows, apps, appsDisk, view>>
            /\ req'[p].pc = "build" /\ req'[p].then = "apps" /\ req'[p].name = n
        <4> HIDE DEF left, n
        <4>1. QED
          BY <1>0, <1>t, <3>1, WrittenMasks
      <3>3. \A m \in Masks : masks'[m] # Gone => (masks'[m] = masks[m] /\ masks[m].owner # n)
        BY <3>2 DEF OwnedBy
      <3>4. Cleared(p)'
        BY <3>2, <3>3 DEF Cleared, Stage, OwnedBy
      <3>5. \A k : Removing(k)' => Removing(k)
        BY <2>0, <3>2, OneRemoval DEF WalkSteps
      <3>6. Deliveries'
        BY <1>d, <2>0, <3>2, <3>5
      <3>7. Owned'
        <4>1. rows' = rows
          BY <3>2
        <4>2. \A k \in Names : mail'[k] \subseteq Own(k)' /\ apps'[k] \cup appsDisk'[k] \subseteq Own(k)'
          BY <1>0, <2>0, <3>2, OwnStays DEF Owned
        <4>3. \A m \in Masks : masks'[m] # Gone => masks'[m].life \in {0, (LifeOf(masks[m].owner))'}
          BY <1>0, <3>3, <4>1 DEF Owned, Own, LifeOf, Exists
        <4>4. QED
          BY <4>2, <4>3 DEF Owned, Own
      <3>8. QED
        BY <3>4, <3>6, <3>7 DEF GhostStep
    <2>3. QED
      BY <2>1, <2>2
  <1>3. ASSUME RemoveApps(p)
        PROVE  GhostStep(p)
    <2> DEFINE n == req[p].name
    <2>0. /\ req[p].pc = "apps" /\ UNCHANGED <<rows, masks, view, mail, inflight>>
          /\ appsDisk' = [appsDisk EXCEPT ![n] = {}] /\ apps' = [apps EXCEPT ![n] = {}]
          /\ Publishes(p, n, Gone, "supp")
      BY <1>3, <1>f DEF RemoveApps, outside
    <2>1. n \in Names /\ OwnedBy(n) = {}
      BY <1>0, <2>0 DEF Holds, Walking, Cleared, Stage
    <2>2. req'[p].pc = "build" /\ req'[p].then = "supp" /\ req'[p].name = n
      BY <1>0, <1>t, <2>0, Moved
    <2>3. \A k \in Names : apps'[k] \subseteq apps[k] /\ appsDisk'[k] \subseteq appsDisk[k]
      BY <1>0, <2>0
    <2>4. Cleared(p)'
      BY <1>0, <2>0, <2>1, <2>2 DEF Cleared, Stage, OwnedBy
    <2>5. \A k : Removing(k)' => Removing(k)
      BY <2>0, <2>2, OneRemoval DEF WalkSteps
    <2>6. Deliveries'
      BY <1>d, <2>0, <2>5
    <2>7. Owned'
      <3>1. \A k \in Names : mail'[k] \subseteq Own(k)' /\ apps'[k] \cup appsDisk'[k] \subseteq Own(k)'
        BY <1>0, <2>0, <2>3, OwnStays DEF Owned
      <3>2. \A m \in Masks : masks'[m] # Gone => masks'[m].life \in {0, (LifeOf(masks[m].owner))'}
        BY <1>0, <2>0 DEF Owned, Own, LifeOf, Exists
      <3>3. QED
        BY <3>1, <3>2 DEF Owned, Own
    <2>8. QED
      BY <2>4, <2>6, <2>7 DEF GhostStep
  <1>4. ASSUME RemoveSuppression(p)
        PROVE  GhostStep(p)
    <2>0. /\ req[p].pc = "supp" /\ UNCHANGED <<rows, masks, apps, appsDisk, view, mail, inflight>>
          /\ Continues(p, "mailbox")
      BY <1>4, <1>f DEF RemoveSuppression, FailsUnchanged, stored
    <2>1. req'[p].pc = "mailbox" /\ req'[p].name = req[p].name
      BY <1>0, <1>t, <2>0, Moved
    <2>2. Cleared(p)'
      BY <1>0, <2>0, <2>1 DEF Cleared, Stage, OwnedBy
    <2>3. \A k : Removing(k)' => Removing(k)
      BY <2>0, <2>1, OneRemoval DEF WalkSteps
    <2>4. Deliveries' /\ Owned'
      BY <1>0, <1>d, <2>0, <2>3, OwnedStays, OwnStays
    <2>5. QED
      BY <2>2, <2>4 DEF GhostStep
  <1>5. ASSUME RemoveMailbox(p)
        PROVE  GhostStep(p)
    <2> DEFINE n == req[p].name
    <2>0. /\ req[p].pc = "mailbox" /\ UNCHANGED <<rows, masks, apps, appsDisk, view, inflight>>
          /\ mail' = [mail EXCEPT ![n] = {}] /\ Continues(p, "row")
      BY <1>5, <1>f DEF RemoveMailbox, FailsUnchanged, stored
    <2>1. req'[p].pc = "row" /\ req'[p].name = n /\ n \in Names
      BY <1>0, <1>t, <2>0, Moved DEF Holds, Walking
    <2>2. Cleared(p)'
      BY <1>0, <2>0, <2>1 DEF Cleared, Stage, OwnedBy
    <2>3. \A k : Removing(k)' => Removing(k)
      BY <2>0, <2>1, OneRemoval DEF WalkSteps
    <2>4. Deliveries'
      BY <1>d, <2>0, <2>3
    <2>5. \A k \in Names : mail'[k] \subseteq mail[k]
      BY <1>0, <2>0
    <2>6. Owned'
      <3>1. \A k \in Names : mail'[k] \subseteq Own(k)' /\ apps'[k] \cup appsDisk'[k] \subseteq Own(k)'
        BY <1>0, <2>0, <2>5, OwnStays DEF Owned
      <3>2. \A m \in Masks : masks'[m] # Gone => masks'[m].life \in {0, (LifeOf(masks[m].owner))'}
        BY <1>0, <2>0 DEF Owned, Own, LifeOf, Exists
      <3>3. QED
        BY <3>1, <3>2 DEF Owned, Own
    <2>7. QED
      BY <2>2, <2>4, <2>6 DEF GhostStep
  <1>6. QED
    BY <1>1, <1>2, <1>3, <1>4, <1>5

LEMMA RowGhost ==
  ASSUME NEW p, Procs = {p}, MaxFaults = 0, SerialInv(p), GhostInv(p), RemoveRow(p)
  PROVE  GhostStep(p)
  <1> DEFINE n == req[p].name
  <1>t. TypeInv /\ p \in Procs
    BY DEF SerialInv
  <1>0. /\ p \in Procs /\ TypeOK /\ Owned /\ Cleared(p) /\ Holds(req[p]) /\ req[p].pc = "row"
        /\ rows \in [Names -> Row \cup {Gone}] /\ masks \in [Masks -> Mask \cup {Gone}]
        /\ inflight \subseteq [name : Names, life : Lives] /\ UNCHANGED <<mail, inflight>>
    BY DEF SerialInv, TypeInv, TypeOK, Tables, RequestsHold, GhostInv, RemoveRow, outside
  <1>1. n \in Names /\ OwnedBy(n) = {} /\ apps[n] = {} /\ appsDisk[n] = {} /\ mail[n] = {} /\ Removing(n)
    BY <1>0, OneRemoval DEF Holds, Walking, Cleared, Stage, WalkSteps
  <1>2. CASE Exists(n)
    <2>1. Persist(p, [rows EXCEPT ![n] = Gone], n, Gone, "removed")
      BY <1>2 DEF RemoveRow
    <2>2. /\ rows' = [rows EXCEPT ![n] = Gone] /\ req'[p].pc = "build" /\ req'[p].then = "removed"
          /\ req'[p].name = n /\ UNCHANGED <<masks, apps, appsDisk, view>>
      <3> HIDE DEF n
      <3>1. QED
        BY <1>t, <2>1, Written
    <2>3. \A k \in Names : k # n => rows'[k] = rows[k]
      BY <1>0, <2>2
    <2>4. \A k \in Names : k # n => Own(k)' = Own(k)
      BY <2>3 DEF Own, LifeOf, Exists
    <2>5. Cleared(p)' /\ \A k : Removing(k)' <=> k = n
      BY <1>1, <2>2, <1>0, OneRemoval DEF Cleared, Stage, OwnedBy, WalkSteps
    <2>6. Owned'
      <3>1. \A k \in Names : mail'[k] \subseteq Own(k)' /\ apps'[k] \cup appsDisk'[k] \subseteq Own(k)'
        BY <1>0, <1>1, <2>2, <2>4 DEF Owned
      <3>2. \A m \in Masks : masks[m] # Gone => (masks[m].owner \in Names /\ masks[m].owner # n)
        BY <1>0, <1>1 DEF Mask, OwnedBy
      <3>3. \A m \in Masks : masks'[m] # Gone => masks'[m].life \in {0, (LifeOf(masks[m].owner))'}
        BY <1>0, <2>2, <2>3, <3>2 DEF Owned, Own, LifeOf, Exists
      <3>4. QED
        BY <3>1, <3>3 DEF Owned, Own
    <2>7. Deliveries'
      <3>1. ASSUME NEW f \in inflight'
            PROVE  f.life \in Own(f.name)' /\ ~Removing(f.name)'
        <4>1. f \in inflight /\ f.name \in Names
          BY <1>0
        <4>2. f.life \in Own(f.name) /\ ~Removing(f.name)
          BY <4>1 DEF GhostInv, Deliveries
        <4>3. f.name # n
          BY <1>1, <4>2
        <4>4. QED
          BY <2>4, <2>5, <4>1, <4>2, <4>3
      <3>2. ASSUME NEW k \in Names, view'.rows[k] # Gone, ~Removing(k)'
            PROVE  view'.rows[k].life \in Own(k)'
        BY <1>0, <2>2, <2>4, <2>5, <3>2, ViewLives
      <3>3. QED
        BY <3>1, <3>2 DEF Deliveries
    <2>8. QED
      BY <2>5, <2>6, <2>7 DEF GhostStep
  <1>3. CASE ~Exists(n)
    <2>1. Ends(p) /\ UNCHANGED <<rows, masks, apps, appsDisk, view>>
      BY <1>3 DEF RemoveRow, stored
    <2>2. req'[p] = Idle
      BY <1>0, <1>t, <2>1, Moved
    <2>3. req'[p].pc = "idle" /\ req'[p].then = "idle"
      BY <2>2 DEF Idle
    <2>4. Cleared(p)' /\ \A k : ~Removing(k)'
      BY <2>3, OneRemoval DEF Cleared, Stage, WalkSteps
    <2>5. Deliveries'
      BY <1>0, <2>1, <2>4, ViewLives, WalkDelivers
    <2>6. Owned'
      BY <1>0, <2>1, OwnedStays, OwnStays
    <2>7. QED
      BY <2>4, <2>5, <2>6 DEF GhostStep
  <1>4. QED
    BY <1>2, <1>3

LEMMA RequestGhost ==
  ASSUME NEW p, Procs = {p}, MaxFaults = 0, Quiesced, SerialInv(p), GhostInv(p), RequestStep(p)
  PROVE  GhostStep(p)
  BY RowsGhost, ReplaceGhost, MasksGhost, PublishGhost, WalkGhost, RowGhost DEF RequestStep

LEMMA EnvironmentGhost ==
  ASSUME NEW p, Procs = {p}, Quiesced, SerialInv(p), GhostInv(p), Environment
  PROVE  GhostStep(p)
  <1>0. /\ p \in Procs /\ TypeOK /\ Files /\ Owned /\ Cleared(p) /\ Deliveries /\ Holds(req[p])
        /\ mail \in [Names -> SUBSET Lives] /\ appsDisk \in [Names -> SUBSET Lives]
        /\ inflight \subseteq [name : Names, life : Lives]
    BY DEF SerialInv, TypeInv, TypeOK, RequestsHold, GhostInv
  <1>r. ASSUME Stage(req[p]) \in {"supp", "mailbox", "row", "removed"}
        PROVE  Removing(req[p].name)
    BY <1>r, OneRemoval DEF Stage, WalkSteps
  <1>u. ASSUME UNCHANGED <<rows, masks, apps, appsDisk, mail, view, inflight, req>>
        PROVE  GhostStep(p)
    BY <1>0, <1>u DEF GhostStep, Cleared, Stage, OwnedBy, Owned, Own, LifeOf, Exists, Deliveries, Removing
  <1>1. ASSUME NEW n \in Names, Resolve(n)
        PROVE  GhostStep(p)
    <2>1. /\ UNCHANGED <<rows, masks, apps, appsDisk, mail, view, req>> /\ ~Removing(n)
          /\ view.rows[n] # Gone /\ inflight' = inflight \cup {[name |-> n, life |-> view.rows[n].life]}
      BY <1>1 DEF Resolve, Undisturbed, stored
    <2>2. view.rows[n].life \in Own(n)
      BY <1>0, <2>1 DEF Deliveries
    <2>3. \A f \in inflight' : f.life \in Own(f.name) /\ ~Removing(f.name)
      BY <1>0, <2>1, <2>2 DEF Deliveries
    <2>4. Cleared(p)' /\ Owned'
      BY <1>0, <2>1 DEF Cleared, Stage, OwnedBy, Owned, Own, LifeOf, Exists
    <2>5. Deliveries'
      BY <1>0, <2>1, <2>3 DEF Deliveries, Own, LifeOf, Exists, Removing
    <2>6. QED
      BY <2>4, <2>5 DEF GhostStep
  <1>2. ASSUME NEW f \in inflight, Deposit(f)
        PROVE  GhostStep(p)
    <2>1. /\ UNCHANGED <<rows, masks, apps, appsDisk, view, req>>
          /\ mail' = [mail EXCEPT ![f.name] = @ \cup {f.life}] /\ inflight' = inflight \ {f}
      BY <1>2 DEF Deposit, stored
    <2>2. f.name \in Names /\ f.life \in Own(f.name) /\ ~Removing(f.name)
      BY <1>0 DEF Deliveries
    <2>3. \A k \in Names : mail'[k] = IF k = f.name THEN mail[k] \cup {f.life} ELSE mail[k]
      BY <1>0, <2>1, <2>2
    <2>4. Stage(req[p]) \in {"row", "removed"} => mail'[req[p].name] = {}
      <3>1. SUFFICES ASSUME Stage(req[p]) \in {"row", "removed"}
                     PROVE  mail'[req[p].name] = {}
        OBVIOUS
      <3>2. req[p].name # f.name /\ mail[req[p].name] = {}
        BY <1>0, <1>r, <2>2, <3>1 DEF Cleared
      <3>3. QED
        BY <1>0, <2>1, <3>2
    <2>5. Cleared(p)'
      BY <1>0, <2>1, <2>4 DEF Cleared, Stage, OwnedBy
    <2>6. \A k \in Names : mail'[k] \subseteq Own(k)
      BY <1>0, <2>2, <2>3 DEF Owned
    <2>7. Owned'
      BY <1>0, <2>1, <2>6 DEF Owned, Own, LifeOf, Exists
    <2>8. Deliveries'
      BY <1>0, <2>1 DEF Deliveries, Own, LifeOf, Exists, Removing
    <2>9. QED
      BY <2>5, <2>7, <2>8 DEF GhostStep
  <1>3. ASSUME NEW n \in Names, CliAdd(n) \/ \E l \in Lives : CliRevoke(n, l)
        PROVE  GhostStep(p)
    <2>1. /\ UNCHANGED <<rows, masks, apps, mail, view, inflight, req>> /\ ~Removing(n)
          /\ \E l : appsDisk' = [appsDisk EXCEPT ![n] = @ \cup {LifeOf(n)}]
                    \/ appsDisk' = [appsDisk EXCEPT ![n] = @ \ {l}]
      BY <1>3 DEF CliAdd, CliRevoke, Undisturbed, outside
    <2>2. \A k \in Names : appsDisk'[k] \subseteq Own(k)
      BY <1>0, <2>1 DEF Owned, Own
    <2>3. \A k \in Names : k # n => appsDisk'[k] = appsDisk[k]
      BY <1>0, <2>1
    <2>4. Stage(req[p]) \in {"supp", "mailbox", "row", "removed"} => (req[p].name # n /\ req[p].name \in Names)
      BY <1>0, <1>r, <2>1 DEF Stage, Holds, Walking
    <2>5. Cleared(p)'
      BY <1>0, <2>1, <2>3, <2>4 DEF Cleared, Stage, OwnedBy
    <2>6. Owned'
      BY <1>0, <2>1, <2>2 DEF Owned, Own, LifeOf, Exists
    <2>7. Deliveries'
      BY <1>0, <2>1 DEF Deliveries, Own, LifeOf, Exists, Removing
    <2>8. QED
      BY <2>5, <2>6, <2>7 DEF GhostStep
  <1>4. ASSUME NEW n \in Names, NEW a \in Addrs, Submit(n, a) \/ SuppressFor(n, a)
        PROVE  GhostStep(p)
    BY <1>4, <1>u DEF Submit, SuppressFor, stored
  <1>5. ASSUME Crash
        PROVE  GhostStep(p)
    <2>1. /\ rows' = rows /\ masks' = masks /\ apps' = appsDisk /\ UNCHANGED <<appsDisk, mail>>
          /\ req'[p] = Idle /\ inflight' = {} /\ view'.rows = rows
      BY <1>0, <1>5 DEF Crash, Files, BuildDirectory
    <2>2. Cleared(p)'
      BY <2>1 DEF Cleared, Stage, Idle
    <2>3. Owned'
      BY <1>0, <2>1 DEF Owned, Own, LifeOf, Exists
    <2>4. Deliveries'
      BY <2>1 DEF Deliveries, Own, LifeOf, Exists
    <2>5. QED
      BY <2>2, <2>3, <2>4 DEF GhostStep
  <1>6. QED
    BY <1>1, <1>2, <1>3, <1>4, <1>5 DEF Environment

LEMMA StepGhost ==
  ASSUME NEW p, Procs = {p}, MaxFaults = 0, Quiesced, SerialInv(p), GhostInv(p), [Next]_vars
  PROVE  GhostInv(p)'
  <1>1. ASSUME NEW q \in Procs, RequestStep(q)
        PROVE  GhostStep(p)
    BY <1>1, RequestGhost
  <1>2. ASSUME Environment
        PROVE  GhostStep(p)
    BY <1>2, EnvironmentGhost
  <1>3. ASSUME UNCHANGED vars
        PROVE  GhostStep(p)
    <2>1. UNCHANGED <<rows, masks, apps, appsDisk, mail, view, inflight, req>>
      BY <1>3 DEF vars, stored, outside
    <2>2. QED
      BY <2>1 DEF GhostInv, GhostStep, Cleared, Stage, OwnedBy, Owned, Own, LifeOf, Exists, Deliveries, Removing
  <1>4. GhostStep(p)
    BY <1>1, <1>2, <1>3 DEF Next
  <1>5. QED
    BY <1>4 DEF GhostInv, GhostStep

\* While requests come one at a time, files can be written and an account under
\* removal is left alone, removal leaves nothing behind: mail, masks and app
\* passwords under a name are those of the account that has the name now.  A
\* restart in the middle of a removal keeps this, since the row goes last.
THEOREM GhostFree ==
  ASSUME NEW p, Procs = {p}, MaxFaults = 0, Quiesced
  PROVE  Spec => []NoGhost
  <1>1. Init => SerialInv(p) /\ GhostInv(p)
    <2> SUFFICES ASSUME Init PROVE SerialInv(p) /\ GhostInv(p)
      OBVIOUS
    <2>1. SerialInv(p) /\ req[p] = Idle
      BY StartSerial DEF Init
    <2>2. /\ \A n \in Names : mail[n] = {} /\ apps[n] = {} /\ appsDisk[n] = {} /\ rows[n] = Gone
          /\ \A m \in Masks : masks[m] = Gone
          /\ inflight = {} /\ view.rows = rows
      BY DEF Init, BuildDirectory
    <2>3. Cleared(p)
      BY <2>1 DEF Cleared, Stage, Idle
    <2>4. Owned /\ Deliveries
      BY <2>2 DEF Owned, Deliveries
    <2>5. QED
      BY <2>1, <2>3, <2>4 DEF GhostInv
  <1>2. SerialInv(p) /\ GhostInv(p) /\ [Next]_vars => (SerialInv(p) /\ GhostInv(p))'
    BY StepSerial, StepGhost
  <1>3. SerialInv(p) /\ GhostInv(p) => NoGhost
    <2> SUFFICES ASSUME SerialInv(p), GhostInv(p) PROVE NoGhost
      OBVIOUS
    <2>1. Owned /\ masksDisk = masks
      BY DEF SerialInv, GhostInv, Files
    <2>2. QED
      BY <2>1 DEF Owned, NoGhost, NoGhostMail, NoGhostMasks, NoGhostApps
  <1>4. QED
    BY <1>1, <1>2, <1>3, PTL DEF Spec
=============================================================================

---------------------------- MODULE InboundProofs ----------------------------
(***************************************************************************)
(* Proofs about the way of an accepted message: for every directory, every *)
(* set of filters and messages, every number of connections, attempts and  *)
(* faults.                                                                 *)
(***************************************************************************)
EXTENDS Inbound, SequenceTheorems, FiniteSetTheorems, WellFoundedInduction, TLAPS

Screens == {"dnsbl", "greylist", "authenticate", "reputation", "hook", "llm"}
Working == {"local", "copy", "vacation", "mark"}
Items(s) == {s[i] : i \in DOMAIN s}

\* Before it is routed an attempt has done nothing, and only a client that did
\* not authenticate is screened.
Fresh(c) ==
    /\ pc[c] \in Screens \cup {"hops", "route"} =>
          /\ left[c] = {} /\ boxes[c] = {} /\ plan[c] = Nothing /\ todo[c] = <<>>
          /\ spread[c] = {} /\ asked[c] = {}
    /\ pc[c] \in Screens => ~mail[c].auth
    /\ pc[c] \in Working => todo[c] = <<>>

\* What a quarantined message asks for at every stage.
Returned == <<"return", NoAccount>>
Held(c) ==
    c \in suspect =>
        /\ ~mail[c].auth /\ box[c] = "Rejects"
        /\ pc[c] \notin {"vacation", "mark"}
        /\ \A b \in boxes[c] : b[2] = "Rejects"
        /\ plan[c] = Nothing /\ Items(todo[c]) \subseteq {Returned}
        /\ spread[c] \subseteq ({"Rejects"} \X Accounts) \cup {Returned}

\* What a bounce asks for at every stage.
Quiet(c) ==
    mail[c].from = NullSender =>
        /\ pc[c] # "mark"
        /\ plan[c].redirects = <<>> /\ plan[c].replies = <<>> /\ ~plan[c].reject
        /\ Items(todo[c]) \subseteq {"return", "relay"} \X {NoAccount}
        /\ spread[c] \subseteq Copies \cup ({"return", "relay"} \X {NoAccount})

\* A client has tried at least as long as the greylist knows its triplet, and
\* past the greylist the delay is over.
Passed == {"authenticate", "reputation", "hook", "llm", "route", "spool"} \cup Working
Tried(c) ==
    /\ pc[c] # "idle" => firstTry[Key(mail[c])] # Never
    /\ ~mail[c].auth /\ (pc[c] \in Passed \/ spread[c] # {}) =>
          /\ firstTry[Key(mail[c])] # Never
          /\ clock - firstTry[Key(mail[c])] >= GreylistDelay
Known ==
    \A k \in Keys :
        /\ firstTry[k] <= clock
        /\ firstSeen[k] # Never => firstTry[k] # Never /\ firstTry[k] <= firstSeen[k]

\* The marker is the last autoresponse, and whoever is about to touch it is
\* alone and may still answer.
Marked(w) ==
    /\ marker[w] = Never => answered[w] = <<>>
    /\ \A i \in DOMAIN answered[w] : answered[w][i] <= marker[w]
    /\ marker[w] <= clock
    /\ \A i, j \in DOMAIN answered[w] : i < j => answered[w][j] - answered[w][i] >= VacationDays
Marking(c) ==
    pc[c] = "mark" =>
        /\ Due(marker[Who(c)])
        /\ \A d \in Conns \ {c} : pc[d] = "mark" => Who(d) # Who(c)
VacationInv == raced \/ ((\A w \in Correspondents : Marked(w)) /\ \A c \in Conns : Marking(c))

\* What becomes of an account that has been served.
Coming(c) == IF pc[c] \in Working THEN Items(plan[c].redirects) ELSE Items(todo[c])
Settled(c, a) ==
    \/ \E b \in Boxes : <<b, a>> \in spread[c]
    \/ {<<"redirect", a>>, <<"forward", a>>} \cap (spread[c] \cup Coming(c)) # {}
    \/ /\ <<"reject", a>> \in asked[c]
       /\ IF pc[c] \in Working THEN plan[c].reject
          ELSE Told(c) \/ <<"bounce", NoAccount>> \in Coming(c)
    \/ <<"waive", a>> \in asked[c]
Accounted(c) ==
    /\ pc[c] \in Working =>
         left[c] \subseteq served[c] /\ \A a \in served[c] \ left[c] : Settled(c, a)
    /\ pc[c] \in {"copy", "vacation", "mark"} => boxes[c] # {} \/ Settled(c, InHand(c))
    /\ pc[c] \in {"vacation", "mark"} => boxes[c] = {}
    /\ pc[c] = "spool" \/ answer[c] = "250" => \A a \in served[c] : Settled(c, a)
    /\ answer[c] = "250" => pc[c] = "done" /\ todo[c] = <<>>

----------------------------------------------------------------------------
(* Least elements, and the sequences that are built.                       *)

LEMMA Least ==
  ASSUME NEW T \in SUBSET Nat, T # {}
  PROVE  \E x \in T : \A y \in T : x <= y
  <1> DEFINE R == OpToRel(<, Nat)
  <1>1. PICK x \in T : \A y \in T : ~(<<y, x>> \in R)
    BY NatLessThanWellFounded, WFMin
  <1>2. \A y \in T : ~(y < x)
    BY <1>1 DEF OpToRel
  <1>3. QED
    BY <1>2

LEMMA InHandIn ==
  ASSUME NEW c \in Conns, left[c] \subseteq Accounts, left[c] # {}
  PROVE  InHand(c) \in left[c] /\ InHand(c) \in Accounts
  <1>1. \E a \in left[c] : \A b \in left[c] : a <= b
    BY Least, InboundAssumption
  <1>2. QED
    BY <1>1 DEF InHand

LEMMA FirstBoxIn ==
  ASSUME NEW c \in Conns, boxes[c] \subseteq Nat \X Boxes, boxes[c] # {}
  PROVE  FirstBox(c) \in boxes[c] /\ FirstBox(c)[2] \in Boxes
  <1> DEFINE Places == {b[1] : b \in boxes[c]}
  <1>1. Places \in SUBSET Nat /\ Places # {}
    OBVIOUS
  <1>2. PICK x \in Places : \A y \in Places : x <= y
    BY <1>1, Least
  <1>3. \E b \in boxes[c] : \A d \in boxes[c] : b[1] <= d[1]
    BY <1>2
  <1>4. FirstBox(c) \in boxes[c]
    BY <1>3 DEF FirstBox
  <1>5. QED
    BY <1>4

LEMMA ItemsTyped ==
  ASSUME NEW S, NEW s \in Seq(S)
  PROVE  Items(s) \subseteq S
  BY DEF Items

LEMMA ItemsJoin ==
  ASSUME NEW S, NEW s \in Seq(S), NEW t \in Seq(S)
  PROVE  s \o t \in Seq(S) /\ Items(s \o t) = Items(s) \cup Items(t)
  <1>1. s \o t \in Seq(S) /\ Len(s \o t) = Len(s) + Len(t)
    BY ConcatProperties
  <1>2. ASSUME NEW x \in Items(s) \cup Items(t) PROVE x \in Items(s \o t)
    <2>1. CASE x \in Items(s)
      BY <2>1, <1>1, ConcatProperties DEF Items
    <2>2. CASE x \in Items(t)
      <3>1. PICK j \in 1 .. Len(t) : x = t[j]
        BY <2>2 DEF Items
      <3>2. (s \o t)[Len(s) + j] = x /\ Len(s) + j \in 1 .. Len(s \o t)
        BY <3>1, <1>1, ConcatProperties
      <3>3. QED
        BY <3>2, <1>1 DEF Items
    <2>3. QED
      BY <1>2, <2>1, <2>2
  <1>3. ASSUME NEW x \in Items(s \o t) PROVE x \in Items(s) \cup Items(t)
    <2>1. PICK i \in 1 .. Len(s) + Len(t) : x = (s \o t)[i]
      BY <1>1 DEF Items
    <2>2. x = IF i <= Len(s) THEN s[i] ELSE t[i - Len(s)]
      BY <2>1, ConcatProperties
    <2>3. QED
      BY <2>2 DEF Items
  <1>4. QED
    BY <1>1, <1>2, <1>3

LEMMA ItemsTail ==
  ASSUME NEW S, NEW s \in Seq(S), s # <<>>
  PROVE  Head(s) \in S /\ Tail(s) \in Seq(S) /\ Items(s) = {Head(s)} \cup Items(Tail(s))
  <1>1. /\ Head(s) \in S /\ Tail(s) \in Seq(S) /\ Head(s) = s[1] /\ Len(s) \in Nat \ {0}
        /\ Len(Tail(s)) = Len(s) - 1 /\ \A i \in 1 .. Len(Tail(s)) : Tail(s)[i] = s[i + 1]
        /\ DOMAIN Tail(s) = 1 .. Len(Tail(s))
    BY HeadTailProperties, EmptySeq, LenProperties
  <1>2. ASSUME NEW x \in Items(s) PROVE x \in {Head(s)} \cup Items(Tail(s))
    <2>1. PICK i \in 1 .. Len(s) : x = s[i]
      BY DEF Items
    <2>2. CASE i = 1
      BY <1>1, <2>1, <2>2
    <2>3. CASE i # 1
      <3>1. i - 1 \in 1 .. Len(Tail(s)) /\ Tail(s)[i - 1] = x
        BY <1>1, <2>1, <2>3
      <3>2. QED
        BY <3>1, <1>1 DEF Items
    <2>4. QED
      BY <2>2, <2>3
  <1>3. ASSUME NEW x \in {Head(s)} \cup Items(Tail(s)) PROVE x \in Items(s)
    <2>1. CASE x = Head(s)
      BY <2>1, <1>1 DEF Items
    <2>2. CASE x \in Items(Tail(s))
      <3>1. PICK i \in 1 .. Len(Tail(s)) : x = Tail(s)[i]
        BY <2>2, <1>1 DEF Items
      <3>2. x = s[i + 1] /\ i + 1 \in 1 .. Len(s)
        BY <3>1, <1>1
      <3>3. QED
        BY <3>2 DEF Items
    <2>3. QED
      BY <1>3, <2>1, <2>2
  <1>4. QED
    BY <1>1, <1>2, <1>3

LEMMA ItemsConstant ==
  ASSUME NEW n \in Nat, NEW x, NEW S, x \in S
  PROVE  /\ [i \in 1 .. n |-> x] \in Seq(S)
         /\ Items([i \in 1 .. n |-> x]) \subseteq {x}
         /\ n > 0 => x \in Items([i \in 1 .. n |-> x])
         /\ n = 0 => [i \in 1 .. n |-> x] = <<>>
  <1> DEFINE s == [i \in 1 .. n |-> x]
  <1>1. s \in Seq(S) /\ Len(s) = n
    BY IsASeq
  <1>2. n = 0 => s = <<>>
    BY <1>1, EmptySeq
  <1>3. n > 0 => s[1] = x /\ 1 \in DOMAIN s
    OBVIOUS
  <1>4. QED
    BY <1>1, <1>2, <1>3 DEF Items

LEMMA ItemsEmpty == Items(<<>>) = {}
  BY DEF Items

LEMMA Singleton ==
  ASSUME NEW S, NEW x \in S
  PROVE  <<x>> \in Seq(S) /\ Items(<<x>>) = {x} /\ <<x>> # <<>>
  BY DEF Items

----------------------------------------------------------------------------
(* What one account asks for, and what goes to the spool.                  *)

Elsewhere(a) == {<<"redirect", a>>, <<"forward", a>>}

\* What deliver_for_account may ask for account a.
Shares(a) ==
    [copies : SUBSET (Nat \X Boxes), redirects : Seq(Elsewhere(a)), reject : BOOLEAN,
     vacation : BOOLEAN, asked : SUBSET ({"reject", "waive"} \X {a})]

LEMMA ForwardsTyped ==
  ASSUME NEW m, NEW a
  PROVE  /\ Forwards(m, a) \in Seq(Elsewhere(a))
         /\ m.from = NullSender => Forwards(m, a) = <<>>
         /\ Forwards(m, a) = <<>> \/ <<"forward", a>> \in Items(Forwards(m, a))
  BY DEF Forwards, Elsewhere, Items

LEMMA RedirectsTyped ==
  ASSUME NEW a \in Accounts, NEW script \in Scripts[a]
  PROVE  /\ Cardinality(Does(script, "redirect")) \in Nat
         /\ Does(script, "redirect") # {} => Cardinality(Does(script, "redirect")) > 0
  <1>1. IsFiniteSet(1 .. Len(script)) /\ Does(script, "redirect") \subseteq 1 .. Len(script)
    <2>1. script \in Seq([do : STRING, to : STRING, copy : BOOLEAN])
      BY ScriptsAssumption
    <2>2. DOMAIN script = 1 .. Len(script) /\ Len(script) \in Nat
      BY <2>1
    <2>3. QED
      BY <2>2, FS_Interval DEF Does
  <1>2. IsFiniteSet(Does(script, "redirect"))
    BY <1>1, FS_Subset
  <1>3. QED
    BY <1>2, FS_CardinalityType, FS_EmptySet

LEMMA FilteredTyped ==
  ASSUME NEW m, NEW a \in Accounts, NEW script \in Scripts[a]
  PROVE  Filtered(m, a, script) \in Shares(a)
  <1> DEFINE o == Evaluate(script)
             null == m.from = NullSender
             n == o.redirects
             out == IF null THEN <<>> ELSE [i \in 1 .. n |-> <<"redirect", a>>]
  <1>1. n \in Nat
    BY RedirectsTyped DEF Evaluate
  <1>2. out \in Seq(Elsewhere(a))
    BY <1>1, ItemsConstant DEF Elsewhere
  <1>3. out \o Forwards(m, a) \in Seq(Elsewhere(a))
    BY <1>2, ForwardsTyped, ConcatProperties
  <1>4. o.folders \in SUBSET (Nat \X STRING)
    <2>1. script \in Seq([do : STRING, to : STRING, copy : BOOLEAN])
      BY ScriptsAssumption
    <2>2. \A i \in DOMAIN script : i \in Nat /\ script[i].to \in STRING
      <3>1. DOMAIN script = 1 .. Len(script) /\ Len(script) \in Nat
        BY <2>1
      <3>2. \A i \in 1 .. Len(script) : script[i] \in [do : STRING, to : STRING, copy : BOOLEAN]
        BY <2>1, ElementOfSeq
      <3>3. QED
        BY <3>1, <3>2
    <2>3. o.folders = {<<i, script[i].to>> : i \in Does(script, "fileinto")}
      BY DEF Evaluate
    <2>4. QED
      BY <2>2, <2>3 DEF Does
  <1>5. {f \in o.folders : f[2] \in SafeNames} \in SUBSET (Nat \X Boxes)
    BY <1>4 DEF Boxes
  <1>6. (IF o.keep THEN {Inbox} ELSE {}) \in SUBSET (Nat \X Boxes)
    BY DEF Inbox, Boxes
  <1>7. o.vacation \in BOOLEAN /\ o.reject \in BOOLEAN
    BY DEF Evaluate
  <1>8. CASE o.reject
    <2>1. Filtered(m, a, script) =
             [copies |-> {}, redirects |-> <<>>, reject |-> ~null, vacation |-> FALSE,
              asked |-> {<<IF null THEN "waive" ELSE "reject", a>>}]
      BY <1>8 DEF Filtered
    <2>2. QED
      BY <2>1 DEF Shares
  <1>9. CASE ~o.reject
    <2> DEFINE copies == (IF o.keep THEN {Inbox} ELSE {}) \cup {f \in o.folders : f[2] \in SafeNames}
               asks == IF o.discarded \/ (null /\ o.redirects > 0) THEN {<<"waive", a>>} ELSE {}
    <2>1. Filtered(m, a, script) =
             [copies |-> copies, redirects |-> out \o Forwards(m, a), reject |-> FALSE,
              vacation |-> o.vacation, asked |-> asks]
      BY <1>9 DEF Filtered
    <2>2. copies \in SUBSET (Nat \X Boxes)
      BY <1>5, <1>6
    <2>3. asks \in SUBSET ({"reject", "waive"} \X {a})
      OBVIOUS
    <2> HIDE DEF copies, asks, out, o
    <2>4. QED
      BY <2>1, <2>2, <2>3, <1>3, <1>7 DEF Shares
  <1>10. QED
    BY <1>7, <1>8, <1>9

LEMMA ShareTyped ==
  ASSUME NEW m, NEW a \in Accounts, NEW hint \in SafeNames \cup {"none"}, NEW script \in Scripts[a]
  PROVE  ForAccount(m, a, hint, script) \in Shares(a)
  <1>1. CASE hint # "none"
    <2>1. <<0, hint>> \in Nat \X Boxes
      BY <1>1 DEF Boxes
    <2>2. QED
      BY <1>1, <2>1 DEF ForAccount, Hinted, Shares
  <1>2. CASE hint = "none" /\ script = NoFilter
    <2>1. WithoutFilter(m, a).copies \in SUBSET (Nat \X Boxes)
      BY DEF WithoutFilter, Inbox, Boxes
    <2>2. WithoutFilter(m, a) \in Shares(a)
      BY <2>1, ForwardsTyped DEF WithoutFilter, Shares
    <2>3. QED
      BY <1>2, <2>2 DEF ForAccount
  <1>3. CASE hint = "none" /\ script # NoFilter
    BY <1>3, FilteredTyped DEF ForAccount
  <1>4. QED
    BY <1>1, <1>2, <1>3

LEMMA ReturnsTyped ==
  ASSUME NEW m, m.rcpts \in Seq(DOMAIN Members)
  PROVE  Returns(m) \in Seq({Returned}) /\ Items(Returns(m)) \subseteq {Returned}
  <1> DEFINE J == {j \in DOMAIN m.rcpts : m.rcpts[j] \in SrsReturns}
  <1>0. DOMAIN m.rcpts = 1 .. Len(m.rcpts) /\ Len(m.rcpts) \in Nat
    BY LenProperties
  <1>1. IsFiniteSet(1 .. Len(m.rcpts)) /\ J \subseteq 1 .. Len(m.rcpts)
    BY <1>0, FS_Interval
  <1>2. Cardinality(J) \in Nat
    BY <1>1, FS_Subset, FS_CardinalityType
  <1>3. QED
    BY <1>2, ItemsConstant DEF Returns, Returned

\* The messages to store, in order.
LEMMA QueuedTyped ==
  ASSUME NEW m, m.rcpts \in Seq(DOMAIN Members), NEW p \in Plans
  PROVE  /\ Queued(m, p) \in Seq(Things)
         /\ Items(Queued(m, p)) = Items(Bounce(m, p)) \cup Items(p.redirects) \cup Items(p.replies)
                                    \cup Items(Returns(m)) \cup Items(Relay(m))
  <1>1. p.redirects \in Seq(Things) /\ p.replies \in Seq(Things)
    <2>1. /\ p.redirects \in Seq({"redirect", "forward"} \X Accounts)
          /\ p.replies \in Seq({"reply"} \X Accounts)
      BY DEF Plans
    <2>2. /\ {"redirect", "forward"} \X Accounts \subseteq Things
          /\ {"reply"} \X Accounts \subseteq Things
      BY DEF Things
    <2>3. QED
      BY <2>1, <2>2, SeqMonotonic
  <1>2. Bounce(m, p) \in Seq(Things) /\ Relay(m) \in Seq(Things)
    <2>1. {<<"bounce", NoAccount>>, <<"relay", NoAccount>>} \subseteq Things
      BY DEF Things
    <2>2. QED
      BY <2>1, Singleton DEF Bounce, Relay
  <1>3. Returns(m) \in Seq(Things)
    <2>1. Returned \in Things
      BY DEF Things, Returned
    <2>2. QED
      BY <2>1, ReturnsTyped, SeqMonotonic
  <1> DEFINE q1 == Bounce(m, p) \o p.redirects
             q2 == q1 \o p.replies
             q3 == q2 \o Returns(m)
  <1>4. q1 \in Seq(Things) /\ Items(q1) = Items(Bounce(m, p)) \cup Items(p.redirects)
    BY <1>1, <1>2, ItemsJoin
  <1> HIDE DEF q1
  <1>5. q2 \in Seq(Things) /\ Items(q2) = Items(q1) \cup Items(p.replies)
    BY <1>1, <1>4, ItemsJoin
  <1> HIDE DEF q2
  <1>6. q3 \in Seq(Things) /\ Items(q3) = Items(q2) \cup Items(Returns(m))
    BY <1>3, <1>5, ItemsJoin
  <1> HIDE DEF q3
  <1>7. q3 \o Relay(m) \in Seq(Things) /\ Items(q3 \o Relay(m)) = Items(q3) \cup Items(Relay(m))
    BY <1>2, <1>6, ItemsJoin
  <1>8. Queued(m, p) = q3 \o Relay(m)
    BY DEF Queued, q1, q2, q3
  <1>9. QED
    BY <1>4, <1>5, <1>6, <1>7, <1>8

----------------------------------------------------------------------------
(* Types.                                                                  *)

Codes == {"none", "250", "4xx", "5xx", "cut"}

LEMMA Limits ==
  /\ MaxFaults \in Nat /\ MaxTime \in Nat /\ GreylistDelay \in Nat /\ VacationDays \in Nat
  /\ GreylistAge \in Nat /\ MaxForwardHops \in Nat
  BY InboundAssumption

LEMMA FaultTyped ==
  ASSUME TypeOK, Fault
  PROVE  faults' \in 0 .. MaxFaults /\ faults' = faults + 1
  BY Limits DEF TypeOK, Fault

\* A handler goes on to a step that needs no account in hand, or replies.
LEMMA Decided ==
  ASSUME TypeOK, NEW c \in Conns, NEW p \in Stages \ {"copy", "vacation", "mark"},
         Goto(c, p) \/ \E code \in Codes : Reply(c, code)
  PROVE  /\ pc' \in [Conns -> Stages] /\ answer' \in [Conns -> Codes]
         /\ \A d \in Conns : pc'[d] \in {"copy", "vacation", "mark"} => pc[d] = pc'[d]
  <1>1. pc \in [Conns -> Stages] /\ answer \in [Conns -> Codes] /\ "done" \in Stages
    BY DEF TypeOK, Codes, Stages
  <1>2. CASE Goto(c, p)
    BY <1>1, <1>2 DEF Goto
  <1>3. ASSUME NEW code \in Codes, Reply(c, code)
        PROVE  /\ pc' \in [Conns -> Stages] /\ answer' \in [Conns -> Codes]
               /\ \A d \in Conns : pc'[d] \in {"copy", "vacation", "mark"} => pc[d] = pc'[d]
    BY <1>1, <1>3 DEF Reply
  <1>4. QED
    BY <1>2, <1>3

LEMMA StartTyped == Init => TypeOK
  <1> SUFFICES ASSUME Init PROVE TypeOK
    OBVIOUS
  <1>1. Nothing \in Plans
    BY DEF Nothing, Plans
  <1>2. mail \in [Conns -> Messages] /\ \A c \in Conns : mail[c] \in Mails[c]
    BY DEF Init
  <1>3. faults \in 0 .. MaxFaults /\ clock \in Times
    BY InboundAssumption DEF Init, Times
  <1>4. /\ pc \in [Conns -> Stages] /\ \A c \in Conns : pc[c] = "idle"
        /\ answer \in [Conns -> {"none", "250", "4xx", "5xx", "cut"}]
    BY DEF Init, Stages
  <1>5. /\ left \in [Conns -> SUBSET Accounts] /\ served \in [Conns -> SUBSET Accounts]
        /\ \A c \in Conns : left[c] = {}
        /\ boxes \in [Conns -> SUBSET (Nat \X Boxes)]
        /\ plan \in [Conns -> Plans] /\ todo \in [Conns -> Seq(Things)] /\ DOMAIN box = Conns
    BY <1>1 DEF Init
  <1>6. /\ firstSeen \in [Keys -> Times \cup {Never}] /\ firstTry \in [Keys -> Times \cup {Never}]
        /\ marker \in [Correspondents -> Times \cup {Never}]
        /\ answered \in [Correspondents -> Seq(Times)]
    BY DEF Init
  <1>7. /\ made \in [Conns -> [Things -> Nat]] /\ spread \in [Conns -> SUBSET Things]
        /\ asked \in [Conns -> SUBSET ({"reject", "waive"} \X Accounts)]
        /\ suspect \subseteq Conns /\ raced \in BOOLEAN /\ live \subseteq Accounts
        /\ attempts \in [Conns -> Nat]
    BY DEF Init
  <1>8. QED
    BY <1>2, <1>3, <1>4, <1>5, <1>6, <1>7 DEF TypeOK

LEMMA MailTyped ==
  ASSUME TypeOK, NEW c \in Conns
  PROVE  /\ mail[c].rcpts \in Seq(DOMAIN Members) /\ mail[c].rcpts # <<>>
         /\ mail[c].hops \in Nat /\ mail[c].auth \in BOOLEAN
         /\ mail[c].from \in Senders /\ Key(mail[c]) \in Keys
         /\ ~mail[c].auth => Rcpts(mail[c]) \cap Remote = {}
         /\ Rcpts(mail[c]) \subseteq DOMAIN Members
  <1>1. mail[c] \in Mails[c] /\ mail[c] \in Messages
    BY DEF TypeOK
  <1>2. mail[c].rcpts \in Seq(DOMAIN Members) /\ mail[c].rcpts # <<>>
    BY <1>1, MailsAssumption
  <1>3. mail[c].rcpts[1] \in DOMAIN Members
    BY <1>2, EmptySeq, LenProperties, ElementOfSeq
  <1>4. QED
    BY <1>1, <1>2, <1>3, MailsAssumption DEF Senders, Key, Keys, Rcpts

LEMMA WhoTyped ==
  ASSUME TypeOK, NEW c \in Conns, left[c] # {}
  PROVE  InHand(c) \in left[c] /\ InHand(c) \in Accounts /\ Who(c) \in Correspondents
  <1>1. left[c] \subseteq Accounts
    BY DEF TypeOK
  <1>2. QED
    BY <1>1, InHandIn, MailTyped DEF Who, Correspondents

LEMMA BeginTyped ==
  ASSUME TypeOK, NEW c \in Conns, Begin(c)
  PROVE  TypeOK'
  <1>1. Nothing \in Plans
    BY DEF Nothing, Plans
  <1>2. firstTry' \in [Keys -> Times \cup {Never}]
    BY MailTyped DEF Begin, TypeOK
  <1>3. QED
    BY <1>1, <1>2 DEF Begin, TypeOK, Stages, world, request, progress, effects, history

LEMMA ScreenTyped ==
  ASSUME TypeOK, NEW c \in Conns, Screen(c)
  PROVE  TypeOK'
  <1>0. "Rejects" \in SafeNames
    BY InboundAssumption
  <1>1. CASE Hops(c)
    BY <1>1 DEF Hops, Goto, Reply, NotPlaced, Screening, request, world, effects, TypeOK, Stages
  <1>2. CASE Dnsbl(c)
    <2>1. Goto(c, "greylist") \/ \E code \in Codes : Reply(c, code)
      BY <1>2 DEF Dnsbl, Codes
    <2>2. /\ pc' \in [Conns -> Stages] /\ answer' \in [Conns -> Codes]
          /\ \A d \in Conns : pc'[d] \in {"copy", "vacation", "mark"} => pc[d] = pc'[d]
      BY <2>1, Decided DEF Stages
    <2>3. QED
      BY <1>2, <2>2 DEF Dnsbl, NotPlaced, Screening, request, world, effects, TypeOK, Codes
  <1>3. CASE Greylist(c)
    <2>1. firstSeen' \in [Keys -> Times \cup {Never}]
      BY <1>3, MailTyped DEF Greylist, TypeOK
    <2>2. Goto(c, "authenticate") \/ \E code \in Codes : Reply(c, code)
      BY <1>3 DEF Greylist, Codes
    <2>3. /\ pc' \in [Conns -> Stages] /\ answer' \in [Conns -> Codes]
          /\ \A d \in Conns : pc'[d] \in {"copy", "vacation", "mark"} => pc[d] = pc'[d]
      BY <2>2, Decided DEF Stages
    <2>4. UNCHANGED <<request, progress, live, marker, clock, effects, history, faults>>
      BY <1>3 DEF Greylist
    <2>5. QED
      BY <2>1, <2>3, <2>4 DEF request, progress, effects, history, TypeOK, Codes
  <1>4. CASE Authenticate(c)
    <2>1. Goto(c, "reputation") \/ \E code \in Codes : Reply(c, code)
      BY <1>4 DEF Authenticate, Codes
    <2>2. /\ pc' \in [Conns -> Stages] /\ answer' \in [Conns -> Codes]
          /\ \A d \in Conns : pc'[d] \in {"copy", "vacation", "mark"} => pc[d] = pc'[d]
      BY <2>1, Decided DEF Stages
    <2>3. QED
      BY <1>4, <2>2 DEF Authenticate, NotPlaced, Screening, request, world, effects, TypeOK, Codes
  <1>5. CASE Reputation(c)
    BY <1>0, <1>5 DEF Reputation, Quarantine, Goto, NotPlaced, Screening, request, world, effects, TypeOK, Stages
  <1>6. CASE Hook(c)
    <2>1. Goto(c, "llm") \/ \E code \in Codes : Reply(c, code)
      BY <1>6 DEF Hook, Codes
    <2>2. /\ pc' \in [Conns -> Stages] /\ answer' \in [Conns -> Codes]
          /\ \A d \in Conns : pc'[d] \in {"copy", "vacation", "mark"} => pc[d] = pc'[d]
      BY <2>1, Decided DEF Stages
    <2>3. NotPlaced \/ Quarantine(c)
      BY <1>6 DEF Hook
    <2>4. QED
      BY <1>0, <1>6, <2>2, <2>3
      DEF Hook, Quarantine, NotPlaced, Screening, request, world, effects, TypeOK, Codes
  <1>7. CASE Llm(c)
    BY <1>0, <1>7 DEF Llm, Quarantine, Goto, NotPlaced, Screening, request, world, effects, TypeOK, Stages
  <1>8. QED
    BY <1>1, <1>2, <1>3, <1>4, <1>5, <1>6, <1>7 DEF Screen

LEMMA RouteTyped ==
  ASSUME TypeOK, NEW c \in Conns, Route(c)
  PROVE  TypeOK'
  <1> DEFINE m == mail[c]
             b == Target(m, box[c])
  <1>1. AccountsFor(m) \subseteq Accounts
    <2>1. \A r \in Local(m) : Members[r] \subseteq Accounts
      BY MailTyped, InboundAssumption DEF Local
    <2>2. QED
      BY <2>1 DEF AccountsFor
  <1>2. ~Unroutable(m, b) /\ AccountsFor(m) # {} => b \in SafeNames \cup {"none"}
    BY DEF Unroutable, AccountsFor
  <1>3. CASE Unroutable(m, b)
    BY <1>3 DEF Route, Reply, request, world, effects, TypeOK, Stages
  <1>4. CASE ~Unroutable(m, b)
    <2>1. Goto(c, "local")
      BY <1>4 DEF Route
    <2>2. /\ pc' \in [Conns -> Stages] /\ answer' \in [Conns -> Codes]
          /\ \A d \in Conns : pc'[d] \in {"copy", "vacation", "mark"} => pc[d] = pc'[d]
      BY <2>1, Decided DEF Stages
    <2>3. pc'[c] = "local"
      BY <2>1 DEF Goto, TypeOK
    <2>4. /\ left' = [left EXCEPT ![c] = AccountsFor(m)] /\ box' = [box EXCEPT ![c] = b]
          /\ served' = [served EXCEPT ![c] = AccountsFor(m)]
      BY <1>4 DEF Route
    <2>5. \A d \in Conns : left'[d] # {} => box'[d] \in SafeNames \cup {"none"}
      BY <1>2, <1>4, <2>4 DEF TypeOK
    <2>6. \A d \in Conns : pc'[d] \in {"copy", "vacation", "mark"} => left'[d] # {}
      BY <2>2, <2>3, <2>4 DEF TypeOK
    <2>7. QED
      BY <1>1, <2>2, <2>4, <2>5, <2>6 DEF Route, request, world, effects, TypeOK, Codes
  <1>5. QED
    BY <1>3, <1>4

LEMMA ServeTyped ==
  ASSUME TypeOK, NEW c \in Conns, Serve(c)
  PROVE  TypeOK'
  <1> DEFINE a == InHand(c)
  <1>1. a \in Accounts /\ left[c] # {}
    BY WhoTyped DEF Serve
  <1>2. PICK script \in Scripts[a] :
           LET one == ForAccount(mail[c], a, box[c], script)
           IN  /\ boxes' = [boxes EXCEPT ![c] = one.copies]
               /\ plan' = [plan EXCEPT ![c] =
                     [redirects |-> @.redirects \o one.redirects, reject |-> @.reject \/ one.reject,
                      vacation |-> one.vacation, replies |-> @.replies]]
               /\ asked' = [asked EXCEPT ![c] = @ \cup one.asked]
    BY DEF Serve
  <1> DEFINE one == ForAccount(mail[c], a, box[c], script)
  <1>3. one \in Shares(a)
    BY <1>1, ShareTyped DEF TypeOK
  <1> HIDE DEF one
  <1>4. plan[c] \in Plans
    BY DEF TypeOK
  <1>5. plan[c].redirects \o one.redirects \in Seq({"redirect", "forward"} \X Accounts)
    <2>1. Elsewhere(a) \subseteq {"redirect", "forward"} \X Accounts
      BY <1>1 DEF Elsewhere
    <2>2. one.redirects \in Seq({"redirect", "forward"} \X Accounts)
      BY <1>3, <2>1, SeqMonotonic DEF Shares
    <2>3. QED
      BY <1>4, <2>2, ConcatProperties DEF Plans
  <1>6. plan' \in [Conns -> Plans]
    <2> DEFINE p == [redirects |-> plan[c].redirects \o one.redirects,
                     reject |-> plan[c].reject \/ one.reject,
                     vacation |-> one.vacation, replies |-> plan[c].replies]
    <2>1. p \in Plans
      BY <1>3, <1>4, <1>5 DEF Plans, Shares
    <2>2. plan' = [plan EXCEPT ![c] = p]
      BY <1>2 DEF one
    <2> HIDE DEF p
    <2>3. QED
      BY <2>1, <2>2 DEF TypeOK
  <1>7. boxes' \in [Conns -> SUBSET (Nat \X Boxes)]
    BY <1>2, <1>3 DEF one, Shares, TypeOK
  <1>8. asked' \in [Conns -> SUBSET ({"reject", "waive"} \X Accounts)]
    BY <1>1, <1>2, <1>3 DEF one, Shares, TypeOK
  <1>9. QED
    BY <1>1, <1>6, <1>7, <1>8 DEF Serve, Goto, request, world, effects, TypeOK, Stages

LEMMA MakeTyped ==
  ASSUME TypeOK, NEW c \in Conns, NEW t \in Things, Make(c, t)
  PROVE  made' \in [Conns -> [Things -> Nat]] /\ spread' \in [Conns -> SUBSET Things]
  BY DEF Make, TypeOK

LEMMA NextTyped ==
  ASSUME TypeOK, NEW c \in Conns, NextAccount(c)
  PROVE  /\ pc' \in [Conns -> Stages] /\ answer' \in [Conns -> Codes]
         /\ left' \in [Conns -> SUBSET Accounts]
         /\ \A d \in Conns : left'[d] \subseteq left[d]
         /\ \A d \in Conns : pc'[d] \in {"copy", "vacation", "mark"} => pc[d] = pc'[d] /\ left'[d] # {}
  <1>1. Goto(c, "local") /\ left' = [left EXCEPT ![c] = @ \ {InHand(c)}]
    BY DEF NextAccount
  <1>2. pc' = [pc EXCEPT ![c] = "local"] /\ answer' = answer
    BY <1>1 DEF Goto
  <1>3. QED
    BY <1>1, <1>2 DEF TypeOK, Codes, Stages

LEMMA CopiesTyped ==
  ASSUME TypeOK, NEW c \in Conns, WriteCopy(c) \/ WriteFails(c) \/ CopiesDone(c)
  PROVE  TypeOK'
  <1>1. CASE WriteCopy(c)
    <2>1. boxes[c] \subseteq Nat \X Boxes /\ left[c] # {}
      BY <1>1 DEF WriteCopy, TypeOK
    <2>2. <<FirstBox(c)[2], InHand(c)>> \in Things
      BY <1>1, <2>1, FirstBoxIn, WhoTyped DEF WriteCopy, Things, Copies
    <2>3. made' \in [Conns -> [Things -> Nat]] /\ spread' \in [Conns -> SUBSET Things]
      BY <1>1, <2>2, MakeTyped DEF WriteCopy
    <2>4. QED
      BY <1>1, <2>3 DEF WriteCopy, request, world, history, TypeOK
  <1>2. CASE WriteFails(c)
    BY <1>2, InboundAssumption DEF WriteFails, Fault, Reply, request, progress, world, effects, history, TypeOK, Stages
  <1>3. CASE CopiesDone(c)
    <2>1. CASE plan[c].vacation
      BY <1>3, <2>1 DEF CopiesDone, Goto, request, world, effects, history, TypeOK, Stages
    <2>2. CASE ~plan[c].vacation
      BY <1>3, <2>2, NextTyped DEF CopiesDone, request, world, effects, history, TypeOK, Codes
    <2>3. QED
      BY <2>1, <2>2
  <1>4. QED
    BY <1>1, <1>2, <1>3

LEMMA VacationTyped ==
  ASSUME TypeOK, NEW c \in Conns, VacationCheck(c) \/ VacationMark(c)
  PROVE  TypeOK'
  <1>1. CASE VacationCheck(c)
    <2>1. CASE ~Suppressed(mail[c]) /\ Due(marker[Who(c)])
      BY <1>1, <2>1 DEF VacationCheck, Goto, request, world, effects, TypeOK, Stages
    <2>2. CASE ~(~Suppressed(mail[c]) /\ Due(marker[Who(c)]))
      BY <1>1, <2>2, NextTyped DEF VacationCheck, request, world, effects, TypeOK, Codes
    <2>3. QED
      BY <2>1, <2>2
  <1>2. CASE VacationMark(c)
    <2>1. InHand(c) \in Accounts /\ Who(c) \in Correspondents
      BY <1>2, WhoTyped DEF VacationMark, TypeOK
    <2>2. marker' \in [Correspondents -> Times \cup {Never}]
      BY <1>2, <2>1 DEF VacationMark, TypeOK
    <2>3. answered' \in [Correspondents -> Seq(Times)]
      BY <1>2, <2>1, AppendProperties DEF VacationMark, TypeOK
    <2>4. plan' \in [Conns -> Plans]
      <3>1. plan[c] \in Plans /\ plan \in [Conns -> Plans]
        BY DEF TypeOK
      <3>2. Append(plan[c].replies, <<"reply", InHand(c)>>) \in Seq({"reply"} \X Accounts)
        BY <2>1, <3>1, AppendProperties DEF Plans
      <3>3. [plan[c] EXCEPT !.replies = Append(plan[c].replies, <<"reply", InHand(c)>>)] \in Plans
        BY <3>1, <3>2 DEF Plans
      <3>4. plan' = [plan EXCEPT ![c] = [plan[c] EXCEPT !.replies = Append(plan[c].replies, <<"reply", InHand(c)>>)]]
        BY <1>2, <3>1 DEF VacationMark
      <3>5. QED
        BY <3>1, <3>3, <3>4
    <2>5. raced' \in BOOLEAN /\ faults' \in 0 .. MaxFaults
      BY <1>2, FaultTyped DEF VacationMark, TypeOK
    <2>6. NextAccount(c)
      BY <1>2 DEF VacationMark
    <2>7. QED
      BY <1>2, <2>2, <2>3, <2>4, <2>5, <2>6, NextTyped
      DEF VacationMark, request, effects, TypeOK, Codes
  <1>3. QED
    BY <1>1, <1>2

LEMMA SpoolTyped ==
  ASSUME TypeOK, NEW c \in Conns, Enqueue(c) \/ StoreNext(c) \/ StoreFails(c) \/ Accept(c)
  PROVE  TypeOK'
  <1>1. CASE Enqueue(c)
    <2>1. plan[c] \in Plans /\ mail[c].rcpts \in Seq(DOMAIN Members)
      BY MailTyped DEF TypeOK
    <2>2. Queued(mail[c], plan[c]) \in Seq(Things)
      BY <2>1, QueuedTyped
    <2>3. QED
      BY <1>1, <2>2 DEF Enqueue, Goto, request, world, effects, history, TypeOK, Stages
  <1>2. CASE StoreNext(c)
    <2>1. Head(todo[c]) \in Things /\ Tail(todo[c]) \in Seq(Things)
      BY <1>2, ItemsTail DEF StoreNext, TypeOK
    <2>2. made' \in [Conns -> [Things -> Nat]] /\ spread' \in [Conns -> SUBSET Things]
      BY <1>2, <2>1, MakeTyped DEF StoreNext
    <2>3. QED
      BY <1>2, <2>1, <2>2 DEF StoreNext, request, world, history, TypeOK
  <1>3. CASE StoreFails(c)
    BY <1>3, InboundAssumption DEF StoreFails, Fault, Reply, request, progress, world, effects, history, TypeOK, Stages
  <1>4. CASE Accept(c)
    <2>1. \E code \in Codes : Reply(c, code)
      BY <1>4 DEF Accept, Codes
    <2>2. faults' \in 0 .. MaxFaults
      BY <1>4, FaultTyped DEF Accept, TypeOK
    <2>3. /\ pc' \in [Conns -> Stages] /\ answer' \in [Conns -> Codes]
          /\ \A d \in Conns : pc'[d] \in {"copy", "vacation", "mark"} => pc[d] = pc'[d]
      BY <2>1, Decided DEF Stages
    <2>4. QED
      BY <1>4, <2>2, <2>3 DEF Accept, request, progress, world, effects, history, TypeOK, Codes
  <1>5. QED
    BY <1>1, <1>2, <1>3, <1>4

LEMMA WorldTyped ==
  ASSUME TypeOK, (\E c \in Conns : Retry(c)) \/ (\E a \in Accounts : RemoveAccount(a)) \/ Prune \/ Crash \/ Tick
  PROVE  TypeOK'
  <1>1. ASSUME NEW c \in Conns, Retry(c) PROVE TypeOK'
    BY <1>1 DEF Retry, Goto, request, progress, world, effects, history, TypeOK, Stages
  <1>2. ASSUME NEW a \in Accounts, RemoveAccount(a) PROVE TypeOK'
    BY <1>2 DEF RemoveAccount, request, progress, effects, history, TypeOK
  <1>3. CASE Prune
    BY <1>3 DEF Prune, request, progress, effects, history, TypeOK
  <1>4. CASE Crash
    <2>1. /\ pc' \in [Conns -> Stages] /\ answer' \in [Conns -> Codes]
          /\ \A d \in Conns : pc'[d] \in {"copy", "vacation", "mark"} => pc[d] = pc'[d]
      BY <1>4 DEF Crash, TypeOK, Stages, Codes
    <2>2. faults' \in 0 .. MaxFaults /\ firstSeen' \in [Keys -> Times \cup {Never}]
      BY <1>4, FaultTyped DEF Crash
    <2>3. QED
      BY <1>4, <2>1, <2>2 DEF Crash, request, progress, effects, history, TypeOK, Codes
  <1>5. CASE Tick
    BY <1>5, InboundAssumption DEF Tick, request, progress, effects, history, TypeOK, Times
  <1>6. QED
    BY <1>1, <1>2, <1>3, <1>4, <1>5

LEMMA StepTyped == TypeOK /\ [Next]_vars => TypeOK'
  <1> SUFFICES ASSUME TypeOK, [Next]_vars PROVE TypeOK'
    OBVIOUS
  <1>1. ASSUME NEW c \in Conns, Begin(c) \/ Screen(c) \/ Deliver(c) PROVE TypeOK'
    BY <1>1, BeginTyped, ScreenTyped, RouteTyped, ServeTyped, CopiesTyped, VacationTyped, SpoolTyped
    DEF Deliver
  <1>2. CASE UNCHANGED vars
    BY <1>2 DEF vars, request, progress, world, effects, history, TypeOK
  <1>3. QED
    BY <1>1, <1>2, WorldTyped DEF Next

\* Every variable keeps its type, and an account is in hand at every step that
\* needs one, for all messages, filters and faults (run.rs, routing.rs,
\* delivery.rs).
THEOREM TypeCorrect == Spec => []TypeOK
  BY StartTyped, StepTyped, PTL DEF Spec

----------------------------------------------------------------------------
(* A connection's step leaves the others alone.                            *)

Kept(d) ==
    /\ pc'[d] = pc[d] /\ answer'[d] = answer[d] /\ box'[d] = box[d] /\ left'[d] = left[d]
    /\ boxes'[d] = boxes[d] /\ plan'[d] = plan[d] /\ todo'[d] = todo[d]
    /\ made'[d] = made[d] /\ spread'[d] = spread[d] /\ served'[d] = served[d]
    /\ asked'[d] = asked[d] /\ (d \in suspect' <=> d \in suspect)

Handles(c) == Begin(c) \/ Screen(c) \/ Deliver(c) \/ Retry(c)

LEMMA OthersKept ==
  ASSUME TypeOK, NEW c \in Conns, Handles(c)
  PROVE  mail' = mail /\ \A d \in Conns \ {c} : Kept(d)
  <1> SUFFICES ASSUME NEW d \in Conns \ {c} PROVE mail' = mail /\ Kept(d)
    <2>1. mail' = mail
      BY DEF Handles, Begin, Screen, Deliver, Retry, Hops, Dnsbl, Greylist, Authenticate, Reputation,
             Hook, Llm, Screening, Route, Serve, WriteCopy, WriteFails, CopiesDone, VacationCheck,
             VacationMark, Enqueue, StoreNext, StoreFails, Accept, request
    <2>2. QED
      BY <2>1
  <1>1. CASE Begin(c)
    BY <1>1 DEF Begin, Kept, TypeOK
  <1>2. CASE Screen(c)
    <2>1. CASE Greylist(c)
      BY <2>1 DEF Greylist, Goto, Reply, request, progress, effects, history, Kept, TypeOK
    <2>2. CASE Hops(c)
      BY <2>2 DEF Hops, Goto, Reply, NotPlaced, Screening, request, effects, Kept, TypeOK
    <2>3. CASE Dnsbl(c)
      BY <2>3 DEF Dnsbl, Goto, Reply, NotPlaced, Screening, request, effects, Kept, TypeOK
    <2>4. CASE Authenticate(c)
      BY <2>4 DEF Authenticate, Goto, Reply, NotPlaced, Screening, request, effects, Kept, TypeOK
    <2>5. CASE Reputation(c)
      BY <2>5 DEF Reputation, Quarantine, Goto, NotPlaced, Screening, request, effects, Kept, TypeOK
    <2>6. CASE Hook(c)
      BY <2>6 DEF Hook, Quarantine, Goto, Reply, NotPlaced, Screening, request, effects, Kept, TypeOK
    <2>7. CASE Llm(c)
      BY <2>7 DEF Llm, Quarantine, Goto, NotPlaced, Screening, request, effects, Kept, TypeOK
    <2>8. QED
      BY <1>2, <2>1, <2>2, <2>3, <2>4, <2>5, <2>6, <2>7 DEF Screen
  <1>3. CASE Deliver(c)
    <2>1. CASE Route(c)
      <3>1. CASE Unroutable(mail[c], Target(mail[c], box[c]))
        BY <2>1, <3>1 DEF Route, Reply, request, effects, Kept, TypeOK
      <3>2. CASE ~Unroutable(mail[c], Target(mail[c], box[c]))
        BY <2>1, <3>2 DEF Route, Goto, request, effects, Kept, TypeOK
      <3>3. QED
        BY <3>1, <3>2
    <2>2. CASE Serve(c)
      <3>1. boxes'[d] = boxes[d] /\ plan'[d] = plan[d] /\ asked'[d] = asked[d]
        BY <2>2 DEF Serve, TypeOK
      <3>2. QED
        BY <2>2, <3>1 DEF Serve, Goto, request, effects, Kept, TypeOK
    <2>3. CASE WriteCopy(c)
      BY <2>3 DEF WriteCopy, Make, request, history, Kept, TypeOK
    <2>4. CASE WriteFails(c)
      BY <2>4 DEF WriteFails, Reply, request, progress, effects, history, Kept, TypeOK
    <2>5. CASE CopiesDone(c)
      BY <2>5 DEF CopiesDone, NextAccount, Goto, request, effects, history, Kept, TypeOK
    <2>6. CASE VacationCheck(c)
      BY <2>6 DEF VacationCheck, NextAccount, Goto, request, effects, Kept, TypeOK
    <2>7. CASE VacationMark(c)
      BY <2>7 DEF VacationMark, NextAccount, Goto, request, effects, Kept, TypeOK
    <2>8. CASE Enqueue(c)
      BY <2>8 DEF Enqueue, Goto, request, effects, history, Kept, TypeOK
    <2>9. CASE StoreNext(c)
      BY <2>9 DEF StoreNext, Make, request, history, Kept, TypeOK
    <2>10. CASE StoreFails(c)
      BY <2>10 DEF StoreFails, Reply, request, progress, effects, history, Kept, TypeOK
    <2>11. CASE Accept(c)
      BY <2>11 DEF Accept, Reply, request, progress, effects, history, Kept, TypeOK
    <2>12. QED
      BY <1>3, <2>1, <2>2, <2>3, <2>4, <2>5, <2>6, <2>7, <2>8, <2>9, <2>10, <2>11 DEF Deliver
  <1>4. CASE Retry(c)
    BY <1>4 DEF Retry, Goto, request, progress, effects, history, Kept, TypeOK
  <1>5. QED
    BY <1>1, <1>2, <1>3, <1>4 DEF Handles

\* The process dies: what the handler of d knew is not looked at again.
Dies(d) ==
    /\ pc[d] \notin {"idle", "done"}
    /\ pc'[d] = "done" /\ answer'[d] = "cut" /\ box'[d] = box[d] /\ left'[d] = left[d]
    /\ boxes'[d] = boxes[d] /\ plan'[d] = plan[d] /\ todo'[d] = todo[d]
    /\ made'[d] = made[d] /\ spread'[d] = spread[d] /\ served'[d] = served[d]
    /\ asked'[d] = asked[d] /\ (d \in suspect' <=> d \in suspect)

Surroundings == (\E a \in Accounts : RemoveAccount(a)) \/ Prune \/ Crash \/ Tick

LEMMA AllKept ==
  ASSUME TypeOK, Surroundings \/ UNCHANGED vars, NEW d \in Conns
  PROVE  mail' = mail /\ (Kept(d) \/ (Dies(d) /\ Crash))
  <1>1. CASE Crash
    BY <1>1 DEF Crash, request, progress, effects, history, Kept, Dies
  <1>2. CASE UNCHANGED vars
    BY <1>2 DEF vars, request, progress, effects, history, Kept
  <1>3. CASE Prune \/ Tick
    BY <1>3 DEF Prune, Tick, request, progress, effects, history, Kept
  <1>4. ASSUME NEW a \in Accounts, RemoveAccount(a) PROVE mail' = mail /\ Kept(d)
    BY <1>4 DEF RemoveAccount, request, progress, effects, history, Kept
  <1>5. QED
    BY <1>1, <1>2, <1>3, <1>4 DEF Surroundings

LEMMA Steps ==
  ASSUME [Next]_vars
  PROVE  (\E c \in Conns : Handles(c)) \/ Surroundings \/ UNCHANGED vars
  BY DEF Next, Handles, Surroundings

----------------------------------------------------------------------------
(* Quarantine.                                                             *)

\* What a handler's own step makes of its message.
LEMMA ScreenMoves ==
  ASSUME TypeOK, NEW c \in Conns, Screen(c)
  PROVE  /\ pc[c] \in Screens \cup {"hops"}
         /\ pc'[c] \in Screens \cup {"route", "done"}
         /\ pc'[c] \in Screens => pc[c] \in Screens \/ ~mail[c].auth
         /\ left'[c] = left[c] /\ boxes'[c] = boxes[c] /\ plan'[c] = plan[c] /\ todo'[c] = todo[c]
         /\ spread'[c] = spread[c] /\ asked'[c] = asked[c] /\ made'[c] = made[c]
         /\ served'[c] = served[c]
         /\ (c \in suspect' <=> c \in suspect) \/ (pc[c] \in Screens /\ c \in suspect' /\ box'[c] = "Rejects")
         /\ box'[c] \in {box[c], "Rejects"}
         /\ answer'[c] # "250" \/ answer'[c] = answer[c]
  <1>1. CASE Hops(c)
    BY <1>1 DEF Hops, Goto, Reply, NotPlaced, Screening, request, effects, TypeOK, Screens
  <1>2. CASE Dnsbl(c)
    BY <1>2 DEF Dnsbl, Goto, Reply, NotPlaced, Screening, request, effects, TypeOK, Screens
  <1>3. CASE Greylist(c)
    BY <1>3 DEF Greylist, Goto, Reply, request, progress, effects, history, TypeOK, Screens
  <1>4. CASE Authenticate(c)
    BY <1>4 DEF Authenticate, Goto, Reply, NotPlaced, Screening, request, effects, TypeOK, Screens
  <1>5. CASE Reputation(c)
    BY <1>5 DEF Reputation, Quarantine, Goto, NotPlaced, Screening, request, effects, TypeOK, Screens
  <1>6. CASE Hook(c)
    BY <1>6 DEF Hook, Quarantine, Goto, Reply, NotPlaced, Screening, request, effects, TypeOK, Screens
  <1>7. CASE Llm(c)
    BY <1>7 DEF Llm, Quarantine, Goto, NotPlaced, Screening, request, effects, TypeOK, Screens
  <1>8. QED
    BY <1>1, <1>2, <1>3, <1>4, <1>5, <1>6, <1>7 DEF Screen

LEMMA FreshOwn ==
  ASSUME TypeOK, NEW c \in Conns, Fresh(c), Handles(c)
  PROVE  Fresh(c)'
  <1>0. mail' = mail
    BY OthersKept
  <1>1. CASE Begin(c)
    BY <1>0, <1>1 DEF Begin, Fresh, TypeOK, Screens, Working
  <1>2. CASE Screen(c)
    BY <1>0, <1>2, ScreenMoves DEF Fresh, Screens, Working
  <1>3. CASE Route(c)
    <2>1. pc[c] = "route" /\ pc'[c] \in {"done", "local"} /\ todo' = todo
      BY <1>3 DEF Route, Goto, Reply, TypeOK
    <2>2. QED
      BY <2>1 DEF Fresh, Screens, Working
  <1>4. CASE Serve(c) \/ CopiesDone(c) \/ VacationCheck(c) \/ VacationMark(c)
    <2>1. pc[c] \in Working /\ pc'[c] \in Working /\ todo' = todo
      BY <1>4 DEF Serve, CopiesDone, VacationCheck, VacationMark, NextAccount, Goto, TypeOK, Working
    <2>2. QED
      BY <2>1 DEF Fresh, Screens, Working
  <1>5. CASE WriteCopy(c) \/ WriteFails(c)
    <2>1. pc[c] = "copy" /\ pc'[c] \in {"copy", "done"} /\ todo' = todo
      BY <1>5 DEF WriteCopy, WriteFails, Reply, progress, TypeOK
    <2>2. QED
      BY <2>1 DEF Fresh, Screens, Working
  <1>6. CASE Enqueue(c) \/ StoreNext(c) \/ StoreFails(c) \/ Accept(c) \/ Retry(c)
    <2>1. pc'[c] \in {"spool", "done", "idle"}
      BY <1>6 DEF Enqueue, StoreNext, StoreFails, Accept, Retry, Goto, Reply, TypeOK
    <2>2. QED
      BY <2>1 DEF Fresh, Screens, Working
  <1>7. QED
    BY <1>1, <1>2, <1>3, <1>4, <1>5, <1>6 DEF Handles, Deliver

LEMMA HeldOwn ==
  ASSUME TypeOK, NEW c \in Conns, Fresh(c), Held(c), Handles(c)
  PROVE  Held(c)'
  <1>0. mail' = mail
    BY OthersKept
  <1>1. CASE Begin(c)
    BY <1>1 DEF Begin, Held
  <1>2. CASE Screen(c)
    <2>1. CASE c \in suspect
      BY <1>0, <1>2, <2>1, ScreenMoves DEF Held, Screens
    <2>2. CASE c \notin suspect /\ c \in suspect'
      <3>1. pc[c] \in Screens /\ box'[c] = "Rejects"
        BY <1>2, <2>2, ScreenMoves
      <3>2. /\ ~mail[c].auth /\ boxes[c] = {} /\ plan[c] = Nothing /\ todo[c] = <<>> /\ spread[c] = {}
        BY <3>1 DEF Fresh
      <3>3. QED
        BY <1>0, <1>2, <3>1, <3>2, ScreenMoves, ItemsEmpty DEF Held, Screens
    <2>3. QED
      BY <2>1, <2>2 DEF Held
  <1> USE DEF Held
  <1>3. CASE Route(c)
    BY <1>0, <1>3 DEF Route, Target, Goto, Reply, effects, TypeOK
  <1>4. CASE Serve(c)
    <2> SUFFICES ASSUME c \in suspect PROVE Held(c)'
      BY <1>4 DEF Serve
    <2>1. PICK script \in Scripts[InHand(c)] :
             LET one == ForAccount(mail[c], InHand(c), box[c], script)
             IN  /\ boxes' = [boxes EXCEPT ![c] = one.copies]
                 /\ plan' = [plan EXCEPT ![c] =
                       [redirects |-> @.redirects \o one.redirects, reject |-> @.reject \/ one.reject,
                        vacation |-> one.vacation, replies |-> @.replies]]
      BY <1>4 DEF Serve
    <2>2. ForAccount(mail[c], InHand(c), box[c], script) =
             [copies |-> {<<0, "Rejects">>}, redirects |-> <<>>, reject |-> FALSE, vacation |-> FALSE,
              asked |-> {}]
      BY DEF ForAccount, Hinted
    <2>3. <<>> \o <<>> = <<>>
      BY ConcatEmptySeq
    <2>4. plan'[c] = Nothing /\ boxes'[c] = {<<0, "Rejects">>}
      <3>1. boxes' = [boxes EXCEPT ![c] = {<<0, "Rejects">>}]
        BY <2>1, <2>2
      <3>2. plan' = [plan EXCEPT ![c] =
                [redirects |-> plan[c].redirects \o <<>>, reject |-> plan[c].reject \/ FALSE,
                 vacation |-> FALSE, replies |-> plan[c].replies]]
        BY <2>1, <2>2
      <3>3. plan[c].redirects = <<>> /\ plan[c].reject = FALSE /\ plan[c].replies = <<>>
        BY DEF Nothing
      <3>4. plan'[c] = [redirects |-> <<>>, reject |-> FALSE, vacation |-> FALSE, replies |-> <<>>]
        BY <3>2, <3>3, <2>3 DEF TypeOK
      <3>5. QED
        BY <3>1, <3>4 DEF Nothing, TypeOK
    <2>5. QED
      BY <1>0, <1>4, <2>4 DEF Serve, Goto, effects, TypeOK
  <1>5. CASE WriteCopy(c)
    <2>1. boxes[c] # {} /\ boxes[c] \subseteq Nat \X Boxes /\ left[c] # {}
      BY <1>5 DEF WriteCopy, TypeOK
    <2>2. FirstBox(c) \in boxes[c] /\ InHand(c) \in Accounts
      BY <2>1, FirstBoxIn, WhoTyped
    <2>3. spread'[c] = spread[c] \cup {<<FirstBox(c)[2], InHand(c)>>} /\ boxes'[c] = boxes[c] \ {FirstBox(c)}
      BY <1>5 DEF WriteCopy, Make, TypeOK
    <2>4. QED
      BY <1>0, <1>5, <2>2, <2>3 DEF WriteCopy, history
  <1>6. CASE WriteFails(c) \/ StoreFails(c) \/ Accept(c)
    BY <1>0, <1>6 DEF WriteFails, StoreFails, Accept, Reply, progress, effects, history, TypeOK
  <1>7. CASE CopiesDone(c)
    BY <1>0, <1>7 DEF CopiesDone, NextAccount, Goto, Nothing, effects, history, TypeOK
  <1>8. CASE VacationCheck(c) \/ VacationMark(c)
    BY <1>8 DEF VacationCheck, VacationMark
  <1>9. CASE Enqueue(c)
    <2> SUFFICES ASSUME c \in suspect PROVE Held(c)'
      BY <1>9 DEF Enqueue, history
    <2>1. plan[c] \in Plans /\ mail[c].rcpts \in Seq(DOMAIN Members)
      BY MailTyped DEF TypeOK
    <2>2. Items(Bounce(mail[c], plan[c])) = {}
      BY ItemsEmpty DEF Bounce, Nothing
    <2>3. Items(Relay(mail[c])) = {}
      BY MailTyped, ItemsEmpty DEF Relay
    <2>4. Items(plan[c].redirects) = {} /\ Items(plan[c].replies) = {}
      BY ItemsEmpty DEF Nothing
    <2>5. Items(Queued(mail[c], plan[c])) \subseteq {Returned}
      <3>1. Items(Returns(mail[c])) \subseteq {Returned}
        BY <2>1, ReturnsTyped
      <3>2. Items(Queued(mail[c], plan[c])) =
               Items(Bounce(mail[c], plan[c])) \cup Items(plan[c].redirects) \cup Items(plan[c].replies)
                  \cup Items(Returns(mail[c])) \cup Items(Relay(mail[c]))
        BY <2>1, QueuedTyped
      <3>3. QED
        BY <2>2, <2>3, <2>4, <3>1, <3>2
    <2>6. todo'[c] = Queued(mail[c], plan[c])
      BY <1>9 DEF Enqueue, TypeOK
    <2>7. QED
      BY <1>0, <1>9, <2>5, <2>6 DEF Enqueue, Goto, effects, history, TypeOK
  <1>10. CASE StoreNext(c)
    <2>1. Items(todo[c]) = {Head(todo[c])} \cup Items(Tail(todo[c]))
      BY <1>10, ItemsTail DEF StoreNext, TypeOK
    <2>2. spread'[c] = spread[c] \cup {Head(todo[c])} /\ todo'[c] = Tail(todo[c])
      BY <1>10 DEF StoreNext, Make, TypeOK
    <2>3. QED
      BY <1>0, <1>10, <2>1, <2>2 DEF StoreNext, history
  <1>11. CASE Retry(c)
    BY <1>0, <1>11 DEF Retry, Goto, progress, effects, history, TypeOK
  <1>12. QED
    BY <1>1, <1>2, <1>3, <1>4, <1>5, <1>6, <1>7, <1>8, <1>9, <1>10, <1>11 DEF Handles, Deliver

ContainInv == TypeOK /\ \A c \in Conns : Fresh(c) /\ Held(c)

LEMMA StartContained == Init => ContainInv
  <1> SUFFICES ASSUME Init PROVE ContainInv
    OBVIOUS
  <1>1. \A c \in Conns : pc[c] = "idle"
    BY DEF Init
  <1>2. QED
    BY <1>1, StartTyped DEF Init, ContainInv, Fresh, Held, Screens, Working

LEMMA StepContained == ContainInv /\ [Next]_vars => ContainInv'
  <1> SUFFICES ASSUME ContainInv, [Next]_vars PROVE ContainInv'
    OBVIOUS
  <1>0. TypeOK /\ TypeOK' /\ \A c \in Conns : Fresh(c) /\ Held(c)
    BY StepTyped DEF ContainInv
  <1>1. ASSUME NEW c \in Conns, Handles(c), NEW d \in Conns PROVE Fresh(d)' /\ Held(d)'
    <2>1. CASE d = c
      BY <1>0, <1>1, <2>1, FreshOwn, HeldOwn
    <2>2. CASE d # c
      <3>1. mail' = mail /\ Kept(d)
        BY <1>0, <1>1, <2>2, OthersKept
      <3>2. QED
        BY <1>0, <3>1 DEF Kept, Fresh, Held
    <2>3. QED
      BY <2>1, <2>2
  <1>2. ASSUME Surroundings \/ UNCHANGED vars, NEW d \in Conns PROVE Fresh(d)' /\ Held(d)'
    <2>1. mail' = mail /\ (Kept(d) \/ Dies(d))
      BY <1>0, <1>2, AllKept
    <2>2. CASE Kept(d)
      BY <1>0, <2>1, <2>2 DEF Kept, Fresh, Held
    <2>3. CASE Dies(d)
      BY <1>0, <2>1, <2>3 DEF Dies, Fresh, Held, Screens, Working
    <2>4. QED
      BY <2>1, <2>2, <2>3
  <1>3. QED
    BY <1>0, <1>1, <1>2, Steps DEF ContainInv

\* A message that screening has quarantined stays in Rejects: no filter, rule,
\* forward, bounce or autoresponse takes it elsewhere, whatever fails and
\* however often the client tries (run.rs, the hint of deliver_for_account).
THEOREM Contained == Spec => []QuarantineContained
  <1>1. ContainInv => QuarantineContained
    BY DEF ContainInv, Held, QuarantineContained, Returned, TypeOK
  <1>2. QED
    BY <1>1, StartContained, StepContained, PTL DEF Spec

----------------------------------------------------------------------------
(* Bounces are never answered.                                             *)

LEMMA NullShare ==
  ASSUME NEW m, m.from = NullSender, NEW a \in Accounts, NEW hint, NEW script \in Scripts[a]
  PROVE  /\ ForAccount(m, a, hint, script).redirects = <<>>
         /\ ForAccount(m, a, hint, script).reject = FALSE
  <1>0. Forwards(m, a) = <<>> /\ <<>> \o <<>> = <<>>
    BY ForwardsTyped, ConcatEmptySeq
  <1>1. WithoutFilter(m, a).redirects = <<>> /\ WithoutFilter(m, a).reject = FALSE
    BY <1>0 DEF WithoutFilter
  <1>2. Hinted(a, hint).redirects = <<>> /\ Hinted(a, hint).reject = FALSE
    BY DEF Hinted
  <1>3. Filtered(m, a, script).redirects = <<>> /\ Filtered(m, a, script).reject = FALSE
    <2>1. CASE Evaluate(script).reject
      BY <2>1 DEF Filtered
    <2>2. CASE ~Evaluate(script).reject
      BY <1>0, <2>2 DEF Filtered
    <2>3. QED
      BY <2>1, <2>2
  <1>4. QED
    BY <1>1, <1>2, <1>3 DEF ForAccount

LEMMA QuietOwn ==
  ASSUME TypeOK, NEW c \in Conns, Quiet(c), Handles(c)
  PROVE  Quiet(c)'
  <1>0. mail' = mail
    BY OthersKept
  <1> SUFFICES ASSUME mail[c].from = NullSender PROVE Quiet(c)'
    BY <1>0 DEF Quiet
  <1> USE DEF Quiet
  <1>1. CASE Begin(c)
    BY <1>1, ItemsEmpty DEF Begin, Nothing, TypeOK
  <1>2. CASE Screen(c)
    BY <1>0, <1>2, ScreenMoves DEF Screens
  <1>3. CASE Route(c)
    BY <1>0, <1>3 DEF Route, Goto, Reply, effects, TypeOK
  <1>4. CASE Serve(c)
    <2>1. InHand(c) \in Accounts
      BY <1>4, WhoTyped DEF Serve
    <2>2. PICK script \in Scripts[InHand(c)] :
             LET one == ForAccount(mail[c], InHand(c), box[c], script)
             IN  plan' = [plan EXCEPT ![c] =
                       [redirects |-> @.redirects \o one.redirects, reject |-> @.reject \/ one.reject,
                        vacation |-> one.vacation, replies |-> @.replies]]
      BY <1>4 DEF Serve
    <2> DEFINE one == ForAccount(mail[c], InHand(c), box[c], script)
    <2>3. one.redirects = <<>> /\ one.reject = FALSE
      BY <2>1, NullShare
    <2>4. plan'[c] = [redirects |-> plan[c].redirects \o one.redirects,
                      reject |-> plan[c].reject \/ one.reject,
                      vacation |-> one.vacation, replies |-> plan[c].replies]
      BY <2>2 DEF TypeOK
    <2> HIDE DEF one
    <2>5. plan'[c].redirects = <<>> /\ plan'[c].replies = <<>> /\ ~plan'[c].reject
      <3>1. <<>> \o <<>> = <<>>
        BY ConcatEmptySeq
      <3>0. plan[c].reject = FALSE
        BY DEF TypeOK, Plans
      <3>2. plan'[c] = [redirects |-> <<>>, reject |-> FALSE,
                        vacation |-> one.vacation, replies |-> <<>>]
        BY <2>3, <2>4, <3>0, <3>1
      <3>3. QED
        BY <3>2
    <2>6. QED
      BY <1>0, <1>4, <2>5 DEF Serve, Goto, effects, TypeOK
  <1>5. CASE WriteCopy(c)
    <2>1. boxes[c] # {} /\ boxes[c] \subseteq Nat \X Boxes /\ left[c] # {}
      BY <1>5 DEF WriteCopy, TypeOK
    <2>2. <<FirstBox(c)[2], InHand(c)>> \in Copies
      BY <2>1, FirstBoxIn, WhoTyped DEF Copies
    <2>3. spread'[c] = spread[c] \cup {<<FirstBox(c)[2], InHand(c)>>}
      BY <1>5 DEF WriteCopy, Make, TypeOK
    <2>4. QED
      BY <1>0, <1>5, <2>2, <2>3 DEF WriteCopy
  <1>6. CASE WriteFails(c) \/ StoreFails(c) \/ Accept(c)
    BY <1>0, <1>6 DEF WriteFails, StoreFails, Accept, Reply, progress, effects, TypeOK
  <1>7. CASE CopiesDone(c)
    BY <1>0, <1>7 DEF CopiesDone, NextAccount, Goto, effects, TypeOK
  <1>8. CASE VacationCheck(c)
    BY <1>0, <1>8 DEF VacationCheck, Suppressed, NextAccount, Goto, effects, TypeOK
  <1>9. CASE VacationMark(c)
    BY <1>9 DEF VacationMark
  <1>10. CASE Enqueue(c)
    <2>1. plan[c] \in Plans /\ mail[c].rcpts \in Seq(DOMAIN Members)
      BY MailTyped DEF TypeOK
    <2>2. Items(Bounce(mail[c], plan[c])) = {}
      BY ItemsEmpty DEF Bounce
    <2>3. Items(Relay(mail[c])) \subseteq {<<"relay", NoAccount>>}
      BY ItemsEmpty, Singleton DEF Relay
    <2>4. Items(plan[c].redirects) = {} /\ Items(plan[c].replies) = {}
      BY ItemsEmpty
    <2>5. Items(Queued(mail[c], plan[c])) \subseteq {"return", "relay"} \X {NoAccount}
      <3>1. Items(Returns(mail[c])) \subseteq {Returned}
        BY <2>1, ReturnsTyped
      <3>2. Items(Queued(mail[c], plan[c])) =
               Items(Bounce(mail[c], plan[c])) \cup Items(plan[c].redirects) \cup Items(plan[c].replies)
                  \cup Items(Returns(mail[c])) \cup Items(Relay(mail[c]))
        BY <2>1, QueuedTyped
      <3>3. QED
        BY <2>2, <2>3, <2>4, <3>1, <3>2 DEF Returned
    <2>6. todo'[c] = Queued(mail[c], plan[c])
      BY <1>10 DEF Enqueue, TypeOK
    <2>7. QED
      BY <1>0, <1>10, <2>5, <2>6 DEF Enqueue, Goto, effects, TypeOK
  <1>11. CASE StoreNext(c)
    <2>1. Items(todo[c]) = {Head(todo[c])} \cup Items(Tail(todo[c]))
      BY <1>11, ItemsTail DEF StoreNext, TypeOK
    <2>2. spread'[c] = spread[c] \cup {Head(todo[c])} /\ todo'[c] = Tail(todo[c])
      BY <1>11 DEF StoreNext, Make, TypeOK
    <2>3. QED
      BY <1>0, <1>11, <2>1, <2>2 DEF StoreNext
  <1>12. CASE Retry(c)
    BY <1>0, <1>12 DEF Retry, Goto, progress, effects, TypeOK
  <1>13. QED
    BY <1>1, <1>2, <1>3, <1>4, <1>5, <1>6, <1>7, <1>8, <1>9, <1>10, <1>11, <1>12 DEF Handles, Deliver

----------------------------------------------------------------------------
(* The greylisting delay.                                                  *)

\* Only Begin records a first attempt, and only once.
LEMMA TriesKept ==
  ASSUME TypeOK, NEW c \in Conns, Handles(c), Known
  PROVE  /\ clock' = clock
         /\ \A k \in Keys : firstTry[k] # Never => firstTry'[k] = firstTry[k]
         /\ \A k \in Keys : firstTry'[k] <= clock
         /\ \A k \in Keys : firstSeen'[k] # firstSeen[k] =>
               pc[c] = "greylist" /\ k = Key(mail[c]) /\ firstSeen'[k] = clock
         /\ ~Begin(c) => firstTry' = firstTry
  <1>0. clock \in Nat /\ Key(mail[c]) \in Keys
    BY MailTyped, Limits DEF TypeOK, Times
  <1>1. CASE Begin(c)
    <2>1. clock' = clock /\ firstSeen' = firstSeen
      BY <1>1 DEF Begin, world
    <2>2. firstTry' = [firstTry EXCEPT ![Key(mail[c])] = IF @ = Never THEN clock ELSE @]
      BY <1>1 DEF Begin
    <2>3. QED
      BY <1>0, <1>1, <2>1, <2>2 DEF Known, TypeOK
  <1>2. CASE Greylist(c)
    <2>1. clock' = clock /\ firstTry' = firstTry /\ pc[c] = "greylist"
      BY <1>2 DEF Greylist, history
    <2>2. firstSeen' = firstSeen
          \/ firstSeen' = [firstSeen EXCEPT ![Key(mail[c])] = IF @ = Never THEN clock ELSE @]
      BY <1>2 DEF Greylist
    <2>3. QED
      BY <1>0, <2>1, <2>2 DEF Known, TypeOK
  <1>3. CASE ~Begin(c) /\ ~Greylist(c)
    <2>1. clock' = clock /\ firstSeen' = firstSeen /\ firstTry' = firstTry
      BY <1>3 DEF Handles, Screen, Deliver, Retry, Hops, Dnsbl, Authenticate, Reputation,
             Hook, Llm, Screening, Route, Serve, WriteCopy, WriteFails, CopiesDone, VacationCheck,
             VacationMark, Enqueue, StoreNext, StoreFails, Accept, world, history
    <2>2. QED
      BY <2>1, <1>3 DEF Known
  <1>4. QED
    BY <1>1, <1>2, <1>3

\* A handler of an unauthenticated client comes past the greylist only there.
LEMMA PassedBefore ==
  ASSUME TypeOK, NEW c \in Conns, Handles(c), ~mail[c].auth, ~Greylist(c), ~Begin(c)
  PROVE  /\ pc'[c] \in Passed => pc[c] \in Passed
         /\ spread'[c] # {} => pc[c] \in Passed \/ spread[c] # {}
         /\ pc'[c] # "idle" => pc[c] # "idle"
  <1>1. CASE Screen(c)
    <2>1. CASE Hops(c)
      BY <2>1 DEF Hops, Goto, Reply, Screening, effects, TypeOK, Passed, Working
    <2>2. CASE Dnsbl(c)
      BY <2>2 DEF Dnsbl, Goto, Reply, Screening, effects, TypeOK, Passed, Working
    <2>3. CASE Authenticate(c) \/ Reputation(c) \/ Hook(c) \/ Llm(c)
      <3>1. pc[c] \in Passed /\ pc[c] # "idle"
        BY <2>3 DEF Authenticate, Reputation, Hook, Llm, Passed, Working
      <3>2. QED
        BY <3>1
    <2>4. QED
      BY <1>1, <2>1, <2>2, <2>3 DEF Screen
  <1>2. CASE Deliver(c)
    <2>1. pc[c] \in Passed /\ pc[c] # "idle"
      BY <1>2 DEF Deliver, Route, Serve, WriteCopy, WriteFails, CopiesDone, VacationCheck, VacationMark,
                  Enqueue, StoreNext, StoreFails, Accept, Passed, Working
    <2>2. QED
      BY <2>1
  <1>3. CASE Retry(c)
    BY <1>3 DEF Retry, Goto, effects, TypeOK, Passed, Working
  <1>4. QED
    BY <1>1, <1>2, <1>3 DEF Handles

LEMMA NotIdle ==
  ASSUME TypeOK, NEW c \in Conns, Handles(c), ~Begin(c)
  PROVE  pc[c] # "idle"
  BY DEF Handles, Screen, Deliver, Retry, Hops, Dnsbl, Greylist, Authenticate, Reputation, Hook, Llm,
         Route, Serve, WriteCopy, WriteFails, CopiesDone, VacationCheck, VacationMark,
         Enqueue, StoreNext, StoreFails, Accept

LEMMA TriedOwn ==
  ASSUME TypeOK, NEW c \in Conns, Known, Tried(c), Handles(c)
  PROVE  Tried(c)'
  <1> DEFINE k == Key(mail[c])
  <1>0. /\ mail' = mail /\ clock \in Nat /\ k \in Keys /\ GreylistDelay \in Nat /\ clock' = clock
        /\ firstTry[k] \in Int /\ firstSeen[k] \in Int /\ firstTry'[k] <= clock
        /\ firstTry[k] # Never => firstTry'[k] = firstTry[k]
    <2>1. mail' = mail /\ k \in Keys /\ GreylistDelay \in Nat /\ MaxTime \in Nat
      BY OthersKept, MailTyped, Limits
    <2>2. clock \in Nat /\ firstTry[k] \in Int /\ firstSeen[k] \in Int
      BY <2>1 DEF TypeOK, Times, Never
    <2>3. QED
      BY <2>1, <2>2, TriesKept
  <1>1. CASE Begin(c)
    <2>1. firstTry'[k] # Never
      BY <1>0, <1>1 DEF Begin, TypeOK, Never
    <2>2. spread'[c] = {} /\ pc'[c] = "hops"
      BY <1>1 DEF Begin, TypeOK
    <2>3. QED
      BY <1>0, <2>1, <2>2 DEF Tried, Passed, Working
  <1>2. CASE Greylist(c)
    <2>1. firstTry[k] # Never /\ pc[c] = "greylist"
      BY <1>2 DEF Greylist, Tried
    <2>2. CASE GreylistDelay = 0 \/ Decide(firstSeen[k], clock)
      <3>1. clock - firstTry[k] >= GreylistDelay
        BY <1>0, <2>1, <2>2, TriesKept DEF Decide, Known
      <3>2. QED
        BY <1>0, <2>1, <3>1 DEF Tried
    <2>3. CASE ~(GreylistDelay = 0 \/ Decide(firstSeen[k], clock))
      <3>1. pc'[c] = "done" /\ spread'[c] = spread[c]
        BY <1>2, <2>3 DEF Greylist, Reply, effects, TypeOK
      <3>2. QED
        BY <1>0, <2>1, <3>1 DEF Tried, Passed, Working
    <2>4. QED
      BY <2>2, <2>3
  <1>3. CASE ~Begin(c) /\ ~Greylist(c)
    <2>1. firstTry[k] # Never
      BY <1>3, NotIdle DEF Tried
    <2>2. CASE mail[c].auth
      BY <1>0, <2>1, <2>2 DEF Tried
    <2>3. CASE ~mail[c].auth
      BY <1>0, <1>3, <2>1, <2>3, PassedBefore DEF Tried
    <2>4. QED
      BY <2>2, <2>3
  <1>4. QED
    BY <1>1, <1>2, <1>3

LEMMA KnownOwn ==
  ASSUME TypeOK, NEW c \in Conns, Known, Tried(c), Handles(c)
  PROVE  Known'
  <1> SUFFICES ASSUME NEW k \in Keys
               PROVE  /\ firstTry'[k] <= clock'
                      /\ firstSeen'[k] # Never => firstTry'[k] # Never /\ firstTry'[k] <= firstSeen'[k]
    BY DEF Known
  <1>0. clock' = clock /\ firstTry'[k] <= clock
    BY TriesKept
  <1>1. CASE firstSeen'[k] = firstSeen[k]
    BY <1>0, <1>1, TriesKept DEF Known
  <1>2. CASE firstSeen'[k] # firstSeen[k]
    <2>1. pc[c] = "greylist" /\ k = Key(mail[c]) /\ firstSeen'[k] = clock
      BY <1>2, TriesKept
    <2>2. firstTry[k] # Never
      BY <2>1 DEF Tried
    <2>3. QED
      BY <1>0, <2>1, <2>2, TriesKept
  <1>3. QED
    BY <1>0, <1>1, <1>2

LEMMA TimePasses ==
  ASSUME TypeOK, Surroundings \/ UNCHANGED vars
  PROVE  /\ clock' \in Nat /\ clock \in Nat /\ clock <= clock' /\ firstTry' = firstTry
         /\ \A k \in Keys : firstSeen'[k] \in {firstSeen[k], Never}
         /\ marker' = marker /\ answered' = answered /\ raced' = raced
  <1>0. clock \in Nat
    BY Limits DEF TypeOK, Times
  <1>1. CASE Crash
    BY <1>0, <1>1 DEF Crash, history
  <1>2. CASE Prune
    BY <1>0, <1>2 DEF Prune, history
  <1>3. CASE Tick
    BY <1>0, <1>3 DEF Tick, history
  <1>4. CASE UNCHANGED vars
    BY <1>0, <1>4 DEF vars, world, history
  <1>5. ASSUME NEW a \in Accounts, RemoveAccount(a)
        PROVE  clock' = clock /\ firstTry' = firstTry /\ firstSeen' = firstSeen
               /\ marker' = marker /\ answered' = answered /\ raced' = raced
    BY <1>5 DEF RemoveAccount, history
  <1>6. QED
    BY <1>0, <1>1, <1>2, <1>3, <1>4, <1>5 DEF Surroundings

----------------------------------------------------------------------------
(* Autoresponses.                                                          *)

LEMMA WhoKept ==
  ASSUME NEW d \in Conns, mail' = mail, left'[d] = left[d]
  PROVE  Who(d)' = Who(d) /\ InHand(d)' = InHand(d)
  <1>1. InHand(d)' = InHand(d)
    BY DEF InHand
  <1>2. QED
    BY <1>1 DEF Who

LEMMA TimesTyped ==
  ASSUME TypeOK, NEW w \in Correspondents
  PROVE  /\ clock \in Nat /\ VacationDays \in Nat /\ marker[w] \in Int
         /\ marker[w] # Never => marker[w] \in Nat
         /\ answered[w] \in Seq(Nat)
         /\ \A i \in DOMAIN answered[w] : answered[w][i] \in Nat
  <1>0. VacationDays \in Nat /\ MaxTime \in Nat
    BY Limits
  <1>1. clock \in Nat /\ marker[w] \in Int /\ (marker[w] # Never => marker[w] \in Nat)
    BY <1>0 DEF TypeOK, Times, Never
  <1>2. answered[w] \in Seq(Times) /\ Times \subseteq Nat
    BY <1>0 DEF TypeOK, Times
  <1>3. answered[w] \in Seq(Nat)
    BY <1>2, SeqMonotonic
  <1>4. QED
    BY <1>0, <1>1, <1>3

\* Only the vacation steps concern the markers.
LEMMA MarkersKept ==
  ASSUME TypeOK, NEW c \in Conns, Handles(c), ~VacationCheck(c), ~VacationMark(c)
  PROVE  marker' = marker /\ answered' = answered /\ raced' = raced /\ clock' = clock /\ pc'[c] # "mark"
  <1>1. CASE Begin(c)
    BY <1>1 DEF Begin, world, TypeOK
  <1>2. CASE Screen(c)
    <2>1. pc'[c] # "mark"
      BY <1>2, ScreenMoves DEF Screens
    <2>2. QED
      BY <1>2, <2>1 DEF Screen, Hops, Dnsbl, Greylist, Authenticate, Reputation, Hook, Llm, Screening,
                        world, history
  <1>3. CASE Route(c) \/ Serve(c) \/ WriteCopy(c) \/ WriteFails(c)
    BY <1>3 DEF Route, Serve, WriteCopy, WriteFails, Goto, Reply, world, history, TypeOK
  <1>4. CASE CopiesDone(c)
    BY <1>4 DEF CopiesDone, NextAccount, Goto, world, history, TypeOK
  <1>5. CASE Enqueue(c) \/ StoreNext(c) \/ StoreFails(c) \/ Accept(c)
    BY <1>5 DEF Enqueue, StoreNext, StoreFails, Accept, Goto, Reply, world, history, TypeOK
  <1>6. CASE Retry(c)
    BY <1>6 DEF Retry, Goto, world, history, TypeOK
  <1>7. QED
    BY <1>1, <1>2, <1>3, <1>4, <1>5, <1>6 DEF Handles, Deliver

\* An autoresponse that is due joins the earlier ones.
LEMMA MarkedStep ==
  ASSUME TypeOK, NEW w \in Correspondents, Marked(w), Due(marker[w]),
         marker'[w] = clock, answered'[w] = Append(answered[w], clock), clock' = clock
  PROVE  Marked(w)'
  <1> DEFINE s == answered[w]
             n == Len(s)
  <1>0. /\ clock \in Nat /\ VacationDays \in Nat /\ marker[w] \in Int /\ s \in Seq(Nat)
        /\ n \in Nat /\ DOMAIN s = 1 .. n
        /\ \A i \in DOMAIN s : s[i] \in Nat
    BY TimesTyped, LenProperties
  <1>1. /\ DOMAIN answered'[w] = 1 .. (n + 1)
        /\ answered'[w][n + 1] = clock
        /\ \A i \in 1 .. n : answered'[w][i] = s[i]
    BY <1>0, AppendProperties, LenProperties
  <1>2. \A i \in 1 .. n : s[i] <= clock /\ clock - s[i] >= VacationDays
    <2>1. CASE marker[w] = Never
      BY <1>0, <2>1 DEF Marked
    <2>2. CASE marker[w] # Never
      <3>1. clock - marker[w] >= VacationDays
        BY <2>2 DEF Due
      <3>2. \A i \in 1 .. n : s[i] <= marker[w] /\ s[i] \in Nat
        BY <1>0 DEF Marked
      <3>3. QED
        BY <1>0, <3>1, <3>2
    <2>3. QED
      BY <2>1, <2>2
  <1>3. \A i \in DOMAIN answered'[w] : answered'[w][i] <= clock
    <2> SUFFICES ASSUME NEW i \in 1 .. (n + 1) PROVE answered'[w][i] <= clock
      BY <1>1
    <2>1. CASE i = n + 1
      BY <1>0, <1>1, <2>1
    <2>2. CASE i \in 1 .. n
      BY <1>1, <1>2, <2>2
    <2>3. QED
      BY <1>0, <2>1, <2>2
  <1>4. ASSUME NEW i \in DOMAIN answered'[w], NEW j \in DOMAIN answered'[w], i < j
        PROVE  answered'[w][j] - answered'[w][i] >= VacationDays
    <2>0. i \in 1 .. n /\ j \in 1 .. (n + 1)
      BY <1>0, <1>1, <1>4
    <2>1. CASE j = n + 1
      BY <1>1, <1>2, <2>0, <2>1
    <2>2. CASE j \in 1 .. n
      BY <1>0, <1>1, <1>4, <2>0, <2>2 DEF Marked
    <2>3. QED
      BY <1>0, <2>0, <2>1, <2>2
  <1>5. clock # Never
    BY <1>0 DEF Never
  <1>6. QED
    BY <1>0, <1>3, <1>4, <1>5 DEF Marked

LEMMA VacationOwn ==
  ASSUME TypeOK, NEW c \in Conns, VacationInv, Handles(c)
  PROVE  VacationInv'
  <1>0. mail' = mail /\ \A d \in Conns \ {c} : Kept(d)
    BY OthersKept
  <1>1. \A d \in Conns \ {c} : pc'[d] = pc[d] /\ Who(d)' = Who(d)
    BY <1>0, WhoKept DEF Kept
  <1> SUFFICES ASSUME ~raced'
               PROVE  (\A w \in Correspondents : Marked(w)') /\ \A d \in Conns : Marking(d)'
    BY DEF VacationInv
  <1>2. CASE VacationCheck(c)
    <2>1. ~raced /\ marker' = marker /\ answered' = answered /\ clock' = clock
      BY <1>2 DEF VacationCheck, world, TypeOK
    <2>2. \A w \in Correspondents : Marked(w)'
      BY <2>1 DEF VacationInv, Marked
    <2>3. CASE ~Suppressed(mail[c]) /\ Due(marker[Who(c)])
      <3>1. left' = left /\ pc'[c] = "mark"
        BY <1>2, <2>3 DEF VacationCheck, Goto, TypeOK
      <3>2. Who(c)' = Who(c)
        BY <1>0, <3>1, WhoKept
      <3>3. \A d \in Conns : pc[d] = "mark" => Who(d) # Who(c)
        BY <1>2, <2>3 DEF VacationCheck
      <3>4. Due(marker[Who(c)])'
        BY <2>1, <2>3, <3>2 DEF Due
      <3>5. ASSUME NEW d \in Conns PROVE Marking(d)'
        <4>1. CASE d = c
          BY <1>1, <3>2, <3>3, <3>4, <4>1 DEF Marking
        <4>2. CASE d # c /\ pc[d] = "mark"
          <5>1. Due(marker[Who(d)]) /\ \A e \in Conns \ {d} : pc[e] = "mark" => Who(e) # Who(d)
            BY <2>1, <4>2 DEF VacationInv, Marking
          <5>2. Due(marker[Who(d)])'
            BY <1>1, <2>1, <4>2, <5>1 DEF Due
          <5>3. ASSUME NEW e \in Conns \ {d}, pc'[e] = "mark" PROVE Who(e)' # Who(d)'
            BY <1>1, <3>2, <3>3, <4>2, <5>1, <5>3
          <5>4. QED
            BY <5>2, <5>3 DEF Marking
        <4>3. CASE d # c /\ pc[d] # "mark"
          BY <1>1, <4>3 DEF Marking
        <4>4. QED
          BY <4>1, <4>2, <4>3
      <3>6. QED
        BY <2>2, <3>5
    <2>4. CASE ~(~Suppressed(mail[c]) /\ Due(marker[Who(c)]))
      <3>1. pc'[c] = "local"
        BY <1>2, <2>4 DEF VacationCheck, NextAccount, Goto, TypeOK
      <3>2. QED
        BY <1>1, <2>1, <2>2, <3>1 DEF VacationInv, Marking, Due
    <2>5. QED
      BY <2>3, <2>4
  <1>3. CASE VacationMark(c)
    <2>0a. Who(c) \in Correspondents /\ pc[c] = "mark"
      BY <1>3, WhoTyped DEF VacationMark, TypeOK
    <2>0. PICK w \in Correspondents : w = Who(c) /\ pc[c] = "mark"
      BY <2>0a
    <2>1. /\ ~raced /\ marker' = [marker EXCEPT ![w] = clock] /\ clock' = clock
          /\ answered' = [answered EXCEPT ![w] = Append(@, clock)]
      BY <1>3, <2>0 DEF VacationMark, TypeOK
    <2>2. Marked(w) /\ Due(marker[w]) /\ \A d \in Conns \ {c} : pc[d] = "mark" => Who(d) # w
      BY <2>0, <2>1 DEF VacationInv, Marking
    <2>3. pc'[c] = "local"
      BY <1>3 DEF VacationMark, NextAccount, Goto, TypeOK
    <2>4. marker'[w] = clock /\ answered'[w] = Append(answered[w], clock)
      BY <2>0, <2>1 DEF TypeOK
    <2>5. \A v \in Correspondents : v # w => marker'[v] = marker[v] /\ answered'[v] = answered[v]
      BY <2>0, <2>1 DEF TypeOK
    <2>6. Marked(w)'
      BY <2>0, <2>1, <2>2, <2>4, MarkedStep
    <2>7. ASSUME NEW v \in Correspondents PROVE Marked(v)'
      <3>1. CASE v = w
        BY <2>6, <3>1
      <3>2. CASE v # w
        BY <2>1, <2>5, <3>2 DEF VacationInv, Marked
      <3>3. QED
        BY <3>1, <3>2
    <2>8. ASSUME NEW d \in Conns, pc'[d] = "mark"
          PROVE  /\ Due(marker[Who(d)])'
                 /\ \A e \in Conns \ {d} : pc'[e] = "mark" => Who(e)' # Who(d)'
      <3>1. d # c /\ pc[d] = "mark" /\ Who(d)' = Who(d)
        BY <1>1, <2>3, <2>8
      <3>2. Due(marker[Who(d)]) /\ \A e \in Conns \ {d} : pc[e] = "mark" => Who(e) # Who(d)
        BY <2>1, <3>1 DEF VacationInv, Marking
      <3>3. Who(d) # w /\ Who(d) \in Correspondents
        BY <2>2, <3>1, WhoTyped DEF TypeOK
      <3>4. QED
        BY <1>1, <2>1, <2>3, <2>5, <3>1, <3>2, <3>3 DEF Due
    <2>9. QED
      BY <2>7, <2>8 DEF Marking
  <1>4. CASE ~VacationCheck(c) /\ ~VacationMark(c)
    <2>1. marker' = marker /\ answered' = answered /\ raced' = raced /\ clock' = clock /\ pc'[c] # "mark"
      BY <1>4, MarkersKept
    <2>2. QED
      BY <1>1, <2>1 DEF VacationInv, Marked, Marking, Due
  <1>5. QED
    BY <1>2, <1>3, <1>4

LEMMA VacationWorld ==
  ASSUME TypeOK, VacationInv, Surroundings \/ UNCHANGED vars
  PROVE  VacationInv'
  <1>1. /\ clock' \in Nat /\ clock \in Nat /\ clock <= clock'
        /\ marker' = marker /\ answered' = answered /\ raced' = raced
    BY TimePasses
  <1>2. ASSUME NEW d \in Conns, pc'[d] = "mark" PROVE pc[d] = "mark" /\ Who(d)' = Who(d)
    <2>1. mail' = mail /\ Kept(d)
      BY <1>2, AllKept DEF Dies
    <2>2. QED
      BY <1>2, <2>1, WhoKept DEF Kept
  <1> SUFFICES ASSUME ~raced
               PROVE  (\A w \in Correspondents : Marked(w)') /\ \A d \in Conns : Marking(d)'
    BY <1>1 DEF VacationInv
  <1>3. ASSUME NEW w \in Correspondents PROVE Marked(w)'
    <2>1. marker[w] \in Int
      BY TimesTyped
    <2>2. QED
      BY <1>1, <2>1 DEF VacationInv, Marked
  <1>4. ASSUME NEW d \in Conns, pc'[d] = "mark"
        PROVE  /\ Due(marker[Who(d)])'
               /\ \A e \in Conns \ {d} : pc'[e] = "mark" => Who(e)' # Who(d)'
    <2>1. pc[d] = "mark" /\ Who(d)' = Who(d)
      BY <1>2, <1>4
    <2>2. Due(marker[Who(d)]) /\ \A e \in Conns \ {d} : pc[e] = "mark" => Who(e) # Who(d)
      BY <2>1 DEF VacationInv, Marking
    <2>3. Who(d) \in Correspondents
      BY <2>1, WhoTyped DEF TypeOK
    <2>4. marker[Who(d)] \in Int /\ VacationDays \in Nat
      BY <2>3, TimesTyped
    <2>5. Due(marker[Who(d)])'
      BY <1>1, <2>1, <2>2, <2>4 DEF Due
    <2>6. QED
      BY <1>2, <2>1, <2>2, <2>5
  <1>5. QED
    BY <1>3, <1>4 DEF Marking

RepliesInv ==
    /\ TypeOK /\ Known /\ VacationInv
    /\ \A c \in Conns : Quiet(c) /\ Tried(c)

LEMMA StartReplies == Init => RepliesInv
  <1> SUFFICES ASSUME Init PROVE RepliesInv
    OBVIOUS
  <1>1. \A c \in Conns : Quiet(c) /\ Tried(c)
    BY ItemsEmpty DEF Init, Quiet, Tried, Passed, Working, Nothing
  <1>2. Known
    BY DEF Init, Known, Never
  <1>3. VacationInv
    <2>1. \A c \in Conns : Marking(c)
      BY DEF Init, Marking
    <2>2. \A w \in Correspondents : marker[w] = -1 /\ answered[w] = <<>> /\ clock = 0
      BY DEF Init, Never
    <2>3. QED
      BY <2>1, <2>2 DEF VacationInv, Marked, Never
  <1>4. QED
    BY <1>1, <1>2, <1>3, StartTyped DEF RepliesInv

LEMMA StepReplies == RepliesInv /\ [Next]_vars => RepliesInv'
  <1> SUFFICES ASSUME RepliesInv, [Next]_vars PROVE RepliesInv'
    OBVIOUS
  <1>0. TypeOK /\ TypeOK' /\ Known /\ VacationInv /\ \A c \in Conns : Quiet(c) /\ Tried(c)
    BY StepTyped DEF RepliesInv
  <1>1. ASSUME NEW c \in Conns, Handles(c) PROVE RepliesInv'
    <2>1. Known' /\ VacationInv'
      BY <1>0, <1>1, KnownOwn, VacationOwn
    <2>2. ASSUME NEW d \in Conns PROVE Quiet(d)' /\ Tried(d)'
      <3>1. CASE d = c
        BY <1>0, <1>1, <3>1, QuietOwn, TriedOwn
      <3>2. CASE d # c
        <4>1. mail' = mail /\ Kept(d)
          BY <1>0, <1>1, <3>2, OthersKept
        <4>2. Key(mail[d]) \in Keys
          BY <1>0, MailTyped
        <4>3. clock' = clock /\ (firstTry[Key(mail[d])] # Never =>
                                   firstTry'[Key(mail[d])] = firstTry[Key(mail[d])])
          BY <1>0, <1>1, <4>2, TriesKept
        <4>4. Tried(d)'
          BY <1>0, <4>1, <4>3 DEF Kept, Tried
        <4>5. Quiet(d)'
          BY <1>0, <4>1 DEF Kept, Quiet
        <4>6. QED
          BY <4>4, <4>5
      <3>3. QED
        BY <3>1, <3>2
    <2>3. QED
      BY <1>0, <2>1, <2>2 DEF RepliesInv
  <1>2. ASSUME Surroundings \/ UNCHANGED vars PROVE RepliesInv'
    <2>0. /\ clock' \in Nat /\ clock \in Nat /\ clock <= clock' /\ firstTry' = firstTry
          /\ \A k \in Keys : firstSeen'[k] \in {firstSeen[k], Never}
      BY <1>0, <1>2, TimePasses
    <2>1. VacationInv'
      BY <1>0, <1>2, VacationWorld
    <2>2. Known'
      <3>1. \A k \in Keys : firstTry[k] \in Int
        BY <1>0, Limits DEF TypeOK, Times, Never
      <3>2. QED
        BY <1>0, <2>0, <3>1 DEF Known
    <2>3. ASSUME NEW d \in Conns PROVE Quiet(d)' /\ Tried(d)'
      <3>1. mail' = mail /\ (Kept(d) \/ Dies(d))
        BY <1>0, <1>2, AllKept
      <3>2. firstTry[Key(mail[d])] \in Int /\ GreylistDelay \in Nat
        <4>1. Key(mail[d]) \in Keys
          BY <1>0, MailTyped
        <4>2. QED
          BY <1>0, <4>1, Limits DEF TypeOK, Times, Never
      <3>3. CASE Kept(d)
        <4>1. Quiet(d)'
          BY <1>0, <3>1, <3>3 DEF Kept, Quiet
        <4>2. Tried(d)'
          BY <1>0, <2>0, <3>1, <3>2, <3>3 DEF Kept, Tried
        <4>3. QED
          BY <4>1, <4>2
      <3>4. CASE Dies(d)
        <4>1. Quiet(d)'
          BY <1>0, <3>1, <3>4 DEF Dies, Quiet
        <4>2. Tried(d)'
          BY <1>0, <2>0, <3>1, <3>2, <3>4 DEF Dies, Tried, Passed, Working
        <4>3. QED
          BY <4>1, <4>2
      <3>5. QED
        BY <3>1, <3>3, <3>4
    <2>4. QED
      BY <1>0, <2>1, <2>2, <2>3 DEF RepliesInv
  <1>3. QED
    BY <1>1, <1>2, Steps

\* A bounce is never bounced, redirected, forwarded or answered; two
\* autoresponses of an account to one sender are the configured days apart, also
\* across restarts, unless two deliveries met at the marker or it could not be
\* written; and nothing of a client that did not authenticate is stored before
\* the greylisting delay is over, whatever is pruned or forgotten (routing.rs,
\* delivery_vacation.rs, greylist.rs).
THEOREM Replies == Spec => []RepliesRight
  <1>1. RepliesInv => RepliesRight
    <2> SUFFICES ASSUME RepliesInv PROVE RepliesRight
      OBVIOUS
    <2>1. NoBackscatter
      BY DEF RepliesInv, Quiet, NoBackscatter
    <2>2. VacationOnce
      BY DEF RepliesInv, VacationInv, Marked, VacationOnce
    <2>3. GreylistHeld
      BY DEF RepliesInv, Tried, GreylistHeld
    <2>4. QED
      BY <2>1, <2>2, <2>3 DEF RepliesRight
  <1>2. QED
    BY <1>1, StartReplies, StepReplies, PTL DEF Spec

----------------------------------------------------------------------------
(* Nothing is dropped.  A filter that files into a name that is no single  *)
(* path segment cancels the keep and gets no copy (README), so the theorem *)
(* is about filters that do not.                                           *)

FiledSafely ==
    \A a \in Accounts : \A script \in Scripts[a] \ {NoFilter} : \A i \in DOMAIN script :
        script[i].do = "fileinto" => script[i].to \in SafeNames

\* Every account gets a copy, sends the message on, refuses it or gives it up.
Answers(one, a) ==
    \/ one.copies # {}
    \/ Elsewhere(a) \cap Items(one.redirects) # {}
    \/ one.reject /\ <<"reject", a>> \in one.asked
    \/ <<"waive", a>> \in one.asked

LEMMA FilteredAnswers ==
  ASSUME FiledSafely, NEW m, NEW a \in Accounts, NEW script \in Scripts[a], script # NoFilter
  PROVE  Answers(Filtered(m, a, script), a)
  <1> DEFINE o == Evaluate(script)
             null == m.from = NullSender
             n == o.redirects
             out == IF null THEN <<>> ELSE [i \in 1 .. n |-> <<"redirect", a>>]
  <1>1. CASE o.reject
    <2>1. Filtered(m, a, script) =
             [copies |-> {}, redirects |-> <<>>, reject |-> ~null, vacation |-> FALSE,
              asked |-> {<<IF null THEN "waive" ELSE "reject", a>>}]
      BY <1>1 DEF Filtered
    <2>2. CASE null
      <3>1. Filtered(m, a, script).asked = {<<"waive", a>>}
        BY <2>1, <2>2
      <3>2. QED
        BY <3>1 DEF Answers
    <2>3. CASE ~null
      <3>1. Filtered(m, a, script).asked = {<<"reject", a>>}
        BY <2>1, <2>3
      <3>2. Filtered(m, a, script).reject
        <4> DEFINE q == ~null
        <4>1. Filtered(m, a, script).reject = q
          <5> HIDE DEF q, null
          <5>1. QED
            BY <2>1 DEF q
        <4>2. QED
          BY <2>3, <4>1
      <3>3. QED
        BY <3>1, <3>2 DEF Answers
    <2>4. QED
      BY <2>2, <2>3
  <1>2. CASE ~o.reject
    <2> DEFINE copies == (IF o.keep THEN {Inbox} ELSE {}) \cup {f \in o.folders : f[2] \in SafeNames}
               asks == IF o.discarded \/ (null /\ o.redirects > 0) THEN {<<"waive", a>>} ELSE {}
    <2>1. Filtered(m, a, script) =
             [copies |-> copies, redirects |-> out \o Forwards(m, a), reject |-> FALSE,
              vacation |-> o.vacation, asked |-> asks]
      BY <1>2 DEF Filtered
    <2>2. o.keep => copies # {}
      OBVIOUS
    <2>3. ASSUME ~o.keep
          PROVE  o.discarded \/ (\E f \in o.folders : f[2] \in SafeNames) \/ Does(script, "redirect") # {}
      <3>1. PICK i \in DOMAIN script :
               \/ script[i].do \in {"discard", "reject"}
               \/ script[i].do \in {"fileinto", "redirect"} /\ ~script[i].copy
        BY <2>3 DEF Evaluate, Cancels
      <3>2. script[i].do # "reject"
        BY <1>2 DEF Evaluate, Does
      <3>3. CASE script[i].do = "discard"
        BY <3>3 DEF Evaluate, Does
      <3>4. CASE script[i].do = "redirect"
        BY <3>4 DEF Does
      <3>5. CASE script[i].do = "fileinto"
        <4>1. <<i, script[i].to>> \in o.folders
          BY <3>5 DEF Evaluate, Does
        <4>2. script[i].to \in SafeNames
          BY <3>5 DEF FiledSafely
        <4>3. QED
          BY <4>1, <4>2
      <3>6. QED
        BY <3>1, <3>2, <3>3, <3>4, <3>5
    <2>4. ASSUME Does(script, "redirect") # {}
          PROVE  <<"waive", a>> \in asks \/ <<"redirect", a>> \in Items(out \o Forwards(m, a))
      <3>1. n \in Nat /\ n > 0
        BY <2>4, RedirectsTyped DEF Evaluate
      <3>2. CASE null
        BY <3>1, <3>2
      <3>3. CASE ~null
        <4> DEFINE e == <<"redirect", a>>
        <4>1. out = [i \in 1 .. n |-> e]
          BY <3>3
        <4>2. e \in Elsewhere(a) /\ Forwards(m, a) \in Seq(Elsewhere(a))
          BY ForwardsTyped DEF Elsewhere
        <4> HIDE DEF out, o, n, e, null
        <4>3. out \in Seq(Elsewhere(a)) /\ e \in Items(out)
          BY <3>1, <4>1, <4>2, ItemsConstant
        <4>4. Items(out \o Forwards(m, a)) = Items(out) \cup Items(Forwards(m, a))
          BY <4>2, <4>3, ItemsJoin
        <4>5. e \in Items(out \o Forwards(m, a))
          BY <4>3, <4>4
        <4>6. QED
          BY <4>5 DEF e
      <3>4. QED
        BY <3>2, <3>3
    <2>5. (\E f \in o.folders : f[2] \in SafeNames) => copies # {}
      OBVIOUS
    <2>6. o.discarded => <<"waive", a>> \in asks
      OBVIOUS
    <2>7. \/ copies # {} \/ <<"waive", a>> \in asks
          \/ <<"redirect", a>> \in Items(out \o Forwards(m, a))
      BY <2>2, <2>3, <2>4, <2>5, <2>6
    <2> HIDE DEF copies, asks, out, o
    <2>8. QED
      BY <2>1, <2>7 DEF Answers, Elsewhere
  <1>3. QED
    BY <1>1, <1>2

LEMMA ShareAnswers ==
  ASSUME FiledSafely, NEW m, NEW a \in Accounts, NEW hint, NEW script \in Scripts[a]
  PROVE  Answers(ForAccount(m, a, hint, script), a)
  <1>1. CASE hint # "none"
    BY <1>1 DEF ForAccount, Hinted, Answers
  <1>2. CASE hint = "none" /\ script = NoFilter
    <2>1. Answers(WithoutFilter(m, a), a)
      BY ForwardsTyped DEF WithoutFilter, Answers, Elsewhere
    <2>2. QED
      BY <1>2, <2>1 DEF ForAccount
  <1>3. CASE hint = "none" /\ script # NoFilter
    BY <1>3, FilteredAnswers DEF ForAccount
  <1>4. QED
    BY <1>1, <1>2, <1>3

\* What is settled stays so while accounts are served, and in the spool.
LEMMA SettledServing ==
  ASSUME NEW c \in Conns, NEW a, Settled(c, a), mail' = mail,
         pc[c] \in Working, pc'[c] \in Working,
         spread[c] \subseteq spread'[c], asked[c] \subseteq asked'[c],
         Items(plan[c].redirects) \subseteq Items(plan'[c].redirects),
         plan[c].reject => plan'[c].reject
  PROVE  Settled(c, a)'
  BY DEF Settled, Coming

LEMMA SettledStoring ==
  ASSUME NEW c \in Conns, NEW a, Settled(c, a), mail' = mail,
         pc[c] \notin Working, pc'[c] \notin Working,
         spread[c] \subseteq spread'[c], asked' = asked,
         Items(todo[c]) \subseteq Items(todo'[c]) \cup spread'[c]
  PROVE  Settled(c, a)'
  BY DEF Settled, Coming, Told

\* The account in hand is done.
LEMMA NextAccounted ==
  ASSUME TypeOK, NEW c \in Conns, Accounted(c), NextAccount(c), mail' = mail, served' = served,
         pc[c] \in {"copy", "vacation", "mark"}, boxes[c] = {},
         answer' = answer, spread' = spread, asked' = asked,
         plan'[c].redirects = plan[c].redirects, plan'[c].reject = plan[c].reject
  PROVE  Accounted(c)'
  <1>1. pc'[c] = "local" /\ left'[c] = left[c] \ {InHand(c)}
    BY DEF NextAccount, Goto, TypeOK
  <1>2. \A a \in served[c] \ left'[c] : Settled(c, a)
    BY <1>1 DEF Accounted, Working
  <1>3. \A a \in served[c] \ left'[c] : Settled(c, a)'
    BY <1>1, <1>2, SettledServing DEF Working
  <1>4. answer'[c] # "250"
    BY DEF Accounted
  <1>5. QED
    BY <1>1, <1>3, <1>4 DEF Accounted, Working

LEMMA AccountedOwn ==
  ASSUME FiledSafely, TypeOK, NEW c \in Conns, Fresh(c), Accounted(c), Handles(c)
  PROVE  Accounted(c)'
  <1>0. mail' = mail
    BY OthersKept
  <1>1. CASE Begin(c)
    BY <1>1 DEF Begin, Accounted, Working, TypeOK
  <1>2. CASE Screen(c)
    BY <1>2, ScreenMoves DEF Accounted, Screens, Working
  <1>3. CASE Route(c)
    <2>1. pc[c] = "route" /\ answer[c] # "250"
      BY <1>3 DEF Route, Accounted
    <2>2. CASE Unroutable(mail[c], Target(mail[c], box[c]))
      <3>1. pc'[c] = "done" /\ answer'[c] = "4xx"
        BY <1>3, <2>2 DEF Route, Reply, TypeOK
      <3>2. QED
        BY <3>1 DEF Accounted, Working
    <2>3. CASE ~Unroutable(mail[c], Target(mail[c], box[c]))
      <3>1. pc'[c] = "local" /\ answer'[c] = answer[c] /\ left'[c] = served'[c]
        BY <1>3, <2>3 DEF Route, Goto, TypeOK
      <3>2. QED
        BY <2>1, <3>1 DEF Accounted, Working
    <2>4. QED
      BY <2>2, <2>3
  <1>4. CASE Serve(c)
    <2>0. /\ pc[c] = "local" /\ pc'[c] = "copy" /\ answer' = answer /\ left' = left /\ served' = served
          /\ spread' = spread
      BY <1>4 DEF Serve, Goto, effects, TypeOK
    <2>1. InHand(c) \in Accounts /\ left[c] # {}
      BY <1>4, WhoTyped DEF Serve
    <2>2. PICK script \in Scripts[InHand(c)] :
             LET one == ForAccount(mail[c], InHand(c), box[c], script)
             IN  /\ boxes' = [boxes EXCEPT ![c] = one.copies]
                 /\ plan' = [plan EXCEPT ![c] =
                       [redirects |-> @.redirects \o one.redirects, reject |-> @.reject \/ one.reject,
                        vacation |-> one.vacation, replies |-> @.replies]]
                 /\ asked' = [asked EXCEPT ![c] = @ \cup one.asked]
      BY <1>4 DEF Serve
    <2> DEFINE a == InHand(c)
               one == ForAccount(mail[c], a, box[c], script)
    <2>3. one \in Shares(a) /\ Answers(one, a)
      BY <2>1, ShareTyped, ShareAnswers DEF TypeOK
    <2> DEFINE was == plan[c]
               any == was.reject \/ one.reject
               joined == was.redirects \o one.redirects
    <2>4. /\ boxes'[c] = one.copies /\ asked'[c] = asked[c] \cup one.asked
          /\ plan'[c] = [redirects |-> joined, reject |-> any,
                         vacation |-> one.vacation, replies |-> was.replies]
      BY <2>2 DEF TypeOK
    <2> HIDE DEF one, any, joined
    <2>5. Items(plan'[c].redirects) = Items(plan[c].redirects) \cup Items(one.redirects)
      <3>1. plan[c].redirects \in Seq({"redirect", "forward"} \X Accounts)
        BY DEF TypeOK, Plans
      <3>2. one.redirects \in Seq({"redirect", "forward"} \X Accounts)
        <4>1. Elsewhere(a) \subseteq {"redirect", "forward"} \X Accounts
          BY <2>1 DEF Elsewhere
        <4>2. one.redirects \in Seq(Elsewhere(a))
          BY <2>3 DEF Shares
        <4>3. QED
          BY <4>1, <4>2, SeqMonotonic
      <3>3. plan'[c].redirects = joined
        BY <2>4
      <3>4. QED
        BY <3>1, <3>2, <3>3, ItemsJoin DEF joined
    <2>6. (plan[c].reject => plan'[c].reject) /\ (one.reject => plan'[c].reject)
      <3>1. plan'[c].reject = any
        BY <2>4
      <3>2. QED
        BY <3>1 DEF any
    <2>7. ASSUME NEW b \in served[c] \ left[c] PROVE Settled(c, b)'
      <3>1. Settled(c, b)
        BY <2>0 DEF Accounted, Working
      <3>2. QED
        BY <1>0, <2>0, <2>4, <2>5, <2>6, <3>1, SettledServing DEF Working
    <2>8. InHand(c)' = a
      BY <1>0, <2>0, WhoKept
    <2>9. boxes'[c] # {} \/ Settled(c, InHand(c))'
      <3>1. CASE Elsewhere(a) \cap Items(one.redirects) # {}
        BY <2>0, <2>5, <2>8, <3>1 DEF Settled, Coming, Working, Elsewhere
      <3>2. CASE one.reject /\ <<"reject", a>> \in one.asked
        BY <2>0, <2>4, <2>6, <2>8, <3>2 DEF Settled, Working
      <3>3. CASE <<"waive", a>> \in one.asked
        BY <2>4, <2>8, <3>3 DEF Settled
      <3>4. QED
        BY <2>3, <2>4, <3>1, <3>2, <3>3 DEF Answers
    <2>10. left[c] \subseteq served[c] /\ answer[c] # "250"
      BY <2>0 DEF Accounted, Working
    <2>11. QED
      BY <2>0, <2>7, <2>9, <2>10 DEF Accounted, Working
  <1>5. CASE WriteCopy(c)
    <2>1. boxes[c] # {} /\ boxes[c] \subseteq Nat \X Boxes /\ left[c] # {}
      BY <1>5 DEF WriteCopy, TypeOK
    <2>2. FirstBox(c)[2] \in Boxes
      BY <2>1, FirstBoxIn
    <2>3. /\ spread'[c] = spread[c] \cup {<<FirstBox(c)[2], InHand(c)>>}
          /\ pc' = pc /\ answer' = answer /\ left' = left /\ served' = served /\ plan' = plan
          /\ asked' = asked /\ pc[c] = "copy"
      BY <1>5 DEF WriteCopy, Make, history, TypeOK
    <2>4. InHand(c)' = InHand(c)
      BY <1>0, <2>3, WhoKept
    <2>5. Settled(c, InHand(c))'
      BY <2>2, <2>3, <2>4 DEF Settled
    <2>6. \A a \in served[c] \ left[c] : Settled(c, a)'
      BY <1>0, <2>3, SettledServing DEF Accounted, Working
    <2>7. QED
      BY <2>3, <2>5, <2>6 DEF Accounted, Working
  <1>6. CASE WriteFails(c) \/ StoreFails(c)
    <2>1. pc'[c] = "done" /\ answer'[c] = "4xx"
      BY <1>6 DEF WriteFails, StoreFails, Reply, TypeOK
    <2>2. QED
      BY <2>1 DEF Accounted, Working
  <1>7. CASE CopiesDone(c)
    <2>1. /\ served' = served /\ spread' = spread /\ asked' = asked /\ plan' = plan /\ boxes' = boxes
          /\ boxes[c] = {} /\ pc[c] = "copy"
      BY <1>7 DEF CopiesDone, effects, history
    <2>2. CASE plan[c].vacation
      <3>1. left' = left /\ answer' = answer /\ pc'[c] = "vacation"
        BY <1>7, <2>2 DEF CopiesDone, Goto, TypeOK
      <3>2. \A a : Settled(c, a) => Settled(c, a)'
        BY <1>0, <2>1, <3>1, SettledServing DEF Working
      <3>3. InHand(c)' = InHand(c)
        BY <1>0, <3>1, WhoKept
      <3>4. QED
        BY <2>1, <3>1, <3>2, <3>3 DEF Accounted, Working
    <2>3. CASE ~plan[c].vacation
      <3>1. NextAccount(c) /\ answer' = answer
        BY <1>7, <2>3 DEF CopiesDone, NextAccount, Goto
      <3>2. QED
        BY <1>0, <2>1, <3>1, NextAccounted
    <2>4. QED
      BY <2>2, <2>3
  <1>8. CASE VacationCheck(c)
    <2>1. /\ served' = served /\ spread' = spread /\ asked' = asked /\ plan' = plan /\ boxes' = boxes
          /\ boxes[c] = {} /\ pc[c] = "vacation"
      BY <1>8 DEF VacationCheck, effects, Accounted
    <2>2. CASE ~Suppressed(mail[c]) /\ Due(marker[Who(c)])
      <3>1. left' = left /\ answer' = answer /\ pc'[c] = "mark"
        BY <1>8, <2>2 DEF VacationCheck, Goto, TypeOK
      <3>2. \A a : Settled(c, a) => Settled(c, a)'
        BY <1>0, <2>1, <3>1, SettledServing DEF Working
      <3>3. InHand(c)' = InHand(c)
        BY <1>0, <3>1, WhoKept
      <3>4. QED
        BY <2>1, <3>1, <3>2, <3>3 DEF Accounted, Working
    <2>3. CASE ~(~Suppressed(mail[c]) /\ Due(marker[Who(c)]))
      <3>1. NextAccount(c) /\ answer' = answer
        BY <1>8, <2>3 DEF VacationCheck, NextAccount, Goto
      <3>2. QED
        BY <1>0, <2>1, <3>1, NextAccounted
    <2>4. QED
      BY <2>2, <2>3
  <1>9. CASE VacationMark(c)
    <2>1. /\ served' = served /\ spread' = spread /\ asked' = asked
          /\ boxes[c] = {} /\ pc[c] = "mark" /\ NextAccount(c)
      BY <1>9 DEF VacationMark, effects, Accounted
    <2>2. plan'[c].redirects = plan[c].redirects /\ plan'[c].reject = plan[c].reject
      <3>1. plan[c] \in Plans /\ plan \in [Conns -> Plans]
        BY DEF TypeOK
      <3>2. plan'[c] = [plan[c] EXCEPT !.replies = Append(plan[c].replies, <<"reply", InHand(c)>>)]
        BY <1>9, <3>1 DEF VacationMark
      <3>3. QED
        BY <3>1, <3>2 DEF Plans
    <2>3. answer' = answer
      BY <2>1 DEF NextAccount, Goto
    <2>4. QED
      BY <1>0, <2>1, <2>2, <2>3, NextAccounted
  <1>10. CASE Enqueue(c)
    <2>1. /\ pc[c] = "local" /\ left[c] = {} /\ pc'[c] = "spool" /\ answer' = answer /\ served' = served
          /\ spread' = spread /\ asked' = asked /\ todo'[c] = Queued(mail[c], plan[c])
      BY <1>10 DEF Enqueue, Goto, effects, history, TypeOK
    <2>2. plan[c] \in Plans /\ mail[c].rcpts \in Seq(DOMAIN Members)
      BY MailTyped DEF TypeOK
    <2>3. /\ Items(plan[c].redirects) \subseteq Items(todo'[c])
          /\ Items(Bounce(mail[c], plan[c])) \subseteq Items(todo'[c])
      BY <2>1, <2>2, QueuedTyped
    <2>4. plan[c].reject => Local(mail[c]) \subseteq mail[c].noDsn \/ <<"bounce", NoAccount>> \in Items(todo'[c])
      BY <2>3, Singleton DEF Bounce
    <2>5. ASSUME NEW a \in served[c] PROVE Settled(c, a)'
      <3>1. Settled(c, a)
        BY <2>1 DEF Accounted, Working
      <3>2. QED
        BY <1>0, <2>1, <2>3, <2>4, <3>1 DEF Settled, Coming, Working, Told
    <2>6. answer[c] # "250"
      BY <2>1 DEF Accounted
    <2>7. QED
      BY <2>1, <2>5, <2>6 DEF Accounted, Working
  <1>11. CASE StoreNext(c)
    <2>1. Items(todo[c]) = {Head(todo[c])} \cup Items(Tail(todo[c]))
      BY <1>11, ItemsTail DEF StoreNext, TypeOK
    <2>2. /\ spread'[c] = spread[c] \cup {Head(todo[c])} /\ todo'[c] = Tail(todo[c])
          /\ pc' = pc /\ pc[c] = "spool" /\ answer' = answer /\ asked' = asked /\ served' = served
      BY <1>11 DEF StoreNext, Make, history, TypeOK
    <2>3. \A a \in served[c] : Settled(c, a)'
      BY <1>0, <2>1, <2>2, SettledStoring DEF Accounted, Working
    <2>4. QED
      BY <2>2, <2>3 DEF Accounted, Working
  <1>12. CASE Accept(c)
    <2>1. /\ pc[c] = "spool" /\ todo[c] = <<>> /\ pc'[c] = "done" /\ todo' = todo /\ spread' = spread
          /\ asked' = asked /\ served' = served
      BY <1>12 DEF Accept, Reply, progress, effects, history, TypeOK
    <2>2. \A a \in served[c] : Settled(c, a)'
      BY <1>0, <2>1, SettledStoring DEF Accounted, Working
    <2>3. QED
      BY <2>1, <2>2 DEF Accounted, Working
  <1>13. CASE Retry(c)
    <2>1. pc'[c] = "idle" /\ answer'[c] # "250"
      BY <1>13 DEF Retry, Goto, TypeOK
    <2>2. QED
      BY <2>1 DEF Accounted, Working
  <1>14. QED
    BY <1>1, <1>2, <1>3, <1>4, <1>5, <1>6, <1>7, <1>8, <1>9, <1>10, <1>11, <1>12, <1>13
    DEF Handles, Deliver

AccountInv == ContainInv /\ \A c \in Conns : Accounted(c)

LEMMA StepAccounted == FiledSafely /\ AccountInv /\ [Next]_vars => AccountInv'
  <1> SUFFICES ASSUME FiledSafely, AccountInv, [Next]_vars PROVE AccountInv'
    OBVIOUS
  <1>0. TypeOK /\ ContainInv' /\ \A c \in Conns : Fresh(c) /\ Accounted(c)
    BY StepContained DEF AccountInv, ContainInv
  <1>1. ASSUME NEW d \in Conns, mail' = mail, Kept(d) PROVE Accounted(d)'
    <2>1. InHand(d)' = InHand(d)
      BY <1>1, WhoKept DEF Kept
    <2>2. \A a : Settled(d, a)' <=> Settled(d, a)
      BY <1>1 DEF Kept, Settled, Coming, Told
    <2>3. QED
      BY <1>0, <1>1, <2>1, <2>2 DEF Kept, Accounted
  <1>2. ASSUME NEW c \in Conns, Handles(c), NEW d \in Conns PROVE Accounted(d)'
    BY <1>0, <1>1, <1>2, AccountedOwn, OthersKept
  <1>3. ASSUME Surroundings \/ UNCHANGED vars, NEW d \in Conns PROVE Accounted(d)'
    <2>1. mail' = mail /\ (Kept(d) \/ Dies(d))
      BY <1>0, <1>3, AllKept
    <2>2. CASE Dies(d)
      BY <2>2 DEF Dies, Accounted, Working
    <2>3. QED
      BY <1>1, <2>1, <2>2
  <1>4. QED
    BY <1>0, <1>2, <1>3, Steps DEF AccountInv

\* When the client has its 250, every account the recipients resolved to has a
\* copy, or the message is on its way elsewhere, or the sender is told of a
\* rejection or wanted no notice, or the account's filter gave the message up:
\* for all directories, messages and filters that file into proper names
\* (delivery.rs, routing.rs).
THEOREM Dropped ==
  ASSUME FiledSafely
  PROVE  Spec => []NothingDropped
  <1>1. Init => AccountInv
    BY StartContained DEF AccountInv, Init, Accounted, Working
  <1>2. AccountInv /\ [Next]_vars => AccountInv'
    BY StepAccounted
  <1>3. AccountInv => NothingDropped
    <2> SUFFICES ASSUME AccountInv, NEW c \in Conns, answer[c] = "250", NEW a \in served[c]
                 PROVE  \/ \E b \in Boxes : <<b, a>> \in spread[c]
                        \/ {<<"redirect", a>>, <<"forward", a>>} \cap spread[c] # {}
                        \/ <<"reject", a>> \in asked[c] /\ Told(c)
                        \/ <<"waive", a>> \in asked[c]
      BY DEF NothingDropped
    <2>1. pc[c] = "done" /\ todo[c] = <<>> /\ Settled(c, a)
      BY DEF AccountInv, Accounted
    <2>2. Coming(c) = {}
      BY <2>1, ItemsEmpty DEF Coming, Working
    <2>3. QED
      BY <2>1, <2>2 DEF Settled, Working
  <1>4. QED
    BY <1>1, <1>2, <1>3, PTL DEF Spec

----------------------------------------------------------------------------
(* One copy each.  A filter that names a folder twice, or INBOX beside a   *)
(* keep, gets a copy for each (README).  The messages a filter redirects,  *)
(* and the bounces returned, are counted together whatever address they go *)
(* to.  So the theorem is about filters that file into different folders   *)
(* and redirect once, and messages with one SRS-return recipient.          *)

Inj(s) == \A i, j \in DOMAIN s : s[i] = s[j] => i = j
SpoolNames == {"redirect", "forward", "reply", "bounce", "return", "relay"}

FiledOnce ==
    \* the names of mailboxes and of messages in the spool stand for different files
    /\ SafeNames \cap SpoolNames = {}
    /\ \A a \in Accounts : \A script \in Scripts[a] \ {NoFilter} :
         /\ \A i, j \in Does(script, "fileinto") : script[i].to = script[j].to => i = j
         /\ \A i \in Does(script, "fileinto") : script[i].to # "INBOX"
         /\ \A i, j \in Does(script, "redirect") : i = j
    /\ \A c \in Conns : \A m \in Mails[c] : \A i, j \in DOMAIN m.rcpts :
         m.rcpts[i] \in SrsReturns /\ m.rcpts[j] \in SrsReturns => i = j

\* The accounts that have been served, the one in hand included.
Begun(c) == (Accounts \ left[c]) \cup IF pc[c] = "local" THEN {} ELSE {InHand(c)}

\* What is still to be written differs from what has been, and in itself.
Ordered(c) ==
    /\ pc[c] \in Working =>
         /\ spread[c] \subseteq Boxes \X Begun(c)
         /\ Items(plan[c].redirects) \subseteq {"redirect", "forward"} \X Begun(c)
         /\ Items(plan[c].replies) \subseteq {"reply"} \X (Accounts \ left[c])
         /\ Inj(plan[c].redirects) /\ Inj(plan[c].replies)
    /\ pc[c] = "copy" =>
         /\ \A b \in boxes[c] : <<b[2], InHand(c)>> \notin spread[c]
         /\ \A b, d \in boxes[c] : b[2] = d[2] => b = d
    /\ pc[c] = "spool" => Inj(todo[c]) /\ Items(todo[c]) \cap spread[c] = {}

\* An attempt that failed after it had written something has cost a fault.
Failed(c) == pc[c] = "idle" \/ (pc[c] = "done" /\ answer[c] \in {"4xx", "cut"})
Counted(c) ==
    \A t \in Things :
        /\ made[c][t] <= faults + 1
        /\ Failed(c) \/ t \notin spread[c] => made[c][t] <= faults

LEMMA InjJoin ==
  ASSUME NEW S, NEW s \in Seq(S), NEW t \in Seq(S), Inj(s), Inj(t), Items(s) \cap Items(t) = {}
  PROVE  Inj(s \o t)
  <1> DEFINE u == s \o t
  <1>1. /\ DOMAIN u = 1 .. Len(s) + Len(t) /\ Len(s) \in Nat /\ Len(t) \in Nat
        /\ \A i \in DOMAIN u : u[i] = IF i <= Len(s) THEN s[i] ELSE t[i - Len(s)]
    BY ConcatProperties
  <1> HIDE DEF u
  <1>2. \A i \in 1 .. Len(s), j \in 1 .. Len(t) : s[i] # t[j]
    BY DEF Items
  <1> SUFFICES ASSUME NEW i \in DOMAIN u, NEW j \in DOMAIN u, u[i] = u[j] PROVE i = j
    BY DEF Inj, u
  <1>3. CASE i <= Len(s) /\ j <= Len(s)
    BY <1>1, <1>3 DEF Inj
  <1>4. CASE i > Len(s) /\ j > Len(s)
    <2>1. i - Len(s) \in 1 .. Len(t) /\ j - Len(s) \in 1 .. Len(t)
      BY <1>1, <1>4
    <2>2. t[i - Len(s)] = t[j - Len(s)]
      BY <1>1, <1>4
    <2>3. i - Len(s) = j - Len(s)
      BY <2>1, <2>2 DEF Inj
    <2>4. QED
      BY <1>1, <2>3
  <1>5. CASE i <= Len(s) /\ j > Len(s)
    BY <1>1, <1>2, <1>5
  <1>6. CASE i > Len(s) /\ j <= Len(s)
    BY <1>1, <1>2, <1>6
  <1>7. QED
    BY <1>1, <1>3, <1>4, <1>5, <1>6

LEMMA InjTail ==
  ASSUME NEW S, NEW s \in Seq(S), s # <<>>, Inj(s)
  PROVE  Inj(Tail(s)) /\ Head(s) \notin Items(Tail(s))
  <1> DEFINE u == Tail(s)
  <1>1. /\ Len(s) \in Nat \ {0} /\ DOMAIN u = 1 .. Len(s) - 1 /\ Head(s) = s[1]
        /\ \A i \in DOMAIN u : u[i] = s[i + 1]
    BY EmptySeq, LenProperties, HeadTailProperties
  <1> HIDE DEF u
  <1>2. \A i \in DOMAIN u : i + 1 \in DOMAIN s /\ i + 1 # 1
    BY <1>1
  <1>3. 1 \in DOMAIN s
    BY <1>1
  <1>4. Inj(u)
    <2> SUFFICES ASSUME NEW i \in DOMAIN u, NEW j \in DOMAIN u, u[i] = u[j] PROVE i = j
      BY DEF Inj
    <2>1. i + 1 = j + 1
      BY <1>1, <1>2 DEF Inj
    <2>2. QED
      BY <1>1, <2>1
  <1>5. \A i \in DOMAIN u : s[1] # u[i]
    BY <1>1, <1>2, <1>3 DEF Inj
  <1>6. QED
    BY <1>1, <1>4, <1>5 DEF Items, u

LEMMA InjShort ==
  /\ Inj(<<>>)
  /\ \A x : Inj(<<x>>)
  /\ \A n \in Nat : \A x : n <= 1 => Inj([i \in 1 .. n |-> x])
  BY DEF Inj

\* At most one element.
LEMMA AtMostOne ==
  ASSUME NEW S, \A x, y \in S : x = y
  PROVE  Cardinality(S) \in Nat /\ Cardinality(S) <= 1
  <1>1. CASE S = {}
    BY <1>1, FS_EmptySet
  <1>2. ASSUME NEW x \in S PROVE Cardinality(S) = 1
    <2>1. S = {x}
      OBVIOUS
    <2>2. QED
      BY <2>1, FS_Singleton
  <1>3. QED
    BY <1>1, <1>2

LEMMA FilteredOnce ==
  ASSUME FiledOnce, NEW m, NEW a \in Accounts, NEW script \in Scripts[a], script # NoFilter
  PROVE  /\ Inj(Filtered(m, a, script).redirects)
         /\ \A b, d \in Filtered(m, a, script).copies : b[2] = d[2] => b = d
  <1> DEFINE o == Evaluate(script)
             null == m.from = NullSender
             n == o.redirects
             e == <<"redirect", a>>
             out == IF null THEN <<>> ELSE [i \in 1 .. n |-> e]
  <1>1. CASE o.reject
    <2>1. Filtered(m, a, script).copies = {} /\ Filtered(m, a, script).redirects = <<>>
      BY <1>1 DEF Filtered
    <2>2. QED
      BY <2>1, InjShort
  <1>2. CASE ~o.reject
    <2> DEFINE copies == (IF o.keep THEN {Inbox} ELSE {}) \cup {f \in o.folders : f[2] \in SafeNames}
    <2>1. Filtered(m, a, script).copies = copies /\ Filtered(m, a, script).redirects = out \o Forwards(m, a)
      BY <1>2 DEF Filtered
    <2>2. \A b, d \in copies : b[2] = d[2] => b = d
      <3>1. o.folders = {<<i, script[i].to>> : i \in Does(script, "fileinto")}
        BY DEF Evaluate
      <3>2. \A f, g \in o.folders : f[2] = g[2] => f = g
        BY <3>1 DEF FiledOnce
      <3>3. \A f \in o.folders : f[2] # "INBOX"
        BY <3>1 DEF FiledOnce
      <3>4. QED
        BY <3>2, <3>3 DEF Inbox
    <2>3. n \in Nat /\ n <= 1
      <3>1. \A i, j \in Does(script, "redirect") : i = j
        BY DEF FiledOnce
      <3>2. n = Cardinality(Does(script, "redirect"))
        BY DEF Evaluate
      <3>3. QED
        BY <3>1, <3>2, AtMostOne
    <2>4. e \in Elsewhere(a) /\ Forwards(m, a) \in Seq(Elsewhere(a)) /\ Inj(Forwards(m, a))
      BY ForwardsTyped, InjShort DEF Elsewhere, Forwards
    <2>5. e \notin Items(Forwards(m, a))
      <3>1. Forwards(m, a) = <<>> \/ Forwards(m, a) = <<<<"forward", a>>>>
        BY DEF Forwards
      <3>2. Items(Forwards(m, a)) \subseteq {<<"forward", a>>}
        BY <3>1, ItemsEmpty, Singleton
      <3>3. QED
        BY <3>2
    <2>6. out \in Seq(Elsewhere(a)) /\ Inj(out) /\ Items(out) \subseteq {e}
      <3>1. CASE null
        BY <3>1, InjShort, ItemsEmpty
      <3>2. CASE ~null
        <4>1. out = [i \in 1 .. n |-> e]
          BY <3>2
        <4> HIDE DEF out, o, n, e, null
        <4>2. Inj([i \in 1 .. n |-> e])
          BY <2>3, InjShort
        <4>3. [i \in 1 .. n |-> e] \in Seq(Elsewhere(a)) /\ Items([i \in 1 .. n |-> e]) \subseteq {e}
          BY <2>3, <2>4, ItemsConstant
        <4>4. QED
          BY <4>1, <4>2, <4>3
      <3>3. QED
        BY <3>1, <3>2
    <2> HIDE DEF copies, out, o, n, e, null
    <2>7. Inj(out \o Forwards(m, a))
      BY <2>4, <2>5, <2>6, InjJoin
    <2>8. QED
      BY <2>1, <2>2, <2>7
  <1>3. QED
    BY <1>1, <1>2

LEMMA ShareOnce ==
  ASSUME FiledOnce, NEW m, NEW a \in Accounts, NEW hint, NEW script \in Scripts[a]
  PROVE  /\ Inj(ForAccount(m, a, hint, script).redirects)
         /\ \A b, d \in ForAccount(m, a, hint, script).copies : b[2] = d[2] => b = d
  <1>1. Inj(Hinted(a, hint).redirects) /\ \A b, d \in Hinted(a, hint).copies : b[2] = d[2] => b = d
    BY InjShort DEF Hinted
  <1>2. Inj(Forwards(m, a))
    BY InjShort DEF Forwards
  <1>3. Inj(WithoutFilter(m, a).redirects) /\ \A b, d \in WithoutFilter(m, a).copies : b[2] = d[2] => b = d
    BY <1>2 DEF WithoutFilter
  <1>4. QED
    BY <1>1, <1>3, FilteredOnce DEF ForAccount

LEMMA Apart ==
  ASSUME NEW A, NEW B, A \cap B = {}, NEW E, NEW X, NEW Y, X \subseteq A \X E, Y \subseteq B \X E
  PROVE  X \cap Y = {}
  OBVIOUS

LEMMA OneOrNone ==
  ASSUME NEW S, NEW x \in S, NEW s, s = <<>> \/ s = <<x>>
  PROVE  s \in Seq(S) /\ Inj(s) /\ Items(s) \subseteq {x}
  <1>1. CASE s = <<>>
    BY <1>1, InjShort, ItemsEmpty
  <1>2. CASE s = <<x>>
    BY <1>2, InjShort, Singleton
  <1>3. QED
    BY <1>1, <1>2

LEMMA QueuedOnce ==
  ASSUME FiledOnce, NEW c \in Conns, NEW m \in Mails[c], NEW p \in Plans, Inj(p.redirects), Inj(p.replies)
  PROVE  Inj(Queued(m, p)) /\ Items(Queued(m, p)) \subseteq SpoolNames \X (Accounts \cup {NoAccount})
  <1>0. m.rcpts \in Seq(DOMAIN Members)
    BY MailsAssumption
  <1> DEFINE b == Bounce(m, p)
             l == Relay(m)
             r == Returns(m)
             q1 == b \o p.redirects
             q2 == q1 \o p.replies
             q3 == q2 \o r
             All == Accounts \cup {NoAccount}
             S == SpoolNames \X All
  <1>1. /\ p.redirects \in Seq({"redirect", "forward"} \X Accounts)
        /\ p.replies \in Seq({"reply"} \X Accounts)
    BY DEF Plans
  <1>2. p.redirects \in Seq(S) /\ Items(p.redirects) \subseteq {"redirect", "forward"} \X All
    <2>1. {"redirect", "forward"} \X Accounts \subseteq S
      BY DEF SpoolNames
    <2>2. Items(p.redirects) \subseteq {"redirect", "forward"} \X Accounts
      BY <1>1, ItemsTyped
    <2>3. QED
      BY <1>1, <2>1, <2>2, SeqMonotonic
  <1>3. p.replies \in Seq(S) /\ Items(p.replies) \subseteq {"reply"} \X All
    <2>1. {"reply"} \X Accounts \subseteq S
      BY DEF SpoolNames
    <2>2. Items(p.replies) \subseteq {"reply"} \X Accounts
      BY <1>1, ItemsTyped
    <2>3. QED
      BY <1>1, <2>1, <2>2, SeqMonotonic
  <1>4. b \in Seq(S) /\ Inj(b) /\ Items(b) \subseteq {"bounce"} \X All
    <2>1. <<"bounce", NoAccount>> \in S
      BY DEF SpoolNames
    <2>2. b = <<>> \/ b = <<<<"bounce", NoAccount>>>>
      BY DEF Bounce
    <2> HIDE DEF S, b
    <2>3. b \in Seq(S) /\ Inj(b) /\ Items(b) \subseteq {<<"bounce", NoAccount>>}
      BY <2>1, <2>2, OneOrNone
    <2>4. QED
      BY <2>3
  <1>5. l \in Seq(S) /\ Inj(l) /\ Items(l) \subseteq {"relay"} \X All
    <2>1. <<"relay", NoAccount>> \in S
      BY DEF SpoolNames
    <2>2. l = <<>> \/ l = <<<<"relay", NoAccount>>>>
      BY DEF Relay
    <2> HIDE DEF S, l
    <2>3. l \in Seq(S) /\ Inj(l) /\ Items(l) \subseteq {<<"relay", NoAccount>>}
      BY <2>1, <2>2, OneOrNone
    <2>4. QED
      BY <2>3
  <1>6. r \in Seq(S) /\ Inj(r) /\ Items(r) \subseteq {"return"} \X All
    <2>1. <<"return", NoAccount>> \in S
      BY DEF SpoolNames
    <2>2. r \in Seq({Returned}) /\ Items(r) \subseteq {Returned}
      BY <1>0, ReturnsTyped
    <2>3. Inj(r)
      <3> DEFINE J == {j \in DOMAIN m.rcpts : m.rcpts[j] \in SrsReturns}
      <3>1. \A i, j \in J : i = j
        BY DEF FiledOnce
      <3>2. Cardinality(J) \in Nat /\ Cardinality(J) <= 1
        BY <3>1, AtMostOne
      <3>3. r = [i \in 1 .. Cardinality(J) |-> <<"return", NoAccount>>]
        BY DEF Returns
      <3> HIDE DEF J, r
      <3>4. QED
        BY <3>2, <3>3, InjShort
    <2> HIDE DEF r
    <2>4. r \in Seq(S)
      BY <2>1, <2>2, SeqMonotonic DEF Returned
    <2>5. QED
      BY <2>2, <2>3, <2>4 DEF Returned
  <1> HIDE DEF b, l, r, All, S
  <1>7. q1 \in Seq(S) /\ Inj(q1) /\ Items(q1) \subseteq {"bounce", "redirect", "forward"} \X All
    <2>1. Items(b) \cap Items(p.redirects) = {}
      <3>1. {"bounce"} \cap {"redirect", "forward"} = {}
        OBVIOUS
      <3>2. QED
        BY <1>2, <1>4, <3>1, Apart
    <2>2. q1 \in Seq(S) /\ Items(q1) = Items(b) \cup Items(p.redirects)
      BY <1>2, <1>4, ItemsJoin
    <2>3. Inj(q1)
      BY <1>2, <1>4, <2>1, InjJoin
    <2>4. QED
      BY <1>2, <1>4, <2>2, <2>3
  <1> HIDE DEF q1
  <1>8. q2 \in Seq(S) /\ Inj(q2) /\ Items(q2) \subseteq {"bounce", "redirect", "forward", "reply"} \X All
    <2>1. Items(q1) \cap Items(p.replies) = {}
      <3>1. {"bounce", "redirect", "forward"} \cap {"reply"} = {}
        OBVIOUS
      <3>2. QED
        BY <1>3, <1>7, <3>1, Apart
    <2>2. q2 \in Seq(S) /\ Items(q2) = Items(q1) \cup Items(p.replies)
      BY <1>3, <1>7, ItemsJoin
    <2>3. Inj(q2)
      BY <1>3, <1>7, <2>1, InjJoin
    <2>4. QED
      BY <1>3, <1>7, <2>2, <2>3
  <1> HIDE DEF q2
  <1>9. q3 \in Seq(S) /\ Inj(q3) /\ Items(q3) \subseteq {"bounce", "redirect", "forward", "reply", "return"} \X All
    <2>1. Items(q2) \cap Items(r) = {}
      <3>1. {"bounce", "redirect", "forward", "reply"} \cap {"return"} = {}
        OBVIOUS
      <3>2. QED
        BY <1>6, <1>8, <3>1, Apart
    <2>2. q3 \in Seq(S) /\ Items(q3) = Items(q2) \cup Items(r)
      BY <1>6, <1>8, ItemsJoin
    <2>3. Inj(q3)
      BY <1>6, <1>8, <2>1, InjJoin
    <2>4. QED
      BY <1>6, <1>8, <2>2, <2>3
  <1> HIDE DEF q3
  <1>10. q3 \o l \in Seq(S) /\ Inj(q3 \o l) /\ Items(q3 \o l) \subseteq {"bounce", "redirect", "forward", "reply", "return", "relay"} \X All
    <2>1. Items(q3) \cap Items(l) = {}
      <3>1. {"bounce", "redirect", "forward", "reply", "return"} \cap {"relay"} = {}
        OBVIOUS
      <3>2. QED
        BY <1>5, <1>9, <3>1, Apart
    <2>2. q3 \o l \in Seq(S) /\ Items(q3 \o l) = Items(q3) \cup Items(l)
      BY <1>5, <1>9, ItemsJoin
    <2>3. Inj(q3 \o l)
      BY <1>5, <1>9, <2>1, InjJoin
    <2>4. QED
      BY <1>5, <1>9, <2>2, <2>3
  <1>11. Queued(m, p) = q3 \o l
    BY DEF Queued, q1, q2, q3, b, l, r
  <1>12. Items(Queued(m, p)) \subseteq S
    BY <1>10, <1>11, ItemsTyped
  <1>13. QED
    BY <1>10, <1>11, <1>12 DEF S, All

\* The account in hand is done.
LEMMA NextOrdered ==
  ASSUME TypeOK, NEW c \in Conns, Ordered(c), NextAccount(c), mail' = mail,
         pc[c] \in {"copy", "vacation", "mark"}, spread' = spread,
         plan'[c].redirects = plan[c].redirects,
         Items(plan'[c].replies) \subseteq {"reply"} \X ((Accounts \ left[c]) \cup {InHand(c)}),
         Inj(plan'[c].replies)
  PROVE  Ordered(c)'
  <1>1. pc'[c] = "local" /\ left'[c] = left[c] \ {InHand(c)} /\ InHand(c) \in left[c] /\ InHand(c) \in Accounts
    BY WhoTyped DEF NextAccount, Goto, TypeOK
  <1>2. Begun(c)' = Begun(c) /\ Accounts \ left'[c] = (Accounts \ left[c]) \cup {InHand(c)}
    BY <1>1 DEF Begun
  <1>3. /\ spread[c] \subseteq Boxes \X Begun(c) /\ Inj(plan[c].redirects)
        /\ Items(plan[c].redirects) \subseteq {"redirect", "forward"} \X Begun(c)
    BY DEF Ordered, Working
  <1>4. QED
    BY <1>1, <1>2, <1>3 DEF Ordered, Working

LEMMA OrderedOwn ==
  ASSUME FiledOnce, TypeOK, NEW c \in Conns, Fresh(c), Ordered(c), Handles(c)
  PROVE  Ordered(c)'
  <1>0. mail' = mail
    BY OthersKept
  <1>1. CASE Begin(c) \/ Screen(c) \/ WriteFails(c) \/ StoreFails(c) \/ Accept(c) \/ Retry(c)
    <2>1. pc'[c] \notin Working \cup {"spool"}
      <3>1. CASE Screen(c)
        BY <3>1, ScreenMoves DEF Screens, Working
      <3>2. QED
        BY <1>1, <3>1 DEF Begin, WriteFails, StoreFails, Accept, Retry, Reply, Goto, Working, TypeOK
    <2>2. QED
      BY <2>1 DEF Ordered, Working
  <1>2. CASE Route(c)
    <2>1. pc[c] = "route" /\ pc'[c] \in {"done", "local"} /\ plan' = plan /\ spread' = spread
      BY <1>2 DEF Route, Goto, Reply, effects, TypeOK
    <2>2. plan[c] = Nothing /\ spread[c] = {}
      BY <2>1 DEF Fresh
    <2>3. plan'[c].redirects = <<>> /\ plan'[c].replies = <<>> /\ spread'[c] = {}
      BY <2>1, <2>2 DEF Nothing
    <2>4. QED
      BY <2>1, <2>3, ItemsEmpty, InjShort DEF Ordered, Working
  <1>3. CASE Serve(c)
    <2> DEFINE a == InHand(c)
    <2>1. /\ pc[c] = "local" /\ pc'[c] = "copy" /\ left' = left /\ spread' = spread
          /\ a \in left[c] /\ a \in Accounts
      BY <1>3, WhoTyped DEF Serve, Goto, effects, TypeOK
    <2>2. PICK script \in Scripts[a] :
             LET one == ForAccount(mail[c], a, box[c], script)
             IN  /\ boxes' = [boxes EXCEPT ![c] = one.copies]
                 /\ plan' = [plan EXCEPT ![c] =
                       [redirects |-> @.redirects \o one.redirects, reject |-> @.reject \/ one.reject,
                        vacation |-> one.vacation, replies |-> @.replies]]
      BY <1>3 DEF Serve
    <2> DEFINE one == ForAccount(mail[c], a, box[c], script)
               was == plan[c]
               any == was.reject \/ one.reject
               joined == was.redirects \o one.redirects
    <2>3. /\ Inj(one.redirects) /\ \A b, d \in one.copies : b[2] = d[2] => b = d
          /\ one \in Shares(a)
      <3>1. box[c] \in SafeNames \cup {"none"}
        BY <2>1 DEF TypeOK
      <3>2. QED
        BY <2>1, <3>1, ShareOnce, ShareTyped
    <2>4. /\ boxes'[c] = one.copies
          /\ plan'[c] = [redirects |-> joined, reject |-> any,
                         vacation |-> one.vacation, replies |-> was.replies]
      BY <2>2 DEF TypeOK
    <2> HIDE DEF one, any, joined
    <2>5. plan'[c].redirects = joined /\ plan'[c].replies = plan[c].replies
      BY <2>4
    <2>6. InHand(c)' = a /\ Begun(c)' = Begun(c) \cup {a} /\ Begun(c) = Accounts \ left[c]
      <3>1. InHand(c)' = a
        BY <1>0, <2>1, WhoKept
      <3>2. QED
        BY <2>1, <3>1 DEF Begun
    <2>7. /\ spread[c] \subseteq Boxes \X (Accounts \ left[c])
          /\ Items(was.redirects) \subseteq {"redirect", "forward"} \X (Accounts \ left[c])
          /\ Items(was.replies) \subseteq {"reply"} \X (Accounts \ left[c])
          /\ Inj(was.redirects) /\ Inj(was.replies)
      BY <2>1, <2>6 DEF Ordered, Working
    <2>8. /\ one.redirects \in Seq({"redirect", "forward"} \X Accounts)
          /\ was.redirects \in Seq({"redirect", "forward"} \X Accounts)
          /\ Items(one.redirects) \subseteq {"redirect", "forward"} \X {a}
      <3>1. Elsewhere(a) \subseteq {"redirect", "forward"} \X {a}
        BY DEF Elsewhere
      <3>2. one.redirects \in Seq(Elsewhere(a))
        BY <2>3 DEF Shares
      <3>3. Items(one.redirects) \subseteq Elsewhere(a)
        BY <3>2, ItemsTyped
      <3>4. Elsewhere(a) \subseteq {"redirect", "forward"} \X Accounts
        BY <2>1, <3>1
      <3>5. one.redirects \in Seq({"redirect", "forward"} \X Accounts)
        BY <3>2, <3>4, SeqMonotonic
      <3>6. was.redirects \in Seq({"redirect", "forward"} \X Accounts)
        BY DEF TypeOK, Plans
      <3>7. QED
        BY <3>1, <3>3, <3>5, <3>6
    <2>9. Items(was.redirects) \cap Items(one.redirects) = {}
      BY <2>1, <2>7, <2>8
    <2>10. Inj(joined) /\ Items(joined) \subseteq {"redirect", "forward"} \X Begun(c)'
      <3>1. Inj(joined)
        BY <2>3, <2>7, <2>8, <2>9, InjJoin DEF joined
      <3>2. Items(joined) = Items(was.redirects) \cup Items(one.redirects)
        BY <2>8, ItemsJoin DEF joined
      <3>3. QED
        BY <2>6, <2>7, <2>8, <3>1, <3>2
    <2>11. spread'[c] \subseteq Boxes \X Begun(c)'
      BY <2>1, <2>6, <2>7
    <2>12. \A b \in boxes'[c] : <<b[2], InHand(c)'>> \notin spread'[c]
      BY <2>1, <2>6, <2>7
    <2>13. \A b, d \in boxes'[c] : b[2] = d[2] => b = d
      BY <2>3, <2>4
    <2>14. QED
      BY <2>1, <2>5, <2>7, <2>10, <2>11, <2>12, <2>13 DEF Ordered, Working
  <1>4. CASE WriteCopy(c)
    <2>1. boxes[c] # {} /\ boxes[c] \subseteq Nat \X Boxes /\ left[c] # {}
      BY <1>4 DEF WriteCopy, TypeOK
    <2>2. FirstBox(c) \in boxes[c] /\ FirstBox(c)[2] \in Boxes
      BY <2>1, FirstBoxIn
    <2>3. /\ spread'[c] = spread[c] \cup {<<FirstBox(c)[2], InHand(c)>>}
          /\ boxes'[c] = boxes[c] \ {FirstBox(c)}
          /\ pc' = pc /\ left' = left /\ plan' = plan /\ pc[c] = "copy"
      BY <1>4 DEF WriteCopy, Make, TypeOK
    <2>4. InHand(c)' = InHand(c)
      BY <1>0, <2>3, WhoKept
    <2>5. Begun(c)' = Begun(c) /\ InHand(c) \in Begun(c)
      BY <2>3, <2>4 DEF Begun
    <2>6. spread'[c] \subseteq Boxes \X Begun(c)
      BY <2>2, <2>3, <2>5 DEF Ordered, Working
    <2>7. \A b \in boxes'[c] : <<b[2], InHand(c)>> \notin spread'[c]
      BY <2>2, <2>3 DEF Ordered
    <2>8. QED
      BY <2>3, <2>4, <2>5, <2>6, <2>7 DEF Ordered, Working
  <1>5. CASE CopiesDone(c)
    <2>1. spread' = spread /\ plan' = plan /\ boxes' = boxes /\ pc[c] = "copy"
      BY <1>5 DEF CopiesDone, effects
    <2>2. CASE plan[c].vacation
      <3>1. left' = left /\ pc'[c] = "vacation"
        BY <1>5, <2>2 DEF CopiesDone, Goto, TypeOK
      <3>2. Begun(c)' = Begun(c)
        BY <1>0, <2>1, <3>1, WhoKept DEF Begun
      <3>3. QED
        BY <2>1, <3>1, <3>2 DEF Ordered, Working
    <2>3. CASE ~plan[c].vacation
      <3>1. NextAccount(c)
        BY <1>5, <2>3 DEF CopiesDone
      <3>2. /\ Items(plan'[c].replies) \subseteq {"reply"} \X (Accounts \ left[c])
            /\ Inj(plan'[c].replies)
        BY <2>1 DEF Ordered, Working
      <3>3. QED
        BY <1>0, <2>1, <3>1, <3>2, NextOrdered
    <2>4. QED
      BY <2>2, <2>3
  <1>6. CASE VacationCheck(c)
    <2>1. spread' = spread /\ plan' = plan /\ boxes' = boxes /\ pc[c] = "vacation"
      BY <1>6 DEF VacationCheck, effects
    <2>2. CASE ~Suppressed(mail[c]) /\ Due(marker[Who(c)])
      <3>1. left' = left /\ pc'[c] = "mark"
        BY <1>6, <2>2 DEF VacationCheck, Goto, TypeOK
      <3>2. Begun(c)' = Begun(c)
        BY <1>0, <2>1, <3>1, WhoKept DEF Begun
      <3>3. QED
        BY <2>1, <3>1, <3>2 DEF Ordered, Working
    <2>3. CASE ~(~Suppressed(mail[c]) /\ Due(marker[Who(c)]))
      <3>1. NextAccount(c)
        BY <1>6, <2>3 DEF VacationCheck
      <3>2. /\ Items(plan'[c].replies) \subseteq {"reply"} \X (Accounts \ left[c])
            /\ Inj(plan'[c].replies)
        BY <2>1 DEF Ordered, Working
      <3>3. QED
        BY <1>0, <2>1, <3>1, <3>2, NextOrdered
    <2>4. QED
      BY <2>2, <2>3
  <1>7. CASE VacationMark(c)
    <2> DEFINE x == <<"reply", InHand(c)>>
               was == plan[c].replies
    <2>1. spread' = spread /\ pc[c] = "mark" /\ NextAccount(c)
      BY <1>7 DEF VacationMark, effects
    <2>2. InHand(c) \in left[c] /\ InHand(c) \in Accounts
      BY <2>1, WhoTyped DEF TypeOK
    <2>3. plan'[c].redirects = plan[c].redirects /\ plan'[c].replies = Append(was, x)
      <3>1. plan[c] \in Plans /\ plan \in [Conns -> Plans]
        BY DEF TypeOK
      <3>2. plan'[c] = [plan[c] EXCEPT !.replies = Append(was, x)]
        BY <1>7, <3>1 DEF VacationMark
      <3>3. QED
        BY <3>1, <3>2 DEF Plans
    <2>4. /\ Items(was) \subseteq {"reply"} \X (Accounts \ left[c]) /\ Inj(was)
          /\ was \in Seq({"reply"} \X Accounts)
      BY <2>1 DEF Ordered, Working, TypeOK, Plans
    <2>5. x \in {"reply"} \X Accounts /\ x \notin Items(was)
      BY <2>2, <2>4
    <2> HIDE DEF was, x
    <2>6. Append(was, x) = was \o <<x>>
      BY <2>4, <2>5, AppendIsConcat
    <2>7. <<x>> \in Seq({"reply"} \X Accounts) /\ Items(<<x>>) = {x} /\ Inj(<<x>>)
      BY <2>5, Singleton, InjShort
    <2>8. Inj(was \o <<x>>)
      BY <2>4, <2>5, <2>7, InjJoin
    <2>9. Items(was \o <<x>>) = Items(was) \cup {x}
      BY <2>4, <2>7, ItemsJoin
    <2>10. Items(plan'[c].replies) \subseteq {"reply"} \X ((Accounts \ left[c]) \cup {InHand(c)})
      <3>1. Items(plan'[c].replies) = Items(was) \cup {x}
        BY <2>3, <2>6, <2>9
      <3>2. QED
        BY <2>4, <3>1 DEF x
    <2>11. Inj(plan'[c].replies)
      BY <2>3, <2>6, <2>8
    <2>12. QED
      BY <1>0, <2>1, <2>3, <2>10, <2>11, NextOrdered
  <1>8. CASE Enqueue(c)
    <2>1. /\ pc[c] = "local" /\ left[c] = {} /\ pc'[c] = "spool" /\ spread' = spread
          /\ todo'[c] = Queued(mail[c], plan[c])
      BY <1>8 DEF Enqueue, Goto, effects, TypeOK
    <2>2. plan[c] \in Plans /\ mail[c] \in Mails[c]
      BY DEF TypeOK
    <2>3. Inj(plan[c].redirects) /\ Inj(plan[c].replies) /\ spread[c] \subseteq Boxes \X Begun(c)
      BY <2>1 DEF Ordered, Working
    <2>4. Inj(todo'[c]) /\ Items(todo'[c]) \subseteq SpoolNames \X (Accounts \cup {NoAccount})
      BY <2>1, <2>2, <2>3, QueuedOnce
    <2>5. Boxes \cap SpoolNames = {}
      BY DEF Boxes, SpoolNames, FiledOnce
    <2>6. Items(todo'[c]) \cap spread'[c] = {}
      BY <2>1, <2>3, <2>4, <2>5
    <2>7. QED
      BY <2>1, <2>4, <2>6 DEF Ordered, Working
  <1>9. CASE StoreNext(c)
    <2>1. todo[c] \in Seq(Things) /\ todo[c] # <<>> /\ pc[c] = "spool"
      BY <1>9 DEF StoreNext, TypeOK
    <2>2. Inj(todo[c]) /\ Items(todo[c]) \cap spread[c] = {}
      BY <2>1 DEF Ordered
    <2>3. /\ Items(todo[c]) = {Head(todo[c])} \cup Items(Tail(todo[c]))
          /\ Inj(Tail(todo[c])) /\ Head(todo[c]) \notin Items(Tail(todo[c]))
      BY <2>1, <2>2, ItemsTail, InjTail
    <2>4. spread'[c] = spread[c] \cup {Head(todo[c])} /\ todo'[c] = Tail(todo[c]) /\ pc' = pc
      BY <1>9 DEF StoreNext, Make, TypeOK
    <2>5. QED
      BY <2>1, <2>2, <2>3, <2>4 DEF Ordered, Working
  <1>10. QED
    BY <1>1, <1>2, <1>3, <1>4, <1>5, <1>6, <1>7, <1>8, <1>9 DEF Handles, Deliver

LEMMA FaultsGrow ==
  ASSUME TypeOK, [Next]_vars
  PROVE  faults \in Nat /\ faults' \in Nat /\ faults <= faults'
  <1>1. faults \in Nat
    BY Limits DEF TypeOK
  <1>2. faults' = faults \/ faults' = faults + 1
    <2>1. CASE UNCHANGED vars
      BY <2>1 DEF vars
    <2>2. ASSUME NEW c \in Conns, Begin(c) \/ Screen(c) \/ Retry(c) PROVE faults' = faults
      BY <2>2 DEF Begin, Screen, Hops, Dnsbl, Greylist, Authenticate, Reputation, Hook, Llm, Screening, Retry
    <2>3. ASSUME NEW c \in Conns, Deliver(c) PROVE faults' = faults \/ faults' = faults + 1
      BY <2>3 DEF Deliver, Route, Serve, WriteCopy, WriteFails, CopiesDone, VacationCheck, VacationMark,
                  Enqueue, StoreNext, StoreFails, Accept, Fault
    <2>4. ASSUME NEW a \in Accounts, RemoveAccount(a) PROVE faults' = faults
      BY <2>4 DEF RemoveAccount
    <2>5. CASE Prune \/ Crash \/ Tick
      BY <2>5 DEF Prune, Crash, Tick, Fault
    <2>6. QED
      BY <2>1, <2>2, <2>3, <2>4, <2>5 DEF Next
  <1>3. QED
    BY <1>1, <1>2

\* A file that the attempt had not yet written is written.
LEMMA MakeCounted ==
  ASSUME TypeOK, NEW c \in Conns, NEW t \in Things, Counted(c), t \notin spread[c], Make(c, t),
         faults' = faults, faults \in Nat, pc' = pc, pc[c] \in {"copy", "spool"}
  PROVE  Counted(c)'
  <1>1. made[c] \in [Things -> Nat]
    BY DEF TypeOK
  <1>2. made'[c] = [made[c] EXCEPT ![t] = @ + 1] /\ spread'[c] = spread[c] \cup {t}
    BY DEF Make, TypeOK
  <1> SUFFICES ASSUME NEW u \in Things
               PROVE  made'[c][u] <= faults + 1 /\ (u \notin spread'[c] => made'[c][u] <= faults)
    BY DEF Counted, Failed
  <1>3. CASE u = t
    <2>1. made[c][t] <= faults /\ made[c][t] \in Nat /\ made'[c][t] = made[c][t] + 1
      BY <1>1, <1>2 DEF Counted
    <2>2. QED
      BY <1>2, <1>3, <2>1
  <1>4. CASE u # t
    <2>1. made'[c][u] = made[c][u]
      BY <1>1, <1>2, <1>4
    <2>2. QED
      BY <1>2, <1>4, <2>1 DEF Counted
  <1>5. QED
    BY <1>3, <1>4

LEMMA CountedOwn ==
  ASSUME TypeOK, NEW c \in Conns, Fresh(c), Ordered(c), Counted(c), Handles(c),
         faults \in Nat, faults' \in Nat, faults <= faults'
  PROVE  Counted(c)'
  <1>0. \A t \in Things : made[c][t] \in Nat
    BY DEF TypeOK
  <1>1. CASE Begin(c)
    <2>1. pc[c] = "idle" /\ pc'[c] = "hops" /\ made' = made /\ faults' = faults
      BY <1>1 DEF Begin, TypeOK
    <2>2. QED
      BY <2>1 DEF Counted, Failed
  <1>2. CASE Screen(c) \/ Route(c)
    <2>1. spread[c] = {} /\ made'[c] = made[c]
      <3>1. CASE Screen(c)
        BY <3>1, ScreenMoves DEF Fresh
      <3>2. CASE Route(c)
        BY <3>2 DEF Route, effects, Fresh
      <3>3. QED
        BY <1>2, <3>1, <3>2
    <2>2. QED
      BY <1>0, <2>1 DEF Counted
  <1>3. CASE Serve(c) \/ CopiesDone(c) \/ VacationCheck(c) \/ VacationMark(c) \/ Enqueue(c)
    <2>1. made' = made /\ spread' = spread /\ pc'[c] \notin {"idle", "done"}
      BY <1>3 DEF Serve, CopiesDone, VacationCheck, VacationMark, Enqueue, NextAccount, Goto, effects, TypeOK
    <2>2. QED
      BY <1>0, <2>1 DEF Counted, Failed
  <1>4. CASE WriteCopy(c)
    <2> DEFINE t == <<FirstBox(c)[2], InHand(c)>>
    <2>1. boxes[c] # {} /\ boxes[c] \subseteq Nat \X Boxes /\ left[c] # {} /\ pc[c] = "copy"
      BY <1>4 DEF WriteCopy, TypeOK
    <2>2. FirstBox(c) \in boxes[c] /\ FirstBox(c)[2] \in Boxes
      BY <2>1, FirstBoxIn
    <2>3. t \in Things /\ t \notin spread[c]
      BY <2>1, <2>2, WhoTyped DEF Things, Copies, Ordered
    <2>4. Make(c, t) /\ pc' = pc /\ faults' = faults
      BY <1>4 DEF WriteCopy
    <2> HIDE DEF t
    <2>5. QED
      BY <2>1, <2>3, <2>4, MakeCounted
  <1>5. CASE StoreNext(c)
    <2>1. todo[c] \in Seq(Things) /\ todo[c] # <<>> /\ pc[c] = "spool"
      BY <1>5 DEF StoreNext, TypeOK
    <2>2. Head(todo[c]) \in Things /\ Head(todo[c]) \in Items(todo[c])
      BY <2>1, ItemsTail
    <2>3. Head(todo[c]) \notin spread[c]
      BY <2>1, <2>2 DEF Ordered
    <2>4. Make(c, Head(todo[c])) /\ pc' = pc /\ faults' = faults
      BY <1>5 DEF StoreNext
    <2>5. QED
      BY <2>1, <2>2, <2>3, <2>4, MakeCounted
  <1>6. CASE WriteFails(c) \/ StoreFails(c)
    <2>1. made' = made /\ faults' = faults + 1
      BY <1>6 DEF WriteFails, StoreFails, Fault, effects
    <2>2. QED
      BY <1>0, <2>1 DEF Counted
  <1>7. CASE Accept(c)
    <2>1. made' = made /\ spread' = spread /\ pc'[c] = "done"
      BY <1>7 DEF Accept, Reply, effects, TypeOK
    <2>2. answer'[c] = "250" \/ faults' = faults + 1
      BY <1>7 DEF Accept, Reply, Fault, TypeOK
    <2>3. QED
      BY <1>0, <2>1, <2>2 DEF Counted, Failed
  <1>8. CASE Retry(c)
    <2>1. Failed(c) /\ made' = made /\ faults' = faults
      BY <1>8 DEF Retry, Failed, effects
    <2>2. QED
      BY <2>1 DEF Counted
  <1>9. QED
    BY <1>1, <1>2, <1>3, <1>4, <1>5, <1>6, <1>7, <1>8 DEF Handles, Deliver

OnceInv == ContainInv /\ \A c \in Conns : Ordered(c) /\ Counted(c)

LEMMA StepOnce == FiledOnce /\ OnceInv /\ [Next]_vars => OnceInv'
  <1> SUFFICES ASSUME FiledOnce, OnceInv, [Next]_vars PROVE OnceInv'
    OBVIOUS
  <1>0. TypeOK /\ ContainInv' /\ \A c \in Conns : Fresh(c) /\ Ordered(c) /\ Counted(c)
    BY StepContained DEF OnceInv, ContainInv
  <1>1. faults \in Nat /\ faults' \in Nat /\ faults <= faults'
    BY <1>0, FaultsGrow
  <1>2. ASSUME NEW d \in Conns, mail' = mail, Kept(d) PROVE Ordered(d)' /\ Counted(d)'
    <2>1. InHand(d)' = InHand(d)
      BY <1>2, WhoKept DEF Kept
    <2>2. Ordered(d)'
      BY <1>0, <1>2, <2>1 DEF Kept, Ordered, Begun
    <2>3. \A t \in Things : made[d][t] \in Nat
      BY <1>0 DEF TypeOK
    <2>4. Counted(d)'
      BY <1>0, <1>1, <1>2, <2>3 DEF Kept, Counted, Failed
    <2>5. QED
      BY <2>2, <2>4
  <1>3. ASSUME NEW c \in Conns, Handles(c), NEW d \in Conns PROVE Ordered(d)' /\ Counted(d)'
    <2>1. CASE d = c
      BY <1>0, <1>1, <1>3, <2>1, OrderedOwn, CountedOwn
    <2>2. CASE d # c
      BY <1>0, <1>2, <1>3, <2>2, OthersKept
    <2>3. QED
      BY <2>1, <2>2
  <1>4. ASSUME Surroundings \/ UNCHANGED vars, NEW d \in Conns PROVE Ordered(d)' /\ Counted(d)'
    <2>1. mail' = mail /\ (Kept(d) \/ (Dies(d) /\ Crash))
      BY <1>0, <1>4, AllKept
    <2>2. CASE Dies(d) /\ Crash
      <3>1. faults' = faults + 1
        BY <2>2 DEF Crash, Fault
      <3>2. \A t \in Things : made[d][t] \in Nat
        BY <1>0 DEF TypeOK
      <3>3. Counted(d)'
        BY <1>0, <1>1, <2>2, <3>1, <3>2 DEF Dies, Counted
      <3>4. Ordered(d)'
        BY <2>2 DEF Dies, Ordered, Working
      <3>5. QED
        BY <3>3, <3>4
    <2>3. QED
      BY <1>2, <2>1, <2>2
  <1>5. QED
    BY <1>0, <1>3, <1>4, Steps DEF OnceInv

\* However often the client tries, a mailbox or a correspondent gets a second
\* copy of a message only because a write failed, a reply was lost or the
\* process died, and only one more for each: whatever accounts are removed
\* between the attempts (routing.rs, delivery.rs).
THEOREM Once ==
  ASSUME FiledOnce
  PROVE  Spec => []OneCopyEach
  <1>1. Init => OnceInv
    <2> SUFFICES ASSUME Init PROVE OnceInv
      OBVIOUS
    <2>1. ASSUME NEW c \in Conns PROVE Ordered(c) /\ Counted(c)
      <3>1. pc[c] = "idle" /\ faults = 0 /\ \A t \in Things : made[c][t] = 0
        BY DEF Init
      <3>2. QED
        BY <3>1 DEF Ordered, Counted, Working
    <2>2. QED
      BY <2>1, StartContained DEF OnceInv
  <1>2. OnceInv /\ [Next]_vars => OnceInv'
    BY StepOnce
  <1>3. OnceInv => OneCopyEach
    <2> SUFFICES ASSUME OnceInv, NEW c \in Conns, NEW t \in Things PROVE made[c][t] <= 1 + faults
      BY DEF OneCopyEach
    <2>1. faults \in Nat /\ made[c][t] \in Nat
      BY Limits DEF OnceInv, ContainInv, TypeOK
    <2>2. QED
      BY <2>1 DEF OnceInv, Counted
  <1>4. QED
    BY <1>1, <1>2, <1>3, PTL DEF Spec
=============================================================================

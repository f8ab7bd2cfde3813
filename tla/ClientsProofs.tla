---------------------------- MODULE ClientsProofs ----------------------------
(***************************************************************************)
(* Proofs about the services a client talks to: the grants of the          *)
(* authorization server, ManageSieve and POP3, for any number of           *)
(* connections, codes, scripts and messages.                               *)
(***************************************************************************)
EXTENDS Pop3Session, ManageSieve, OauthGrants, SequenceTheorems, FiniteSetTheorems, TLAPS

----------------------------------------------------------------------------
(* The authorization server.                                               *)

GrGrant == [live : BOOLEAN, account : GrAccounts \cup {GrNobody}, expires : Nat, nextPoll : Nat]
GrCode == [live : BOOLEAN, account : GrAccounts \cup {GrNobody}, expires : Nat,
           challenge : GrVerifiers]

GrTypes ==
    /\ grNow \in 1 .. GrHorizon /\ grActive \subseteq GrAccounts /\ grDrawn \subseteq GrCodes
    /\ grDevices \in [GrCodes -> GrGrant] /\ grCodes \in [GrCodes -> GrCode]
    /\ grApprove \in [GrApprovers -> [code : grDrawn \cup {0}, account : GrAccounts \cup {GrNobody}]]
    /\ grProof \in [GrCodes -> [account : GrAccounts \cup {GrNobody}, at : Nat]]
    /\ grTokens \subseteq [code : GrCodes, account : GrAccounts, at : 1 .. GrHorizon]
    /\ grAnswered \in [GrCodes -> 0 .. grNow] /\ grTooSoon = FALSE

\* A code is one thing at a time: not yet drawn, waiting in one of the two maps, or spent.
\* A token stands for a spent code.
GrLives(c) ==
    /\ ~(grDevices[c].live /\ grCodes[c].live)
    /\ c \notin grDrawn => ~grDevices[c].live /\ ~grCodes[c].live /\ grAnswered[c] = 0
    /\ \A t \in grTokens : t.code = c =>
          /\ c \in grDrawn /\ ~grDevices[c].live /\ ~grCodes[c].live
          /\ grProof[c].account = t.account /\ t.at < grProof[c].at + GrTtl

\* What waits was proved by the account it names no earlier than its expiry allows, and a
\* device that was answered is not due again before its interval is over.
GrWaits(c) ==
    /\ grDevices[c].live =>
          /\ grDevices[c].expires <= grNow + GrTtl
          /\ grDevices[c].account # GrNobody =>
                /\ grProof[c].account = grDevices[c].account
                /\ grDevices[c].expires <= grProof[c].at + GrTtl
          /\ grAnswered[c] # 0 => grDevices[c].nextPoll >= grAnswered[c] + GrInterval
    /\ grCodes[c].live =>
          /\ grCodes[c].account \in GrAccounts /\ grProof[c].account = grCodes[c].account
          /\ grCodes[c].expires <= grProof[c].at + GrTtl

GrOne == \A t, u \in grTokens : t.code = u.code => t = u

GrInv == GrTypes /\ GrOne /\ \A c \in GrCodes : GrLives(c) /\ GrWaits(c)

LEMMA GrStarts == GrInit => GrInv
  <1> SUFFICES ASSUME GrInit PROVE GrInv
    OBVIOUS
  <1>1. GrNoGrant \in GrGrant /\ GrNoCode \in GrCode
    BY GrAssumption DEF GrNoGrant, GrNoCode, GrGrant, GrCode
  <1>2. GrTypes
    BY <1>1, GrAssumption DEF GrInit, GrTypes, GrNoApproval
  <1>3. GrOne /\ \A c \in GrCodes : GrLives(c) /\ GrWaits(c)
    BY DEF GrInit, GrOne, GrLives, GrWaits, GrNoGrant, GrNoCode
  <1> QED
    BY <1>2, <1>3 DEF GrInv

LEMMA GrSteps == GrInv /\ [GrNext]_grVars => GrInv'
  <1> SUFFICES ASSUME GrInv, [GrNext]_grVars PROVE GrInv'
    OBVIOUS
  <1> USE GrAssumption DEF GrInv
  <1>0. GrNoGrant \in GrGrant /\ GrNoCode \in GrCode /\ ~GrNoGrant.live /\ ~GrNoCode.live
    BY DEF GrNoGrant, GrNoCode, GrGrant, GrCode
  <1>1. ASSUME NEW c \in GrCodes, DeviceAuthorization(c) PROVE GrInv'
    <2>1. GrTypes'
      BY <1>1 DEF DeviceAuthorization, GrTypes, GrGrant
    <2>2. ASSUME NEW d \in GrCodes PROVE (GrLives(d) /\ GrWaits(d))'
      <3>1. CASE d = c
        BY <1>1, <3>1 DEF DeviceAuthorization, GrTypes, GrLives, GrWaits
      <3>2. CASE d # c
        BY <1>1, <3>2 DEF DeviceAuthorization, GrTypes, GrLives, GrWaits
      <3> QED
        BY <3>1, <3>2
    <2> QED
      BY <1>1, <2>1, <2>2 DEF DeviceAuthorization, GrOne
  <1>2. ASSUME NEW c \in GrCodes, NEW p \in GrApprovers, NEW a \in GrAccounts,
               ApproveAuthenticate(p, c, a)
        PROVE  GrInv'
    BY <1>2 DEF ApproveAuthenticate, GrTypes, GrLives, GrWaits, GrOne
  <1>3. ASSUME NEW p \in GrApprovers, ApproveBind(p) PROVE GrInv'
    <2> DEFINE c == grApprove[p].code
               a == grApprove[p].account
               bound == c # 0 /\ grDevices[c].live /\ grDevices[c].expires > grNow /\ a # GrNobody
    <2>0. c \in GrCodes /\ a \in GrAccounts \cup {GrNobody}
      BY <1>3 DEF ApproveBind, GrTypes
    <2>1. GrTypes'
      <3>1. CASE bound
        <4>1. /\ grDevices' = [grDevices EXCEPT ![c].account = a]
              /\ grProof' = [grProof EXCEPT ![c] = [account |-> a, at |-> grNow]]
              /\ grApprove' = [grApprove EXCEPT ![p] = GrNoApproval]
              /\ UNCHANGED <<grNow, grActive, grDrawn, grCodes, grTokens, grAnswered, grTooSoon>>
          BY <1>3, <3>1 DEF ApproveBind
        <4> HIDE DEF c, a, bound
        <4>2. grDevices' \in [GrCodes -> GrGrant]
          BY <2>0, <4>1 DEF GrTypes, GrGrant
        <4>3. /\ grProof' \in [GrCodes -> [account : GrAccounts \cup {GrNobody}, at : Nat]]
              /\ grApprove' \in [GrApprovers -> [code : grDrawn \cup {0},
                                                 account : GrAccounts \cup {GrNobody}]]
          BY <2>0, <4>1 DEF GrTypes, GrNoApproval
        <4> QED
          BY <4>1, <4>2, <4>3 DEF GrTypes
      <3>2. CASE ~bound
        BY <1>3, <2>0, <3>2 DEF ApproveBind, GrTypes, GrNoApproval
      <3> QED
        BY <3>1, <3>2
    <2>2. ASSUME NEW d \in GrCodes PROVE (GrLives(d) /\ GrWaits(d))'
      <3>1. CASE d = c /\ bound
        BY <1>3, <2>0, <3>1 DEF ApproveBind, GrTypes, GrGrant, GrLives, GrWaits
      <3>2. CASE d # c /\ bound
        BY <1>3, <2>0, <3>2 DEF ApproveBind, GrTypes, GrLives, GrWaits
      <3>3. CASE ~bound
        BY <1>3, <2>0, <3>3 DEF ApproveBind, GrTypes, GrLives, GrWaits
      <3> QED
        BY <3>1, <3>2, <3>3
    <2> QED
      BY <1>3, <2>1, <2>2 DEF ApproveBind, GrOne
  <1>4. ASSUME NEW c \in GrCodes, PollExpired(c) PROVE GrInv'
    BY <1>0, <1>4 DEF PollExpired, GrTypes, GrLives, GrWaits, GrOne
  <1>5. ASSUME NEW c \in GrCodes, PollSlowDown(c) PROVE GrInv'
    <2>1. GrTypes'
      BY <1>5 DEF PollSlowDown, GrTypes, GrGrant
    <2>2. ASSUME NEW d \in GrCodes PROVE (GrLives(d) /\ GrWaits(d))'
      <3>1. CASE d = c
        <4>1. grAnswered[d] # 0 => grNow + GrInterval >= grAnswered[d] + GrInterval
          BY <1>5, <3>1 DEF PollSlowDown, GrTypes, GrGrant, GrWaits
        <4>2. grDevices'[d] = [grDevices[d] EXCEPT !.nextPoll = grNow + GrInterval]
          BY <1>5, <3>1 DEF PollSlowDown, GrTypes
        <4> QED
          BY <1>5, <4>1, <4>2 DEF PollSlowDown, GrTypes, GrGrant, GrLives, GrWaits
      <3>2. CASE d # c
        BY <1>5, <3>2 DEF PollSlowDown, GrTypes, GrLives, GrWaits
      <3> QED
        BY <3>1, <3>2
    <2> QED
      BY <1>5, <2>1, <2>2 DEF PollSlowDown, GrOne
  <1>6. ASSUME NEW c \in GrCodes, PollPending(c) PROVE GrInv'
    <2>1. ~(grAnswered[c] # 0 /\ grNow - grAnswered[c] < GrInterval)
      BY <1>6 DEF PollPending, PollDue, GrTypes, GrGrant, GrWaits
    <2>2. GrTypes'
      <3>1. grTooSoon' = FALSE
        BY <1>6, <2>1, Zenon DEF PollPending, PollAnswered, GrTypes
      <3>1a. grAnswered' \in [GrCodes -> 0 .. grNow']
        BY <1>6 DEF PollPending, PollAnswered, GrTypes
      <3>2. grDevices' \in [GrCodes -> GrGrant]
        BY <1>6 DEF PollPending, GrTypes, GrGrant
      <3> QED
        BY <1>6, <3>1, <3>1a, <3>2 DEF PollPending, GrTypes
    <2>3. ASSUME NEW d \in GrCodes PROVE (GrLives(d) /\ GrWaits(d))'
      BY <1>6 DEF PollPending, PollAnswered, PollDue, GrTypes, GrGrant, GrLives, GrWaits
    <2> QED
      BY <1>6, <2>2, <2>3 DEF PollPending, GrOne
  <1>7. ASSUME NEW c \in GrCodes, PollRedeem(c) PROVE GrInv'
    <2> DEFINE a == grDevices[c].account
               t == [code |-> c, account |-> a, at |-> grNow]
    <2>1. ~(grAnswered[c] # 0 /\ grNow - grAnswered[c] < GrInterval)
      BY <1>7 DEF PollRedeem, PollDue, GrTypes, GrGrant, GrWaits
    <2>2. a \in GrAccounts /\ grProof[c].account = a /\ grNow < grProof[c].at + GrTtl /\ c \in grDrawn
          /\ grProof[c].at \in Nat /\ ~grCodes[c].live
      BY <1>7 DEF PollRedeem, PollDue, GrTypes, GrGrant, GrWaits, GrLives
    <2>3. grTokens' = grTokens \cup {t} \/ grTokens' = grTokens
      BY <1>7 DEF PollRedeem, IssueToken
    <2>4. GrTypes'
      <3>1. grTokens' \subseteq [code : GrCodes, account : GrAccounts, at : 1 .. GrHorizon]
        BY <2>2, <2>3 DEF GrTypes
      <3>2. grTooSoon' = FALSE
        BY <1>7, <2>1, Zenon DEF PollRedeem, PollAnswered, GrTypes
      <3>2a. grAnswered' \in [GrCodes -> 0 .. grNow']
        BY <1>7 DEF PollRedeem, PollAnswered, GrTypes
      <3>3. QED
        BY <1>0, <1>7, <3>1, <3>2, <3>2a DEF PollRedeem, GrTypes
    <2>5. ASSUME NEW d \in GrCodes PROVE (GrLives(d) /\ GrWaits(d))'
      <3>1. CASE d = c
        BY <1>0, <1>7, <2>2, <2>3, <3>1 DEF PollRedeem, PollAnswered, GrTypes, GrLives, GrWaits
      <3>2. CASE d # c
        BY <1>7, <2>3, <3>2 DEF PollRedeem, PollAnswered, GrTypes, GrLives, GrWaits
      <3> QED
        BY <3>1, <3>2
    <2>6. GrOne'
      <3>1. \A u \in grTokens : u.code # c
        BY <1>7 DEF PollRedeem, PollDue, GrLives
      <3>2. QED
        BY <2>3, <3>1 DEF GrOne
    <2> QED
      BY <2>4, <2>5, <2>6
  <1>8. ASSUME NEW c \in GrCodes, NEW v \in GrVerifiers, NEW a \in GrAccounts, Authorize(c, a, v)
        PROVE  GrInv'
    <2>1. GrTypes'
      BY <1>8 DEF Authorize, GrTypes, GrCode
    <2>2. ASSUME NEW d \in GrCodes PROVE (GrLives(d) /\ GrWaits(d))'
      <3>1. CASE d = c
        BY <1>8, <3>1 DEF Authorize, GrTypes, GrLives, GrWaits
      <3>2. CASE d # c
        BY <1>8, <3>2 DEF Authorize, GrTypes, GrLives, GrWaits
      <3> QED
        BY <3>1, <3>2
    <2> QED
      BY <1>8, <2>1, <2>2 DEF Authorize, GrOne
  <1>9. ASSUME NEW c \in GrCodes, NEW v \in GrVerifiers, RedeemAuthorizationCode(c, v) PROVE GrInv'
    <2> DEFINE a == grCodes[c].account
               t == [code |-> c, account |-> a, at |-> grNow]
               due == grCodes[c].expires > grNow /\ grCodes[c].challenge = v
    <2>2. a \in GrAccounts /\ grProof[c].account = a /\ c \in grDrawn
          /\ (due => grNow < grProof[c].at + GrTtl) /\ ~grDevices[c].live
      BY <1>9 DEF RedeemAuthorizationCode, GrTypes, GrCode, GrWaits, GrLives
    <2>3. (due /\ grTokens' = grTokens \cup {t}) \/ grTokens' = grTokens
      BY <1>9 DEF RedeemAuthorizationCode, IssueToken
    <2>4. GrTypes'
      <3>1. grTokens' \subseteq [code : GrCodes, account : GrAccounts, at : 1 .. GrHorizon]
        BY <2>2, <2>3 DEF GrTypes
      <3>2. QED
        BY <1>0, <1>9, <3>1 DEF RedeemAuthorizationCode, GrTypes
    <2>5. ASSUME NEW d \in GrCodes PROVE (GrLives(d) /\ GrWaits(d))'
      <3>1. CASE d = c
        BY <1>0, <1>9, <2>2, <2>3, <3>1 DEF RedeemAuthorizationCode, GrTypes, GrLives, GrWaits
      <3>2. CASE d # c
        BY <1>9, <2>3, <3>2 DEF RedeemAuthorizationCode, GrTypes, GrLives, GrWaits
      <3> QED
        BY <3>1, <3>2
    <2>6. GrOne'
      <3>1. \A u \in grTokens : u.code # c
        BY <1>9 DEF RedeemAuthorizationCode, GrLives
      <3>2. QED
        BY <2>3, <3>1 DEF GrOne
    <2> QED
      BY <2>4, <2>5, <2>6
  <1>10. CASE GrRestart
    BY <1>0, <1>10 DEF GrRestart, GrTypes, GrLives, GrWaits, GrOne, GrNoApproval
  <1>11. ASSUME NEW a \in GrAccounts, GrAccountGone(a) PROVE GrInv'
    BY <1>11 DEF GrAccountGone, GrTypes, GrLives, GrWaits, GrOne
  <1>12. CASE GrTick
    BY <1>12 DEF GrTick, GrTypes, GrGrant, GrLives, GrWaits, GrOne
  <1>13. CASE UNCHANGED grVars
    BY <1>13 DEF grVars, GrTypes, GrLives, GrWaits, GrOne
  <1> QED
    BY <1>1, <1>2, <1>3, <1>4, <1>5, <1>6, <1>7, <1>8, <1>9, <1>10, <1>11, <1>12, <1>13 DEF GrNext

\* A device code or an authorization code yields at most one token, in time and for the account
\* that proved itself last, and answered polls are an interval apart, for any number of codes,
\* approvers, accounts and restarts (redeem_device_code, redeem_authorization_code).
THEOREM Grants == GrSpec => []GrantsCorrect
  <1>1. GrInv => GrantsCorrect
    <2> SUFFICES ASSUME GrInv PROVE GrantsCorrect
      OBVIOUS
    <2>1. GrTypeOK
      BY DEF GrInv, GrTypes, GrGrant, GrCode, GrLives, GrTypeOK
    <2>2. OneTokenPerCode /\ PollsSpaced
      BY DEF GrInv, GrOne, GrTypes, OneTokenPerCode, PollsSpaced
    <2>3. TokensProved
      <3> SUFFICES ASSUME NEW t \in grTokens
                   PROVE  grProof[t.code].account = t.account /\ t.at - grProof[t.code].at < GrTtl
        BY DEF TokensProved
      <3>1. t.code \in GrCodes /\ t.at \in Nat
        BY DEF GrInv, GrTypes
      <3>2. grProof[t.code].at \in Nat
        BY <3>1 DEF GrInv, GrTypes
      <3>3. grProof[t.code].account = t.account /\ t.at < grProof[t.code].at + GrTtl
        BY <3>1 DEF GrInv, GrLives
      <3> QED
        BY <3>1, <3>2, <3>3, GrAssumption
    <2> QED
      BY <2>1, <2>2, <2>3 DEF GrantsCorrect
  <1> QED
    BY <1>1, GrStarts, GrSteps, PTL DEF GrSpec

----------------------------------------------------------------------------
(* ManageSieve.                                                            *)

MsFiles == MsNames \cup {FilterFile, ActiveFile}
MsStored == MsParsing \cup {Absent, Empty}

\* The steps of a command: what is written to a script or to the live copy was parsed, or read
\* from a script; what is written to the marker is a name.
MsSteps ==
    [do : {"drop"}, file : MsFiles, text : {Absent}]
    \cup [do : {"truncate", "fill"}, file : MsNames \cup {FilterFile}, text : MsParsing \cup {Empty}]
    \cup [do : {"truncate", "fill"}, file : {ActiveFile}, text : MsNames]
    \cup [do : {"refresh"}, file : MsNames, text : MsParsing]
    \cup [do : {"move", "follow"}, file : MsNames, text : MsNames]

\* What a command has still to do; a comparison with the active name comes last.
MsPlan(steps) ==
    /\ steps \in Seq(MsSteps) /\ Len(steps) <= 4
    /\ \A i \in 1 .. Len(steps) : steps[i].do \in {"refresh", "follow"} => i = Len(steps)

MsSession ==
    /\ msState \in [MsConns -> {"Open", "Closed"}]
    /\ msTls \in [MsConns -> BOOLEAN] /\ msAccount \in [MsConns -> BOOLEAN]
    /\ msFailures \in [MsConns -> 0 .. MsMaxFailures]
    /\ \A c \in MsConns : msState[c] = "Open" => msFailures[c] < MsMaxFailures
    /\ msGuesses = msFailures

MsDisk ==
    /\ DOMAIN msTodo = MsConns /\ msTodo = [c \in MsConns |-> msTodo[c]]
    /\ \A c \in MsConns : MsPlan(msTodo[c])
    /\ DOMAIN msFile = MsFiles /\ msFile = [f \in MsFiles |-> msFile[f]]
    /\ \A f \in MsNames \cup {FilterFile} : msFile[f] \in MsStored
    /\ msFile[ActiveFile] \in MsNames \cup {Absent, Empty}

\* The marker and the live copy agree, and the marker reads back as it was written.
MsMarked(n) == msFile[ActiveFile] = n /\ MsTrim[n] = n
MsLive ==
    \/ msFile[ActiveFile] \in {Absent, Empty} /\ msFile[FilterFile] = Absent
    \/ \E n \in MsNames : MsMarked(n) /\ msFile[n] # Absent /\ msFile[FilterFile] = msFile[n]

MsDo(do, file, text) == [do |-> do, file |-> file, text |-> text]

\* Where a command that nothing disturbed stands, and what the files are then.
MsPutting(s) == \E n \in MsNames, t \in MsParsing :
    \/ s = <<MsDo("truncate", n, t), MsDo("fill", n, t), MsDo("refresh", n, t)>> /\ MsLive
    \/ s = <<MsDo("fill", n, t), MsDo("refresh", n, t)>> /\ (MsLive \/ MsMarked(n))
    \/ s = <<MsDo("refresh", n, t)>> /\ (MsLive \/ MsMarked(n)) /\ msFile[n] = t
    \/ /\ s \in {<<MsDo("truncate", FilterFile, t), MsDo("fill", FilterFile, t)>>,
                 <<MsDo("fill", FilterFile, t)>>}
       /\ MsMarked(n) /\ msFile[n] = t
MsActivating(s) == \E n \in MsNames : \E t \in MsParsing \cup {Empty} : msFile[n] = t /\
    \/ s = <<MsDo("truncate", FilterFile, t), MsDo("fill", FilterFile, t),
             MsDo("truncate", ActiveFile, n), MsDo("fill", ActiveFile, n)>>
    \/ s = <<MsDo("fill", FilterFile, t), MsDo("truncate", ActiveFile, n),
             MsDo("fill", ActiveFile, n)>>
    \/ /\ s \in {<<MsDo("truncate", ActiveFile, n), MsDo("fill", ActiveFile, n)>>,
                 <<MsDo("fill", ActiveFile, n)>>}
       /\ msFile[FilterFile] = t
MsDeactivating(s) ==
    \/ s = <<MsDo("drop", FilterFile, Absent), MsDo("drop", ActiveFile, Absent)>>
    \/ s = <<MsDo("drop", ActiveFile, Absent)>> /\ msFile[FilterFile] = Absent
MsDeleting(s) == \E n \in MsNames :
    s = <<MsDo("drop", n, Absent)>> /\ MsLive /\ msFile[ActiveFile] # n
MsRenaming(s) == \E o, n \in MsNames :
    \/ /\ s = <<MsDo("move", o, n), MsDo("follow", o, n)>>
       /\ MsLive /\ msFile[o] # Absent /\ msFile[n] = Absent
    \/ /\ s = <<MsDo("follow", o, n)>>
       /\ \/ MsLive /\ msFile[ActiveFile] # o
          \/ MsMarked(o) /\ msFile[n] # Absent /\ msFile[FilterFile] = msFile[n]
MsStage(s) ==
    \/ s = <<>> /\ MsLive
    \/ MsPutting(s) \/ MsActivating(s) \/ MsDeactivating(s) \/ MsDeleting(s) \/ MsRenaming(s)

\* As long as nothing overlapped or was cut short, at most one connection has a command in hand.
MsInTurn ==
    \/ MsLive /\ \A c \in MsConns : msTodo[c] = <<>>
    \/ \E c \in MsConns : MsStage(msTodo[c]) /\ \A d \in MsConns \ {c} : msTodo[d] = <<>>
MsSerial == msUnsafe = FALSE => MsInTurn

MsInv == MsSession /\ MsDisk /\ MsSerial /\ msUnsafe \in BOOLEAN

\* Tuples of up to four elements.
LEMMA MsTuples ==
  ASSUME NEW a, NEW b, NEW c, NEW d
  PROVE  /\ Head(<<a>>) = a /\ Tail(<<a>>) = <<>>
         /\ Head(<<a, b>>) = a /\ Tail(<<a, b>>) = <<b>>
         /\ Head(<<a, b, c>>) = a /\ Tail(<<a, b, c>>) = <<b, c>>
         /\ Head(<<a, b, c, d>>) = a /\ Tail(<<a, b, c, d>>) = <<b, c, d>>
         /\ <<a>> # <<>> /\ <<a, b>> # <<>> /\ <<a, b, c>> # <<>> /\ <<a, b, c, d>> # <<>>
  <1>1. Tail(<<a>>) = <<>>
    OBVIOUS
  <1>2. Tail(<<a, b>>) = <<b>>
    OBVIOUS
  <1>3. Tail(<<a, b, c>>) = <<b, c>>
    OBVIOUS
  <1>4. Tail(<<a, b, c, d>>) = <<b, c, d>>
    OBVIOUS
  <1> QED
    BY <1>1, <1>2, <1>3, <1>4

LEMMA MsThree ==
  ASSUME NEW a, NEW b, NEW c
  PROVE  <<a, b>> \o <<c>> = <<a, b, c>>
  <1> DEFINE S == {a, b, c}
  <1>1. <<a, b>> \in Seq(S) /\ <<c>> \in Seq(S) /\ <<a, b, c>> \in Seq(S)
    OBVIOUS
  <1>2. <<a, b>> \o <<c>> \in Seq(S) /\ Len(<<a, b>> \o <<c>>) = 3
    BY <1>1, ConcatProperties
  <1>3. \A i \in 1 .. 3 : (<<a, b>> \o <<c>>)[i] = <<a, b, c>>[i]
    BY <1>1, ConcatProperties
  <1> HIDE DEF S
  <1> QED
    BY <1>1, <1>2, <1>3, SeqEqual

LEMMA MsFour ==
  ASSUME NEW a, NEW b, NEW c, NEW d
  PROVE  <<a, b>> \o <<c, d>> = <<a, b, c, d>>
  <1> DEFINE S == {a, b, c, d}
  <1>1. <<a, b>> \in Seq(S) /\ <<c, d>> \in Seq(S) /\ <<a, b, c, d>> \in Seq(S)
    OBVIOUS
  <1>2. <<a, b>> \o <<c, d>> \in Seq(S) /\ Len(<<a, b>> \o <<c, d>>) = 4
    BY <1>1, ConcatProperties
  <1>3. \A i \in 1 .. 4 : (<<a, b>> \o <<c, d>>)[i] = <<a, b, c, d>>[i]
    BY <1>1, ConcatProperties
  <1> HIDE DEF S
  <1> QED
    BY <1>1, <1>2, <1>3, SeqEqual

\* The plans commands begin with.
LEMMA MsBegins ==
  ASSUME NEW n \in MsNames, NEW t \in MsParsing
  PROVE  /\ PutSteps(n, t) = <<MsDo("truncate", n, t), MsDo("fill", n, t), MsDo("refresh", n, t)>>
         /\ MsPlan(PutSteps(n, t))
  <1>1. PutSteps(n, t) = <<MsDo("truncate", n, t), MsDo("fill", n, t), MsDo("refresh", n, t)>>
    BY MsThree DEF PutSteps, WriteFile, MsDo
  <1>2. MsPlan(PutSteps(n, t))
    BY <1>1 DEF MsPlan, MsSteps, MsDo
  <1> QED
    BY <1>1, <1>2

LEMMA MsActivates ==
  ASSUME NEW n \in MsNames, NEW u \in MsParsing \cup {Empty}
  PROVE  /\ ActivateSteps(n, u) =
              <<MsDo("truncate", FilterFile, u), MsDo("fill", FilterFile, u),
                MsDo("truncate", ActiveFile, n), MsDo("fill", ActiveFile, n)>>
         /\ MsPlan(ActivateSteps(n, u))
  <1>1. ActivateSteps(n, u) =
              <<MsDo("truncate", FilterFile, u), MsDo("fill", FilterFile, u),
                MsDo("truncate", ActiveFile, n), MsDo("fill", ActiveFile, n)>>
    BY MsFour DEF ActivateSteps, WriteFile, MsDo
  <1>2. MsPlan(ActivateSteps(n, u))
    BY <1>1 DEF MsPlan, MsSteps, MsDo
  <1> QED
    BY <1>1, <1>2

\* The plans a comparison with the active name adds.
LEMMA MsWritesLive ==
  ASSUME NEW t \in MsParsing
  PROVE  /\ WriteFile(FilterFile, t) \o <<>> =
              <<MsDo("truncate", FilterFile, t), MsDo("fill", FilterFile, t)>>
         /\ MsPlan(WriteFile(FilterFile, t) \o <<>>)
  <1>1. WriteFile(FilterFile, t) = <<MsDo("truncate", FilterFile, t), MsDo("fill", FilterFile, t)>>
    BY DEF WriteFile, MsDo
  <1>2. MsPlan(WriteFile(FilterFile, t))
    BY <1>1 DEF MsPlan, MsSteps, MsDo
  <1>3. WriteFile(FilterFile, t) \o <<>> = WriteFile(FilterFile, t)
    BY <1>2, ConcatEmptySeq DEF MsPlan
  <1> QED
    BY <1>1, <1>2, <1>3

LEMMA MsWritesMarker ==
  ASSUME NEW n \in MsNames
  PROVE  /\ WriteFile(ActiveFile, n) \o <<>> =
              <<MsDo("truncate", ActiveFile, n), MsDo("fill", ActiveFile, n)>>
         /\ MsPlan(WriteFile(ActiveFile, n) \o <<>>)
  <1>1. WriteFile(ActiveFile, n) = <<MsDo("truncate", ActiveFile, n), MsDo("fill", ActiveFile, n)>>
    BY DEF WriteFile, MsDo
  <1>2. MsPlan(WriteFile(ActiveFile, n))
    BY <1>1 DEF MsPlan, MsSteps, MsDo
  <1>3. WriteFile(ActiveFile, n) \o <<>> = WriteFile(ActiveFile, n)
    BY <1>2, ConcatEmptySeq DEF MsPlan
  <1> QED
    BY <1>1, <1>2, <1>3

\* One step further: the plan stays one, and so does what is on disk.
LEMMA MsAdvances ==
  ASSUME MsDisk, NEW c \in MsConns, Step(c)
  PROVE  MsDisk'
  <1> DEFINE todo == msTodo[c]
             step == Head(todo)
  <1>1. todo \in Seq(MsSteps) /\ todo # <<>> /\ Len(todo) <= 4 /\ step = todo[1] /\ step \in MsSteps
    BY DEF Step, MsDisk, MsPlan
  <1>2. /\ Tail(todo) \in Seq(MsSteps) /\ Len(Tail(todo)) = Len(todo) - 1
        /\ \A i \in 1 .. Len(todo) - 1 : Tail(todo)[i] = todo[i + 1]
    BY <1>1
  <1>3. MsPlan(Tail(todo))
    <2> SUFFICES ASSUME NEW i \in 1 .. Len(Tail(todo)), Tail(todo)[i].do \in {"refresh", "follow"}
                 PROVE  i = Len(Tail(todo))
      BY <1>1, <1>2 DEF MsPlan
    <2>1. i + 1 \in 1 .. Len(todo) /\ todo[i + 1] = Tail(todo)[i] /\ Len(todo) \in Nat
      BY <1>1, <1>2
    <2>2. i + 1 = Len(todo)
      BY <2>1 DEF MsDisk, MsPlan
    <2> QED
      BY <1>2, <2>1, <2>2
  <1>4. step.do \in {"refresh", "follow"} => Tail(todo) = <<>>
    <2>1. 1 \in 1 .. Len(todo)
      BY <1>1
    <2>2. todo[1].do \in {"refresh", "follow"} => 1 = Len(todo)
      BY <2>1 DEF MsDisk, MsPlan
    <2>3. 1 = Len(todo) => Tail(todo) = <<>>
      <3> DEFINE rest == Tail(todo)
      <3>1. rest \in Seq(MsSteps) /\ Len(rest) = Len(todo) - 1
        BY <1>2
      <3> HIDE DEF rest
      <3>2. Len(rest) = 0 => rest = <<>>
        BY <3>1, EmptySeq
      <3> QED
        BY <3>1, <3>2 DEF rest
    <2> QED
      BY <1>1, <2>2, <2>3
  <1>5. MsPlan(Further(step) \o Tail(todo))
    <2>1. CASE step.do = "refresh" /\ ActiveName = step.file
      <3>1. step.text \in MsParsing
        BY <1>1, <2>1 DEF MsSteps
      <3>2. Further(step) = WriteFile(FilterFile, step.text) /\ Tail(todo) = <<>>
        BY <1>4, <2>1 DEF Further
      <3> QED
        BY <3>1, <3>2, MsWritesLive
    <2>2. CASE step.do = "follow" /\ ActiveName = step.file
      <3>1. step.text \in MsNames
        BY <1>1, <2>2 DEF MsSteps
      <3>2. Further(step) = WriteFile(ActiveFile, step.text) /\ Tail(todo) = <<>>
        BY <1>4, <2>2 DEF Further
      <3> QED
        BY <3>1, <3>2, MsWritesMarker
    <2>3. CASE ~(step.do = "refresh" /\ ActiveName = step.file)
               /\ ~(step.do = "follow" /\ ActiveName = step.file)
      <3>1. Further(step) = <<>>
        BY <2>3 DEF Further
      <3>2. Further(step) \o Tail(todo) = Tail(todo)
        BY <1>2, <3>1, ConcatEmptySeq
      <3> QED
        BY <1>3, <3>2
    <2> QED
      BY <2>1, <2>2, <2>3
  <1>6. /\ msTodo' = [msTodo EXCEPT ![c] = Further(step) \o Tail(todo)] /\ msFile' = After(step)
    BY DEF Step
  <1>7. /\ DOMAIN msTodo' = MsConns /\ msTodo' = [d \in MsConns |-> msTodo'[d]]
        /\ \A d \in MsConns : MsPlan(msTodo'[d])
    BY <1>5, <1>6 DEF MsDisk
  <1>8. /\ DOMAIN msFile' = MsFiles /\ msFile' = [f \in MsFiles |-> msFile'[f]]
        /\ \A f \in MsNames \cup {FilterFile} : msFile'[f] \in MsStored
        /\ msFile'[ActiveFile] \in MsNames \cup {Absent, Empty}
    <2> HIDE DEF step
    <2>1. CASE step \in [do : {"drop"}, file : MsFiles, text : {Absent}]
      BY <1>6, <2>1, MsAssumption DEF After, MsDisk, MsFiles, MsStored, FilterFile, ActiveFile
    <2>2. CASE step \in [do : {"truncate", "fill"}, file : MsNames \cup {FilterFile},
                         text : MsParsing \cup {Empty}]
      BY <1>6, <2>2, MsAssumption DEF After, MsDisk, MsFiles, MsStored, FilterFile, ActiveFile
    <2>3. CASE step \in [do : {"truncate", "fill"}, file : {ActiveFile}, text : MsNames]
      BY <1>6, <2>3, MsAssumption DEF After, MsDisk, MsFiles, MsStored, FilterFile, ActiveFile
    <2>4. CASE step \in [do : {"refresh"}, file : MsNames, text : MsParsing]
      BY <1>6, <2>4 DEF After, MsDisk
    <2>5. CASE step \in [do : {"move", "follow"}, file : MsNames, text : MsNames]
      BY <1>6, <2>5, MsAssumption DEF After, MsDisk, MsFiles, MsStored, FilterFile, ActiveFile
    <2> QED
      BY <1>1, <2>1, <2>2, <2>3, <2>4, <2>5 DEF MsSteps, step
  <1> QED
    BY <1>7, <1>8 DEF MsDisk, MsPlan

\* What a step does to the files, and that most steps add nothing to the plan.
LEMMA MsEffects ==
  ASSUME NEW f, NEW t
  PROVE  /\ After(MsDo("drop", f, t)) = [msFile EXCEPT ![f] = Absent]
         /\ After(MsDo("truncate", f, t)) = [msFile EXCEPT ![f] = Empty]
         /\ After(MsDo("fill", f, t)) = [msFile EXCEPT ![f] = t]
         /\ After(MsDo("move", f, t)) = [msFile EXCEPT ![t] = msFile[f], ![f] = Absent]
         /\ After(MsDo("refresh", f, t)) = msFile /\ After(MsDo("follow", f, t)) = msFile
  <1>1. After(MsDo("drop", f, t)) = [msFile EXCEPT ![f] = Absent]
    BY DEF After, MsDo
  <1>2. After(MsDo("truncate", f, t)) = [msFile EXCEPT ![f] = Empty]
    BY DEF After, MsDo
  <1>3. After(MsDo("fill", f, t)) = [msFile EXCEPT ![f] = t]
    BY DEF After, MsDo
  <1>4. After(MsDo("move", f, t)) = [msFile EXCEPT ![t] = msFile[f], ![f] = Absent]
    BY DEF After, MsDo
  <1>5. After(MsDo("refresh", f, t)) = msFile /\ After(MsDo("follow", f, t)) = msFile
    BY DEF After, MsDo
  <1> QED
    BY <1>1, <1>2, <1>3, <1>4, <1>5

LEMMA MsQuiet ==
  ASSUME NEW do, NEW f, NEW t, NEW s \in Seq(MsSteps),
         do \notin {"refresh", "follow"} \/ ActiveName # f
  PROVE  Further(MsDo(do, f, t)) \o s = s
  <1>1. Further(MsDo(do, f, t)) = <<>>
    BY DEF Further, MsDo
  <1> QED
    BY <1>1, ConcatEmptySeq

LEMMA MsCompares ==
  ASSUME NEW f, NEW t, ActiveName = f
  PROVE  /\ Further(MsDo("refresh", f, t)) = WriteFile(FilterFile, t)
         /\ Further(MsDo("follow", f, t)) = WriteFile(ActiveFile, t)
  <1>1. Further(MsDo("refresh", f, t)) = WriteFile(FilterFile, t)
    BY DEF Further, MsDo
  <1>2. Further(MsDo("follow", f, t)) = WriteFile(ActiveFile, t)
    BY DEF Further, MsDo
  <1> QED
    BY <1>1, <1>2

\* A step of the only command in hand: where it stands then.
LEMMA MsMoves ==
  ASSUME MsDisk, NEW c \in MsConns, Step(c), MsStage(msTodo[c]),
         ~PaddedActivation(Head(msTodo[c]))
  PROVE  MsStage(msTodo[c])'
  <1> DEFINE todo == msTodo[c]
             step == Head(todo)
  <1>0. todo # <<>>
    BY DEF Step
  <1>1. msTodo'[c] = Further(step) \o Tail(todo) /\ msFile' = After(step)
        /\ Tail(todo) \in Seq(MsSteps)
    BY DEF Step, MsDisk, MsPlan
  <1>2. /\ FilterFile \in MsFiles /\ ActiveFile \in MsFiles /\ MsNames \subseteq MsFiles
        /\ FilterFile \notin MsNames /\ ActiveFile \notin MsNames /\ FilterFile # ActiveFile
        /\ Absent \notin MsNames /\ Empty \notin MsNames /\ Absent \notin MsParsing /\ Absent # Empty
    BY MsAssumption DEF MsFiles, FilterFile, ActiveFile, Absent, Empty
  <1>3. /\ DOMAIN msFile = MsFiles
        /\ \A f \in MsNames \cup {FilterFile} : msFile[f] \in MsStored
        /\ msFile[ActiveFile] \in MsNames \cup {Absent, Empty}
    BY DEF MsDisk
  <1>4. \A n \in MsNames : MsMarked(n) => ActiveName = n
    BY <1>2 DEF MsMarked, ActiveName
  <1>5. MsLive /\ (\A n \in MsNames : ~MsMarked(n)) => ActiveName = Absent
    BY <1>2 DEF MsLive, ActiveName
  <1>6. \A n \in MsNames : \A m \in MsNames : MsMarked(n) /\ MsMarked(m) => n = m
    BY DEF MsMarked
  <1> HIDE DEF todo, step
  <1>6a. ASSUME NEW do, NEW f, NEW t, step = MsDo(do, f, t),
               do \notin {"refresh", "follow"} \/ ActiveName # f
        PROVE  msTodo'[c] = Tail(todo)
    BY <1>1, <1>6a, MsQuiet
  <1>7. ASSUME MsPutting(todo) PROVE MsStage(msTodo[c])'
    <2>0. PICK n \in MsNames, t \in MsParsing :
            \/ todo = <<MsDo("truncate", n, t), MsDo("fill", n, t), MsDo("refresh", n, t)>> /\ MsLive
            \/ todo = <<MsDo("fill", n, t), MsDo("refresh", n, t)>> /\ (MsLive \/ MsMarked(n))
            \/ todo = <<MsDo("refresh", n, t)>> /\ (MsLive \/ MsMarked(n)) /\ msFile[n] = t
            \/ /\ todo \in {<<MsDo("truncate", FilterFile, t), MsDo("fill", FilterFile, t)>>,
                            <<MsDo("fill", FilterFile, t)>>}
               /\ MsMarked(n) /\ msFile[n] = t
      BY <1>7 DEF MsPutting
    <2>1. CASE todo = <<MsDo("truncate", n, t), MsDo("fill", n, t), MsDo("refresh", n, t)>> /\ MsLive
      <3>1. step = MsDo("truncate", n, t) /\ Tail(todo) = <<MsDo("fill", n, t), MsDo("refresh", n, t)>>
        BY <2>1, MsTuples DEF step
      <3>2. msTodo'[c] = <<MsDo("fill", n, t), MsDo("refresh", n, t)>>
        BY <1>6a, <3>1
      <3>3. msFile' = [msFile EXCEPT ![n] = Empty]
        BY <1>1, <3>1, MsEffects
      <3>4. (MsLive \/ MsMarked(n))'
        BY <1>2, <1>3, <2>1, <3>3 DEF MsLive, MsMarked
      <3> QED
        BY <3>2, <3>4 DEF MsStage, MsPutting
    <2>2. CASE todo = <<MsDo("fill", n, t), MsDo("refresh", n, t)>> /\ (MsLive \/ MsMarked(n))
      <3>1. step = MsDo("fill", n, t) /\ Tail(todo) = <<MsDo("refresh", n, t)>>
        BY <2>2, MsTuples DEF step
      <3>2. msTodo'[c] = <<MsDo("refresh", n, t)>>
        BY <1>6a, <3>1
      <3>3. msFile' = [msFile EXCEPT ![n] = t]
        BY <1>1, <3>1, MsEffects
      <3>4. (MsLive \/ MsMarked(n))' /\ msFile'[n] = t
        BY <1>2, <1>3, <2>2, <3>3 DEF MsLive, MsMarked
      <3> QED
        BY <3>2, <3>4 DEF MsStage, MsPutting
    <2>3. CASE todo = <<MsDo("refresh", n, t)>> /\ (MsLive \/ MsMarked(n)) /\ msFile[n] = t
      <3>1. step = MsDo("refresh", n, t) /\ Tail(todo) = <<>>
        BY <2>3, MsTuples DEF step
      <3>2. msFile' = msFile
        BY <1>1, <3>1, MsEffects
      <3>3. CASE MsMarked(n)
        <4>1. msTodo'[c] = <<MsDo("truncate", FilterFile, t), MsDo("fill", FilterFile, t)>>
          BY <1>1, <1>4, <3>1, <3>3, MsWritesLive, MsCompares
        <4>2. MsMarked(n)' /\ msFile'[n] = t
          BY <2>3, <3>2, <3>3 DEF MsMarked
        <4> QED
          BY <4>1, <4>2 DEF MsStage, MsPutting
      <3>4. CASE ~MsMarked(n)
        <4>1. ActiveName # n
          BY <1>2, <1>4, <1>5, <1>6, <2>3, <3>4
        <4>2. msTodo'[c] = <<>>
          BY <1>1, <3>1, <4>1, MsQuiet
        <4>3. MsLive'
          BY <2>3, <3>2, <3>4 DEF MsLive, MsMarked
        <4> QED
          BY <4>2, <4>3 DEF MsStage
      <3> QED
        BY <3>3, <3>4
    <2>4. CASE todo = <<MsDo("truncate", FilterFile, t), MsDo("fill", FilterFile, t)>>
               /\ MsMarked(n) /\ msFile[n] = t
      <3>1. step = MsDo("truncate", FilterFile, t) /\ Tail(todo) = <<MsDo("fill", FilterFile, t)>>
        BY <2>4, MsTuples DEF step
      <3>2. msTodo'[c] = <<MsDo("fill", FilterFile, t)>>
        BY <1>6a, <3>1
      <3>3. msFile' = [msFile EXCEPT ![FilterFile] = Empty]
        BY <1>1, <3>1, MsEffects
      <3>4. MsMarked(n)' /\ msFile'[n] = t
        BY <1>2, <1>3, <2>4, <3>3 DEF MsMarked
      <3> QED
        BY <3>2, <3>4 DEF MsStage, MsPutting
    <2>5. CASE todo = <<MsDo("fill", FilterFile, t)>> /\ MsMarked(n) /\ msFile[n] = t
      <3>1. step = MsDo("fill", FilterFile, t) /\ Tail(todo) = <<>>
        BY <2>5, MsTuples DEF step
      <3>2. msTodo'[c] = <<>>
        BY <1>6a, <3>1
      <3>3. msFile' = [msFile EXCEPT ![FilterFile] = t]
        BY <1>1, <3>1, MsEffects
      <3>4. MsLive'
        BY <1>2, <1>3, <2>5, <3>3 DEF MsLive, MsMarked
      <3> QED
        BY <3>2, <3>4 DEF MsStage
    <2> QED
      BY <2>0, <2>1, <2>2, <2>3, <2>4, <2>5
  <1>8. ASSUME MsActivating(todo) PROVE MsStage(msTodo[c])'
    <2>0. PICK n \in MsNames, t \in MsParsing \cup {Empty} : msFile[n] = t /\
            \/ todo = <<MsDo("truncate", FilterFile, t), MsDo("fill", FilterFile, t),
                        MsDo("truncate", ActiveFile, n), MsDo("fill", ActiveFile, n)>>
            \/ todo = <<MsDo("fill", FilterFile, t), MsDo("truncate", ActiveFile, n),
                        MsDo("fill", ActiveFile, n)>>
            \/ /\ todo \in {<<MsDo("truncate", ActiveFile, n), MsDo("fill", ActiveFile, n)>>,
                            <<MsDo("fill", ActiveFile, n)>>}
               /\ msFile[FilterFile] = t
      BY <1>8 DEF MsActivating
    <2>1. CASE todo = <<MsDo("truncate", FilterFile, t), MsDo("fill", FilterFile, t),
                        MsDo("truncate", ActiveFile, n), MsDo("fill", ActiveFile, n)>>
      <3>1. step = MsDo("truncate", FilterFile, t)
            /\ Tail(todo) = <<MsDo("fill", FilterFile, t), MsDo("truncate", ActiveFile, n),
                              MsDo("fill", ActiveFile, n)>>
        BY <2>1, MsTuples DEF step
      <3>2. msTodo'[c] = <<MsDo("fill", FilterFile, t), MsDo("truncate", ActiveFile, n),
                           MsDo("fill", ActiveFile, n)>>
        BY <1>6a, <3>1
      <3>3. msFile'[n] = t
        BY <1>1, <1>2, <1>3, <2>0, <3>1, MsEffects
      <3> QED
        BY <3>2, <3>3 DEF MsStage, MsActivating
    <2>2. CASE todo = <<MsDo("fill", FilterFile, t), MsDo("truncate", ActiveFile, n),
                        MsDo("fill", ActiveFile, n)>>
      <3>1. step = MsDo("fill", FilterFile, t)
            /\ Tail(todo) = <<MsDo("truncate", ActiveFile, n), MsDo("fill", ActiveFile, n)>>
        BY <2>2, MsTuples DEF step
      <3>2. msTodo'[c] = <<MsDo("truncate", ActiveFile, n), MsDo("fill", ActiveFile, n)>>
        BY <1>6a, <3>1
      <3>3. msFile'[n] = t /\ msFile'[FilterFile] = t
        BY <1>1, <1>2, <1>3, <2>0, <3>1, MsEffects
      <3> QED
        BY <3>2, <3>3 DEF MsStage, MsActivating
    <2>3. CASE todo = <<MsDo("truncate", ActiveFile, n), MsDo("fill", ActiveFile, n)>>
               /\ msFile[FilterFile] = t
      <3>1. step = MsDo("truncate", ActiveFile, n) /\ Tail(todo) = <<MsDo("fill", ActiveFile, n)>>
        BY <2>3, MsTuples DEF step
      <3>2. msTodo'[c] = <<MsDo("fill", ActiveFile, n)>>
        BY <1>6a, <3>1
      <3>3. msFile'[n] = t /\ msFile'[FilterFile] = t
        BY <1>1, <1>2, <1>3, <2>0, <2>3, <3>1, MsEffects
      <3> QED
        BY <3>2, <3>3 DEF MsStage, MsActivating
    <2>4. CASE todo = <<MsDo("fill", ActiveFile, n)>> /\ msFile[FilterFile] = t
      <3>1. step = MsDo("fill", ActiveFile, n) /\ Tail(todo) = <<>>
        BY <2>4, MsTuples DEF step
      <3>2. msTodo'[c] = <<>> /\ MsTrim[n] = n
        BY <1>1, <3>1, MsQuiet DEF PaddedActivation, MsDo, step, todo
      <3>3. msFile' = [msFile EXCEPT ![ActiveFile] = n]
        BY <1>1, <3>1, MsEffects
      <3>4. MsLive'
        BY <1>2, <1>3, <2>0, <2>4, <3>2, <3>3 DEF MsLive, MsMarked
      <3> QED
        BY <3>2, <3>4 DEF MsStage
    <2> QED
      BY <2>0, <2>1, <2>2, <2>3, <2>4
  <1>9. ASSUME MsDeactivating(todo) PROVE MsStage(msTodo[c])'
    <2>1. CASE todo = <<MsDo("drop", FilterFile, Absent), MsDo("drop", ActiveFile, Absent)>>
      <3>1. step = MsDo("drop", FilterFile, Absent) /\ Tail(todo) = <<MsDo("drop", ActiveFile, Absent)>>
        BY <2>1, MsTuples DEF step
      <3>2. msTodo'[c] = <<MsDo("drop", ActiveFile, Absent)>>
        BY <1>6a, <3>1
      <3>3. msFile'[FilterFile] = Absent
        BY <1>1, <1>2, <1>3, <3>1, MsEffects
      <3> QED
        BY <3>2, <3>3 DEF MsStage, MsDeactivating
    <2>2. CASE todo = <<MsDo("drop", ActiveFile, Absent)>> /\ msFile[FilterFile] = Absent
      <3>1. step = MsDo("drop", ActiveFile, Absent) /\ Tail(todo) = <<>>
        BY <2>2, MsTuples DEF step
      <3>2. msTodo'[c] = <<>> /\ msFile' = [msFile EXCEPT ![ActiveFile] = Absent]
        BY <1>1, <3>1, MsQuiet, MsEffects
      <3>3. MsLive'
        BY <1>2, <1>3, <2>2, <3>2 DEF MsLive
      <3> QED
        BY <3>2, <3>3 DEF MsStage
    <2> QED
      BY <1>9, <2>1, <2>2 DEF MsDeactivating
  <1>10. ASSUME MsDeleting(todo) PROVE MsStage(msTodo[c])'
    <2>0. PICK n \in MsNames :
            todo = <<MsDo("drop", n, Absent)>> /\ MsLive /\ msFile[ActiveFile] # n
      BY <1>10 DEF MsDeleting
    <2>1. step = MsDo("drop", n, Absent) /\ Tail(todo) = <<>>
      BY <2>0, MsTuples DEF step
    <2>2. msTodo'[c] = <<>> /\ msFile' = [msFile EXCEPT ![n] = Absent]
      BY <1>1, <2>1, MsQuiet, MsEffects
    <2>3. MsLive'
      BY <1>2, <1>3, <2>0, <2>2 DEF MsLive, MsMarked
    <2> QED
      BY <2>2, <2>3 DEF MsStage
  <1>11. ASSUME MsRenaming(todo) PROVE MsStage(msTodo[c])'
    <2>0. PICK o \in MsNames, n \in MsNames :
            \/ /\ todo = <<MsDo("move", o, n), MsDo("follow", o, n)>>
               /\ MsLive /\ msFile[o] # Absent /\ msFile[n] = Absent
            \/ /\ todo = <<MsDo("follow", o, n)>>
               /\ \/ MsLive /\ msFile[ActiveFile] # o
                  \/ MsMarked(o) /\ msFile[n] # Absent /\ msFile[FilterFile] = msFile[n]
      BY <1>11 DEF MsRenaming
    <2>1. CASE /\ todo = <<MsDo("move", o, n), MsDo("follow", o, n)>>
               /\ MsLive /\ msFile[o] # Absent /\ msFile[n] = Absent
      <3>1. step = MsDo("move", o, n) /\ Tail(todo) = <<MsDo("follow", o, n)>>
        BY <2>1, MsTuples DEF step
      <3>2. msTodo'[c] = <<MsDo("follow", o, n)>>
        BY <1>6a, <3>1
      <3>3. msFile' = [msFile EXCEPT ![n] = msFile[o], ![o] = Absent]
        BY <1>1, <3>1, MsEffects
      <3>4. \/ MsLive' /\ msFile'[ActiveFile] # o
            \/ MsMarked(o)' /\ msFile'[n] # Absent /\ msFile'[FilterFile] = msFile'[n]
        BY <1>2, <1>3, <2>1, <3>3 DEF MsLive, MsMarked
      <3> QED
        BY <3>2, <3>4 DEF MsStage, MsRenaming
    <2>2. CASE todo = <<MsDo("follow", o, n)>> /\ MsLive /\ msFile[ActiveFile] # o
      <3>1. step = MsDo("follow", o, n) /\ Tail(todo) = <<>>
        BY <2>2, MsTuples DEF step
      <3>2. ActiveName # o
        BY <1>2, <1>4, <1>5, <2>2 DEF MsMarked
      <3>3. msTodo'[c] = <<>> /\ msFile' = msFile
        BY <1>1, <3>1, <3>2, MsQuiet, MsEffects
      <3>4. MsLive'
        BY <2>2, <3>3 DEF MsLive, MsMarked
      <3> QED
        BY <3>3, <3>4 DEF MsStage
    <2>3. CASE /\ todo = <<MsDo("follow", o, n)>>
               /\ MsMarked(o) /\ msFile[n] # Absent /\ msFile[FilterFile] = msFile[n]
      <3>1. step = MsDo("follow", o, n) /\ Tail(todo) = <<>>
        BY <2>3, MsTuples DEF step
      <3>2. msTodo'[c] = <<MsDo("truncate", ActiveFile, n), MsDo("fill", ActiveFile, n)>>
        BY <1>1, <1>4, <2>3, <3>1, MsWritesMarker, MsCompares
      <3>3. msFile' = msFile
        BY <1>1, <3>1, MsEffects
      <3>4. msFile[n] \in MsParsing \cup {Empty}
        BY <1>3, <2>3 DEF MsStored
      <3> QED
        BY <2>3, <3>2, <3>3, <3>4 DEF MsStage, MsActivating
    <2> QED
      BY <2>0, <2>1, <2>2, <2>3
  <1> QED
    BY <1>0, <1>7, <1>8, <1>9, <1>10, <1>11 DEF MsStage, todo

LEMMA MsStarts == MsInit => MsInv
  <1> SUFFICES ASSUME MsInit PROVE MsInv
    OBVIOUS
  <1>1. MsSession
    BY MsAssumption DEF MsInit, MsSession
  <1>2. MsPlan(<<>>)
    BY DEF MsPlan
  <1>3. MsDisk
    BY <1>2 DEF MsInit, MsDisk, MsFiles, MsStored
  <1>4. MsLive /\ \A c \in MsConns : msTodo[c] = <<>>
    BY DEF MsInit, MsLive
  <1> QED
    BY <1>1, <1>3, <1>4 DEF MsInit, MsInv, MsSerial, MsInTurn

\* A command that finds no other in hand starts at its first stage.
LEMMA MsAccepts ==
  ASSUME MsInv, NEW c \in MsConns, NEW steps, MsPlan(steps), Begin(c, steps),
         MsLive => MsStage(steps)
  PROVE  MsInv'
  <1>1. /\ msTodo' = [msTodo EXCEPT ![c] = steps] /\ msFile' = msFile
        /\ UNCHANGED <<msState, msTls, msAccount, msFailures, msGuesses>>
    BY DEF Begin, msLogin
  <1>2. MsSession'
    BY <1>1 DEF MsInv, MsSession
  <1>3. MsDisk'
    BY <1>1 DEF MsInv, MsDisk, MsPlan
  <1>4. msUnsafe' \in BOOLEAN
    BY Zenon DEF Begin
  <1>5. MsSerial'
    <2> SUFFICES ASSUME msUnsafe' = FALSE PROVE MsInTurn'
      BY DEF MsSerial
    <2>1. msUnsafe = FALSE /\ \A d \in MsConns : msTodo[d] = <<>>
      BY Zenon DEF Begin, MsInv
    <2>2. MsLive
      <3>1. CASE MsLive /\ \A d \in MsConns : msTodo[d] = <<>>
        BY <3>1
      <3>2. ASSUME NEW d \in MsConns, MsStage(msTodo[d]) PROVE MsLive
        BY <2>1, <3>2, MsTuples DEF MsStage, MsPutting, MsActivating, MsDeactivating, MsDeleting, MsRenaming
      <3> QED
        BY <2>1, <3>1, <3>2 DEF MsInv, MsSerial, MsInTurn
    <2>3. MsStage(steps)'
      <3>1. UNCHANGED msFile
        BY <1>1
      <3> QED
        BY <2>2, <3>1 DEF MsStage, MsPutting, MsActivating, MsDeactivating, MsDeleting, MsRenaming, MsLive, MsMarked
    <2>4. msTodo'[c] = steps /\ \A d \in MsConns \ {c} : msTodo'[d] = <<>>
      BY <1>1, <2>1 DEF MsInv, MsDisk
    <2> QED
      BY <2>3, <2>4 DEF MsInTurn
  <1> QED
    BY <1>2, <1>3, <1>4, <1>5 DEF MsInv

\* Whose turn it is depends on the plans and the files only.
LEMMA MsRests ==
  ASSUME UNCHANGED <<msTodo, msFile>>
  PROVE  MsInTurn => MsInTurn'
  <1>1. ASSUME NEW s PROVE MsStage(s)' = MsStage(s)
    BY Zenon DEF MsStage, MsPutting, MsActivating, MsDeactivating, MsDeleting, MsRenaming, MsLive, MsMarked
  <1>2. MsLive' = MsLive
    BY Zenon DEF MsLive, MsMarked
  <1>3. ASSUME NEW c \in MsConns, MsStage(msTodo[c]) PROVE MsStage(msTodo[c])'
    BY <1>1, <1>3 DEF MsStage, MsPutting, MsActivating, MsDeactivating, MsDeleting, MsRenaming, MsLive, MsMarked
  <1> QED
    BY <1>2, <1>3 DEF MsInTurn

\* Without a command of its own in hand a connection changes only its session.
LEMMA MsApart ==
  ASSUME MsInv, MsSession', UNCHANGED <<msTodo, msFile, msUnsafe>>
  PROVE  MsInv'
  <1>1. MsDisk'
    BY DEF MsInv, MsDisk, MsPlan
  <1>2. MsInTurn => MsInTurn'
    BY MsRests
  <1> QED
    BY <1>1, <1>2 DEF MsInv, MsSerial

LEMMA MsAdvance == MsInv /\ [MsNext]_msVars => MsInv'
  <1> SUFFICES ASSUME MsInv, [MsNext]_msVars PROVE MsInv'
    OBVIOUS
  <1>0. MsSession /\ MsDisk /\ MsSerial /\ msUnsafe \in BOOLEAN
    BY DEF MsInv
  <1>1. ASSUME NEW c \in MsConns, StartTls(c) \/ Authenticated(c) \/ Unauthenticate(c) PROVE MsInv'
    <2>1. MsSession'
      <3>1. CASE StartTls(c)
        BY <1>0, <3>1 DEF StartTls, MsSession
      <3>2. CASE Authenticated(c)
        BY <1>0, <3>2, MsAssumption DEF Authenticated, MsSession
      <3>3. CASE Unauthenticate(c)
        BY <1>0, <3>3 DEF Unauthenticate, MsSession
      <3> QED
        BY <1>1, <3>1, <3>2, <3>3
    <2>2. UNCHANGED <<msTodo, msFile, msUnsafe>>
      BY <1>1 DEF StartTls, Authenticated, Unauthenticate
    <2> QED
      BY <2>1, <2>2, MsApart
  <1>2. ASSUME NEW c \in MsConns, AuthenticationFailed(c) PROVE MsInv'
    <2>1. MsSession'
      BY <1>0, <1>2, MsAssumption DEF AuthenticationFailed, Ready, MsSession
    <2>2. UNCHANGED <<msTodo, msFile, msUnsafe>>
      BY <1>2 DEF AuthenticationFailed
    <2> QED
      BY <2>1, <2>2, MsApart
  <1>3. ASSUME NEW c \in MsConns, NEW n \in MsNames, NEW t \in MsTexts, NEW cut \in BOOLEAN,
               PutScript(c, n, t, cut)
        PROVE  MsInv'
    <2> DEFINE u == IF cut THEN MsPrefix[t] ELSE t
    <2>1. u \in MsParsing /\ Begin(c, PutSteps(n, u))
      BY <1>3 DEF PutScript
    <2> HIDE DEF u
    <2>2. MsPlan(PutSteps(n, u)) /\ (MsLive => MsStage(PutSteps(n, u)))
      BY <2>1, MsBegins DEF MsStage, MsPutting
    <2> QED
      BY <2>1, <2>2, MsAccepts
  <1>4. ASSUME NEW c \in MsConns, NEW n \in MsNames, SetActive(c, n) PROVE MsInv'
    <2>1. msFile[n] \in MsParsing \cup {Empty}
      BY <1>0, <1>4 DEF SetActive, MsDisk, MsStored
    <2>2. PICK u \in MsParsing \cup {Empty} : u = msFile[n]
      BY <2>1
    <2>3. Begin(c, ActivateSteps(n, u))
      BY <1>4, <2>2 DEF SetActive
    <2>4. MsPlan(ActivateSteps(n, u)) /\ (MsLive => MsStage(ActivateSteps(n, u)))
      <3>1. MsPlan(ActivateSteps(n, u))
            /\ ActivateSteps(n, u) =
                 <<MsDo("truncate", FilterFile, u), MsDo("fill", FilterFile, u),
                   MsDo("truncate", ActiveFile, n), MsDo("fill", ActiveFile, n)>>
        BY MsActivates
      <3>2. MsActivating(ActivateSteps(n, u))
        BY <2>2, <3>1 DEF MsActivating
      <3> QED
        BY <3>1, <3>2 DEF MsStage
    <2> QED
      BY <2>3, <2>4, MsAccepts
  <1>5. ASSUME NEW c \in MsConns, SetInactive(c) PROVE MsInv'
    <2>1. MsPlan(DeactivateSteps) /\ MsStage(DeactivateSteps)
      <3>1. DeactivateSteps = <<MsDo("drop", FilterFile, Absent), MsDo("drop", ActiveFile, Absent)>>
        BY DEF DeactivateSteps, MsDo
      <3>2. MsPlan(DeactivateSteps)
        BY <3>1 DEF MsPlan, MsSteps, MsDo, MsFiles
      <3> QED
        BY <3>1, <3>2 DEF MsStage, MsDeactivating
    <2> QED
      BY <1>5, <2>1, MsAccepts DEF SetInactive
  <1>6. ASSUME NEW c \in MsConns, NEW n \in MsNames, DeleteScript(c, n) PROVE MsInv'
    <2> DEFINE s == <<MsDo("drop", n, Absent)>>
    <2>1. Begin(c, s) /\ ActiveName # n
      BY <1>6 DEF DeleteScript, MsDo
    <2>2. MsPlan(s)
      BY DEF MsPlan, MsSteps, MsDo, MsFiles
    <2>3. MsLive => msFile[ActiveFile] # n
      BY <2>1, MsAssumption DEF MsLive, MsMarked, ActiveName
    <2>4. MsLive => MsStage(s)
      BY <2>3 DEF MsStage, MsDeleting
    <2> HIDE DEF s
    <2> QED
      BY <2>1, <2>2, <2>4, MsAccepts
  <1>7. ASSUME NEW c \in MsConns, NEW n \in MsNames, NEW m \in MsNames, RenameScript(c, n, m)
        PROVE  MsInv'
    <2>1. RenameSteps(n, m) = <<MsDo("move", n, m), MsDo("follow", n, m)>>
      BY DEF RenameSteps, MsDo
    <2>2. MsPlan(RenameSteps(n, m))
      BY <2>1 DEF MsPlan, MsSteps, MsDo
    <2>3. MsLive => MsStage(RenameSteps(n, m))
      BY <1>7, <2>1 DEF RenameScript, MsStage, MsRenaming
    <2> QED
      BY <1>7, <2>2, <2>3, MsAccepts DEF RenameScript
  <1>8. ASSUME NEW c \in MsConns, Step(c) PROVE MsInv'
    <2>1. MsDisk'
      BY <1>0, <1>8, MsAdvances
    <2>2. MsSession'
      BY <1>0, <1>8 DEF Step, msLogin, MsSession
    <2>3. msUnsafe' \in BOOLEAN
      BY <1>8, Zenon DEF Step
    <2>4. ASSUME msUnsafe' = FALSE PROVE MsInTurn'
      <3>1. msUnsafe = FALSE /\ ~PaddedActivation(Head(msTodo[c]))
        BY <1>0, <1>8, <2>4, Zenon DEF Step
      <3>2. msTodo[c] # <<>> /\ \A d \in MsConns \ {c} : msTodo'[d] = msTodo[d]
        BY <1>0, <1>8 DEF Step, MsDisk
      <3>3. MsStage(msTodo[c]) /\ \A d \in MsConns \ {c} : msTodo[d] = <<>>
        BY <1>0, <3>1, <3>2 DEF MsSerial, MsInTurn
      <3>4. MsStage(msTodo[c])'
        BY <1>0, <1>8, <3>1, <3>3, MsMoves
      <3> QED
        BY <3>2, <3>3, <3>4 DEF MsInTurn
    <2> QED
      BY <2>1, <2>2, <2>3, <2>4 DEF MsInv, MsSerial
  <1>9. ASSUME NEW c \in MsConns, Fail(c) PROVE MsInv'
    <2> DEFINE rest == IF Head(msTodo[c]).file \in {FilterFile, ActiveFile} /\ Head(msTodo[c]).do = "drop"
                       THEN Tail(msTodo[c]) ELSE <<>>
    <2>1. msTodo' = [msTodo EXCEPT ![c] = rest] /\ msTodo[c] # <<>> /\ msFile' = msFile
      BY <1>9 DEF Fail
    <2>2. MsPlan(<<>>)
      BY DEF MsPlan
    <2>3. MsPlan(Tail(msTodo[c]))
      <3> DEFINE todo == msTodo[c]
      <3>1. todo \in Seq(MsSteps) /\ todo # <<>> /\ Len(todo) <= 4
        BY <1>0, <2>1 DEF MsDisk, MsPlan
      <3>2. \A i \in 1 .. Len(todo) : todo[i].do \in {"refresh", "follow"} => i = Len(todo)
        BY <1>0 DEF MsDisk, MsPlan
      <3> HIDE DEF todo
      <3>3. /\ Tail(todo) \in Seq(MsSteps) /\ Len(Tail(todo)) = Len(todo) - 1 /\ Len(todo) \in Nat
            /\ \A i \in 1 .. Len(todo) - 1 : Tail(todo)[i] = todo[i + 1]
        BY <3>1
      <3>4. ASSUME NEW i \in 1 .. Len(Tail(todo)), Tail(todo)[i].do \in {"refresh", "follow"}
            PROVE  i = Len(Tail(todo))
        <4>1. i + 1 \in 1 .. Len(todo) /\ todo[i + 1] = Tail(todo)[i]
          BY <3>3
        <4>2. todo[i + 1].do \in {"refresh", "follow"}
          BY <3>4, <4>1
        <4>3. i + 1 = Len(todo)
          BY <3>2, <4>1, <4>2
        <4>4. i \in Nat /\ Len(Tail(todo)) = Len(todo) - 1 /\ Len(todo) \in Nat
          BY <3>3
        <4> QED
          BY <4>3, <4>4
      <3> DEFINE tail == Tail(todo)
      <3>5. tail \in Seq(MsSteps) /\ Len(tail) <= 4
        BY <3>1, <3>3
      <3>6. \A i \in 1 .. Len(tail) : tail[i].do \in {"refresh", "follow"} => i = Len(tail)
        BY <3>4
      <3> HIDE DEF tail
      <3>7. MsPlan(tail)
        BY <3>5, <3>6 DEF MsPlan
      <3> QED
        BY <3>7 DEF todo, tail
    <2>4. MsPlan(rest)
      BY <2>2, <2>3
    <2> HIDE DEF rest
    <2>5. MsDisk'
      BY <1>0, <2>1, <2>4 DEF MsDisk, MsPlan
    <2>6. MsSession'
      BY <1>0, <1>9 DEF Fail, msLogin, MsSession
    <2> QED
      BY <1>9, <2>5, <2>6 DEF Fail, MsInv, MsSerial
  <1>10. ASSUME NEW c \in MsConns, Leave(c) PROVE MsInv'
    <2>0. MsPlan(<<>>)
      BY DEF MsPlan
    <2>1. msTodo' = [msTodo EXCEPT ![c] = <<>>] /\ msFile' = msFile
      BY <1>10 DEF Leave
    <2>2. MsDisk'
      BY <1>0, <2>0, <2>1 DEF MsDisk, MsPlan
    <2>3. MsSession'
      BY <1>0, <1>10 DEF Leave, msLogin, MsSession
    <2>4. msUnsafe' \in BOOLEAN
      BY <1>10, Zenon DEF Leave
    <2>5. ASSUME msUnsafe' = FALSE PROVE MsInTurn'
      <3>1. msUnsafe = FALSE /\ msTodo[c] = <<>>
        BY <1>0, <1>10, <2>5, Zenon DEF Leave
      <3>2. msTodo' = msTodo
        BY <1>0, <2>1, <3>1 DEF MsDisk
      <3>3. MsInTurn
        BY <1>0, <3>1 DEF MsSerial
      <3> QED
        BY <2>1, <3>2, <3>3, MsRests
    <2> QED
      BY <2>2, <2>3, <2>4, <2>5 DEF MsInv, MsSerial
  <1>11. ASSUME UNCHANGED msVars PROVE MsInv'
    <2>1. UNCHANGED <<msTodo, msFile, msUnsafe>> /\ MsSession'
      BY <1>0, <1>11 DEF msVars, MsSession
    <2> QED
      BY <2>1, MsApart
  <1> QED
    BY <1>1, <1>2, <1>3, <1>4, <1>5, <1>6, <1>7, <1>8, <1>9, <1>10, <1>11
       DEF MsNext, Inquire, BadCommand

\* The filter delivery runs is the script that was activated, in its present text, between
\* commands that neither overlap nor are cut short; whatever overlaps or fails, only scripts that
\* parse are stored and guessing a password ends the connection, for any number of connections,
\* scripts and names (managesieve/session.rs, managesieve/store.rs).
THEOREM ScriptsLive == MsSpec => []ManageSieveCorrect
  <1>1. MsInv => ManageSieveCorrect
    <2> SUFFICES ASSUME MsInv PROVE ManageSieveCorrect
      OBVIOUS
    <2>1. MsTypeOK
      BY MsAssumption DEF MsInv, MsSession, MsDisk, MsStored, MsPlan, MsTypeOK
    <2>2. OnlyValidated
      BY DEF MsInv, MsDisk, MsStored, OnlyValidated
    <2>3. GuessesBounded
      BY MsAssumption DEF MsInv, MsSession, GuessesBounded
    <2>4. LiveIsActive
      <3> SUFFICES ASSUME ~msUnsafe, \A c \in MsConns : msTodo[c] = <<>>
                   PROVE  IF ActiveName = Absent
                          THEN msFile[FilterFile] = Absent
                          ELSE \E script \in Listing :
                                 script.active /\ msFile[FilterFile] = msFile[script.name]
        BY DEF LiveIsActive
      <3>1. msUnsafe = FALSE
        BY Zenon DEF MsInv
      <3>2. MsLive
        <4>1. ASSUME NEW c \in MsConns, MsStage(msTodo[c]) PROVE MsLive
          BY <4>1, MsTuples
             DEF MsStage, MsPutting, MsActivating, MsDeactivating, MsDeleting, MsRenaming
        <4> QED
          BY <3>1, <4>1 DEF MsInv, MsSerial, MsInTurn
      <3>3. CASE msFile[ActiveFile] \in {Absent, Empty} /\ msFile[FilterFile] = Absent
        BY <3>3 DEF ActiveName
      <3>4. ASSUME NEW n \in MsNames, MsMarked(n), msFile[n] # Absent, msFile[FilterFile] = msFile[n]
            PROVE  ActiveName # Absent /\ \E script \in Listing :
                     script.active /\ msFile[FilterFile] = msFile[script.name]
        <4>1. ActiveName = n /\ n # Absent
          BY <3>4, MsAssumption DEF MsMarked, ActiveName
        <4>2. [name |-> n, active |-> ActiveName = n] \in Listing
          BY <3>4 DEF Listing
        <4> DEFINE row == [name |-> n, active |-> ActiveName = n]
        <4>3. row.active /\ row.name = n
          BY <4>1
        <4> HIDE DEF row
        <4> QED
          BY <3>4, <4>1, <4>2, <4>3 DEF row
      <3> QED
        BY <3>2, <3>3, <3>4 DEF MsLive
    <2> QED
      BY <2>1, <2>2, <2>3, <2>4 DEF ManageSieveCorrect
  <1> QED
    BY <1>1, MsStarts, MsAdvance, PTL DEF MsSpec

----------------------------------------------------------------------------
(* POP3.                                                                   *)

PopStates == {"Authorization", "Listed", "Transaction", "Removing", "Closed"}

PopTypes ==
    /\ popFiles \subseteq popArrived /\ popArrived \subseteq PopUids
    /\ popState \in [PopConns -> PopStates] /\ popUser \in [PopConns -> BOOLEAN]
    /\ DOMAIN popMsgs = PopConns
    /\ popLeft \in [PopConns -> SUBSET PopUids] /\ popWish \in [PopConns -> SUBSET popArrived]
    /\ popStreak \in [PopConns -> 0 .. PopErrorStreak]
    /\ popAnswer \in [PopConns -> {"OK", "ERR", "BYE"}]

\* One connection: a session that may still answer has room for one more error; the marks of a
\* session are the wishes of its client, from the login on; while QUIT removes files, what the
\* client wished away is on its list, was listed and failed, or is gone.
PopSession(c) ==
    /\ popMsgs[c] \in Seq([uid : popArrived, deleted : BOOLEAN])
    /\ popState[c] \notin {"Removing", "Closed"} => popStreak[c] < PopErrorStreak
    /\ popState[c] \in {"Authorization", "Listed"} => popWish[c] = {} 
    /\ popState[c] = "Authorization" => popMsgs[c] = <<>>
    /\ popState[c] = "Transaction" => Marked(c) = popWish[c]
    /\ popState[c] = "Removing" =>
          /\ popLeft[c] \subseteq popMarked
          /\ popWish[c] \cap popFiles \subseteq popLeft[c] \cup popFailed
    /\ popAnswer[c] = "BYE" =>
          popState[c] = "Closed" /\ popWish[c] \cap popFiles \subseteq popFailed

PopInv ==
    /\ PopTypes
    /\ \A c \in PopConns : PopSession(c)
    /\ RemovedWereDeleted

\* A listing is a sequence of messages of its stems, none of them marked.
LEMMA PopListing ==
  ASSUME NEW S \in SUBSET PopUids, NEW T, S \subseteq T, NEW m \in Listings(S)
  PROVE  m \in Seq([uid : T, deleted : BOOLEAN]) /\ \A i \in DOMAIN m : m[i].deleted = FALSE
  <1>1. Cardinality(S) \in Nat
    BY PopAssumption, FS_Subset, FS_CardinalityType
  <1>2. m \in [1 .. Cardinality(S) -> [uid : S, deleted : {FALSE}]]
    BY DEF Listings
  <1>3. m \in [1 .. Cardinality(S) -> [uid : T, deleted : BOOLEAN]]
    BY <1>2
  <1> DEFINE M == [uid : T, deleted : BOOLEAN]
             n == Cardinality(S)
  <1> HIDE DEF M, n
  <1>3a. n \in Nat /\ m \in [1 .. n -> M]
    BY <1>1, <1>3 DEF M, n
  <1>4. m \in Seq(M)
    BY <1>3a, SeqDef
  <1> QED
    BY <1>2, <1>4 DEF M

\* Marking a message of a session.
LEMMA PopMarks ==
  ASSUME NEW A, NEW m \in Seq([uid : A, deleted : BOOLEAN]), NEW n \in DOMAIN m
  PROVE  /\ m[n].uid \in A
         /\ [m EXCEPT ![n].deleted = TRUE] \in Seq([uid : A, deleted : BOOLEAN])
         /\ DOMAIN [m EXCEPT ![n].deleted = TRUE] = DOMAIN m
         /\ [m EXCEPT ![n].deleted = TRUE][n].deleted = TRUE
         /\ \A i \in DOMAIN m : /\ [m EXCEPT ![n].deleted = TRUE][i].uid = m[i].uid
                                /\ i # n => [m EXCEPT ![n].deleted = TRUE][i] = m[i]
  <1> DEFINE M == [uid : A, deleted : BOOLEAN]
             x == [m[n] EXCEPT !.deleted = TRUE]
             w == [m EXCEPT ![n] = x]
  <1>0. m \in Seq(M)
    OBVIOUS
  <1> HIDE DEF M
  <1>1. Len(m) \in Nat /\ m \in [1 .. Len(m) -> M] /\ DOMAIN m = 1 .. Len(m)
    BY <1>0, LenProperties
  <1>2. m[n] \in M
    BY <1>1
  <1>3. x \in M /\ x.deleted = TRUE /\ x.uid = m[n].uid /\ m[n].uid \in A
    BY <1>2 DEF M
  <1> HIDE DEF x
  <1>4. w \in [1 .. Len(m) -> M] /\ DOMAIN w = DOMAIN m /\ w[n] = x
        /\ \A i \in DOMAIN m : i # n => w[i] = m[i]
    BY <1>1, <1>3
  <1> HIDE DEF w
  <1>5. w \in Seq(M)
    BY <1>1, <1>4, SeqDef
  <1>6. [m EXCEPT ![n].deleted = TRUE] = w
    BY DEF w, x
  <1>7. \A i \in DOMAIN m : w[i].uid = m[i].uid
    BY <1>3, <1>4
  <1> QED
    BY <1>3, <1>4, <1>5, <1>6, <1>7 DEF M

\* A connection another one's step leaves alone, with at most more arrivals and fewer files.
LEMMA PopOthers ==
  ASSUME PopInv, NEW d \in PopConns,
         popArrived \subseteq popArrived', popMarked \subseteq popMarked', popFailed \subseteq popFailed',
         popFiles' \cap popArrived \subseteq popFiles,
         popMsgs'[d] = popMsgs[d], popState'[d] = popState[d], popStreak'[d] = popStreak[d],
         popWish'[d] = popWish[d], popLeft'[d] = popLeft[d], popAnswer'[d] = popAnswer[d]
  PROVE  PopSession(d)'
  <1>1. PopSession(d) /\ popWish[d] \subseteq popArrived
    BY DEF PopInv, PopTypes
  <1>2. popMsgs'[d] \in Seq([uid : popArrived', deleted : BOOLEAN])
    <2> DEFINE A == [uid : popArrived, deleted : BOOLEAN]
               B == [uid : popArrived', deleted : BOOLEAN]
    <2>1. popMsgs[d] \in Seq(A) /\ A \subseteq B
      BY <1>1 DEF PopSession
    <2> HIDE DEF A, B
    <2>2. popMsgs[d] \in Seq(B)
      BY <2>1
    <2> QED
      BY <2>2 DEF B
  <1>3. Marked(d)' = Marked(d)
    BY DEF Marked
  <1> QED
    BY <1>1, <1>2, <1>3 DEF PopSession

LEMMA PopStarts == PopInit => PopInv
  <1> SUFFICES ASSUME PopInit PROVE PopInv
    OBVIOUS
  <1>1. PopTypes
    BY PopAssumption DEF PopInit, PopTypes, PopStates
  <1>2. ASSUME NEW c \in PopConns PROVE PopSession(c)
    BY PopAssumption DEF PopInit, PopSession
  <1> QED
    BY <1>1, <1>2 DEF PopInit, PopInv, RemovedWereDeleted

\* An answer keeps the count of errors within its bound.
LEMMA PopReplies ==
  ASSUME PopInv, NEW c \in PopConns, NEW a \in {"OK", "ERR"}, Reply(c, a),
         popState[c] \notin {"Removing", "Closed"}
  PROVE  /\ popStreak' \in [PopConns -> 0 .. PopErrorStreak]
         /\ popAnswer' \in [PopConns -> {"OK", "ERR", "BYE"}] /\ popAnswer'[c] = a
         /\ a = "OK" => popStreak'[c] = 0
         /\ \A d \in PopConns \ {c} : popStreak'[d] = popStreak[d] /\ popAnswer'[d] = popAnswer[d]
  BY PopAssumption DEF PopInv, PopTypes, PopSession, Reply

\* A connection that is answered goes on as it was, or is closed.
LEMMA PopContinues ==
  ASSUME PopInv, NEW c \in PopConns, popState[c] \in {"Authorization", "Transaction"},
         popState'[c] \in {popState[c], "Closed"}, popAnswer'[c] # "BYE",
         popState'[c] # "Closed" => popStreak'[c] < PopErrorStreak,
         UNCHANGED <<popMsgs, popLeft, popWish, popFiles, popArrived, popMarked, popFailed>>
  PROVE  PopSession(c)'
  <1>1. PopSession(c)
    BY DEF PopInv
  <1>2. (popMsgs[c] \in Seq([uid : popArrived, deleted : BOOLEAN]))'
    BY <1>1 DEF PopSession
  <1>3. Marked(c)' = Marked(c)
    BY DEF Marked
  <1> QED
    BY <1>1, <1>2, <1>3 DEF PopSession

LEMMA PopSteps == PopInv /\ [PopNext]_popVars => PopInv'
  <1> SUFFICES ASSUME PopInv, [PopNext]_popVars PROVE PopInv'
    OBVIOUS
  <1>0. /\ PopTypes /\ RemovedWereDeleted
        /\ \A c \in PopConns : PopSession(c)
        /\ PopErrorStreak \in Nat \ {0}
    BY PopAssumption DEF PopInv
  <1>1. ASSUME NEW c \in PopConns, Refused(c) \/ (\E pass \in BOOLEAN : AuthFailed(c, pass))
        PROVE  PopInv'
    <2>1. /\ popState[c] \in {"Authorization", "Transaction"} /\ Reply(c, "ERR")
          /\ AfterReply(c, popState[c])
          /\ UNCHANGED <<popMsgs, popLeft, popWish, popFiles, popArrived, popMarked, popElsewhere, popFailed>>
      BY <1>1 DEF Refused, AuthFailed, popDisk
    <2>2. popUser' \in [PopConns -> BOOLEAN]
      BY <1>0, <1>1 DEF Refused, AuthFailed, PopTypes
    <2>3. /\ popState' \in [PopConns -> PopStates]
          /\ popState'[c] = IF popStreak'[c] >= PopErrorStreak THEN "Closed" ELSE popState[c]
          /\ \A d \in PopConns \ {c} : popState'[d] = popState[d]
      BY <1>0, <2>1 DEF AfterReply, PopTypes, PopStates
    <2>4. PopTypes'
      BY <1>0, <2>1, <2>2, <2>3, PopReplies DEF PopTypes
    <2>5. PopSession(c)'
      <3>1. popStreak'[c] \in Nat /\ popAnswer'[c] = "ERR"
        BY <2>1, PopReplies
      <3>2. Marked(c)' = Marked(c)
        BY <2>1 DEF Marked
      <3>3. popState'[c] # "Closed" => popState'[c] = popState[c] /\ popStreak'[c] < PopErrorStreak
        BY <1>0, <2>3, <3>1
      <3>4. popState'[c] \in {popState[c], "Closed"}
        BY <2>3
      <3> QED
        BY <1>0, <2>1, <3>1, <3>2, <3>3, <3>4, PopContinues
    <2>6. ASSUME NEW d \in PopConns \ {c} PROVE PopSession(d)'
      BY <2>1, <2>3, PopOthers, PopReplies
    <2> QED
      BY <1>0, <2>1, <2>4, <2>5, <2>6 DEF PopInv, RemovedWereDeleted
  <1>2. ASSUME NEW c \in PopConns, Query(c) \/ User(c) PROVE PopInv'
    <2>1. /\ popState[c] \in {"Authorization", "Transaction"} /\ Reply(c, "OK")
          /\ UNCHANGED <<popState, popMsgs, popLeft, popWish, popFiles, popArrived, popMarked, popElsewhere,
                         popFailed>>
      BY <1>2 DEF Query, User, popDisk
    <2>2. popUser' \in [PopConns -> BOOLEAN]
      BY <1>0, <1>2 DEF Query, User, PopTypes
    <2>3. PopTypes'
      BY <1>0, <2>1, <2>2, PopReplies DEF PopTypes
    <2>4. PopSession(c)'
      <3>1. popStreak'[c] = 0 /\ popAnswer'[c] = "OK"
        BY <2>1, PopReplies
      <3>2. Marked(c)' = Marked(c)
        BY <2>1 DEF Marked
      <3> QED
        BY <1>0, <2>1, <3>1, <3>2, PopContinues
    <2>5. ASSUME NEW d \in PopConns \ {c} PROVE PopSession(d)'
      BY <2>1, PopOthers, PopReplies
    <2> QED
      BY <1>0, <2>1, <2>3, <2>4, <2>5 DEF PopInv, RemovedWereDeleted
  <1>3. ASSUME NEW c \in PopConns, NEW pass \in BOOLEAN, Login(c, pass) PROVE PopInv'
    <2>1. PICK m \in Listings(popFiles) : popMsgs' = [popMsgs EXCEPT ![c] = m]
      BY <1>3 DEF Login
    <2>2. m \in Seq([uid : popArrived, deleted : BOOLEAN])
      BY <1>0, PopListing DEF PopTypes
    <2>3. /\ popState[c] = "Authorization" /\ popState' = [popState EXCEPT ![c] = "Listed"]
          /\ UNCHANGED <<popUser, popLeft, popStreak, popAnswer, popWish, popFiles, popArrived, popMarked,
                         popElsewhere, popFailed>>
      BY <1>3 DEF Login, popDisk
    <2>4. PopTypes'
      BY <1>0, <2>1, <2>3 DEF PopTypes, PopStates
    <2>5. PopSession(c)'
      <3>1. popMsgs'[c] = m /\ popState'[c] = "Listed"
        BY <1>0, <2>1, <2>3 DEF PopTypes
      <3> QED
        BY <1>0, <2>2, <2>3, <3>1 DEF PopSession
    <2>6. ASSUME NEW d \in PopConns \ {c} PROVE PopSession(d)'
      <3>1. popMsgs'[d] = popMsgs[d] /\ popState'[d] = popState[d]
        BY <1>0, <2>1, <2>3 DEF PopTypes
      <3> QED
        BY <2>3, <3>1, PopOthers
    <2> QED
      BY <1>0, <2>3, <2>4, <2>5, <2>6 DEF PopInv, RemovedWereDeleted
  <1>4. ASSUME NEW c \in PopConns, Load(c) PROVE PopInv'
    <2> DEFINE S == (Listed(c) \cap popFiles) \ PopUndecodable
    <2>1. PICK m \in Listings(S) : popMsgs' = [popMsgs EXCEPT ![c] = m]
      BY <1>4 DEF Load
    <2>2. m \in Seq([uid : popArrived, deleted : BOOLEAN]) /\ \A i \in DOMAIN m : m[i].deleted = FALSE
      <3>1. S \subseteq popArrived /\ S \subseteq PopUids
        BY <1>0 DEF PopTypes
      <3> HIDE DEF S
      <3> QED
        BY <3>1, PopListing
    <2>3. /\ popState[c] = "Listed" /\ popState' = [popState EXCEPT ![c] = "Transaction"]
          /\ Reply(c, "OK")
          /\ UNCHANGED <<popUser, popLeft, popWish, popFiles, popArrived, popMarked, popElsewhere, popFailed>>
      BY <1>4 DEF Load, popDisk
    <2>4. PopTypes'
      BY <1>0, <2>1, <2>3, PopReplies DEF PopTypes, PopStates
    <2>5. PopSession(c)'
      <3>1. popMsgs'[c] = m /\ popState'[c] = "Transaction"
        BY <1>0, <2>1, <2>3 DEF PopTypes
      <3>2. popStreak'[c] = 0 /\ popAnswer'[c] = "OK"
        BY <2>3, PopReplies
      <3>3. Marked(c)' = {}
        BY <2>2, <3>1 DEF Marked
      <3> QED
        BY <1>0, <2>2, <2>3, <3>1, <3>2, <3>3 DEF PopSession
    <2>6. ASSUME NEW d \in PopConns \ {c} PROVE PopSession(d)'
      <3>1. popMsgs'[d] = popMsgs[d] /\ popState'[d] = popState[d]
        BY <1>0, <2>1, <2>3 DEF PopTypes
      <3> QED
        BY <2>3, <3>1, PopOthers, PopReplies
    <2> QED
      BY <1>0, <2>3, <2>4, <2>5, <2>6 DEF PopInv, RemovedWereDeleted
  <1>5. ASSUME NEW c \in PopConns, NEW n \in 1 .. Cardinality(PopUids), Dele(c, n) PROVE PopInv'
    <2> DEFINE m == popMsgs[c]
    <2>1. /\ popState[c] = "Transaction" /\ n \in DOMAIN m
          /\ popMsgs' = [popMsgs EXCEPT ![c][n].deleted = TRUE]
          /\ popWish' = [popWish EXCEPT ![c] = @ \cup {m[n].uid}] /\ Reply(c, "OK")
          /\ UNCHANGED <<popState, popUser, popLeft, popFiles, popArrived, popMarked, popElsewhere, popFailed>>
      BY <1>5 DEF Dele, LiveMessage, popDisk
    <2>2. m \in Seq([uid : popArrived, deleted : BOOLEAN]) /\ Marked(c) = popWish[c]
      BY <1>0, <2>1 DEF PopSession
    <2>3. m[n].uid \in popArrived
      BY <2>1, <2>2, PopMarks
    <2>4. popMsgs'[c] = [m EXCEPT ![n].deleted = TRUE]
      BY <1>0, <2>1 DEF PopTypes
    <2> DEFINE w == popMsgs'[c]
    <2>4a. /\ w \in Seq([uid : popArrived, deleted : BOOLEAN])
           /\ DOMAIN w = DOMAIN m /\ w[n].deleted = TRUE
           /\ \A i \in DOMAIN m : w[i].uid = m[i].uid /\ (i # n => w[i] = m[i])
      <3>1. m \in Seq([uid : popArrived, deleted : BOOLEAN]) /\ n \in DOMAIN m
            /\ w = [m EXCEPT ![n].deleted = TRUE]
        BY <2>1, <2>2, <2>4
      <3> HIDE DEF m, w
      <3> QED
        BY <3>1, PopMarks
    <2>5. PopTypes'
      <3>1. popWish' \in [PopConns -> SUBSET popArrived]
        BY <1>0, <2>1, <2>3 DEF PopTypes
      <3> QED
        BY <1>0, <2>1, <3>1, PopReplies DEF PopTypes
    <2>6. PopSession(c)'
      <3>1. popStreak'[c] = 0 /\ popAnswer'[c] = "OK"
        BY <2>1, PopReplies
      <3>2. popMsgs'[c] \in Seq([uid : popArrived', deleted : BOOLEAN])
        BY <2>1, <2>4a
      <3>3. Marked(c)' = Marked(c) \cup {m[n].uid}
        <4>1. Marked(c)' = {w[i].uid : i \in {j \in DOMAIN w : w[j].deleted}}
              /\ Marked(c) = {m[i].uid : i \in {j \in DOMAIN m : m[j].deleted}}
          BY DEF Marked
        <4> HIDE DEF w, m
        <4> QED
          BY <2>1, <2>4a, <4>1
      <3>4. popWish'[c] = popWish[c] \cup {m[n].uid} /\ popState'[c] = "Transaction"
        BY <1>0, <2>1 DEF PopTypes
      <3>5. (popState[c] \notin {"Removing", "Closed"} => popStreak[c] < PopErrorStreak)'
        BY <1>0, <3>1
      <3> QED
        BY <2>2, <3>1, <3>2, <3>3, <3>4, <3>5 DEF PopSession
    <2>7. ASSUME NEW d \in PopConns \ {c} PROVE PopSession(d)'
      <3>1. popMsgs'[d] = popMsgs[d] /\ popWish'[d] = popWish[d]
        BY <1>0, <2>1 DEF PopTypes
      <3> QED
        BY <2>1, <3>1, PopOthers, PopReplies
    <2> QED
      BY <1>0, <2>1, <2>5, <2>6, <2>7 DEF PopInv, RemovedWereDeleted
  <1>6. ASSUME NEW c \in PopConns, Rset(c) PROVE PopInv'
    <2> DEFINE m == popMsgs[c]
    <2>1. /\ popState[c] = "Transaction"
          /\ popMsgs' = [popMsgs EXCEPT ![c] = Undeleted(m)]
          /\ popWish' = [popWish EXCEPT ![c] = {}] /\ Reply(c, "OK")
          /\ UNCHANGED <<popState, popUser, popLeft, popFiles, popArrived, popMarked, popElsewhere, popFailed>>
      BY <1>6 DEF Rset, popDisk
    <2>2. m \in Seq([uid : popArrived, deleted : BOOLEAN])
      BY <1>0 DEF PopSession
    <2>3. popMsgs'[c] = Undeleted(m)
      BY <1>0, <2>1 DEF PopTypes
    <2>4. Undeleted(m) \in Seq([uid : popArrived, deleted : BOOLEAN])
          /\ \A i \in DOMAIN Undeleted(m) : Undeleted(m)[i].deleted = FALSE
      <3> DEFINE M == [uid : popArrived, deleted : BOOLEAN]
                 u == Undeleted(m)
      <3>1. Len(m) \in Nat /\ DOMAIN m = 1 .. Len(m) /\ \A i \in DOMAIN m : m[i] \in M
        <4>1. m \in Seq(M)
          BY <2>2
        <4> HIDE DEF M, m
        <4> QED
          BY <4>1, LenProperties
      <3>2. DOMAIN u = 1 .. Len(m) /\ u = [i \in DOMAIN m |-> [m[i] EXCEPT !.deleted = FALSE]]
        BY <3>1 DEF Undeleted
      <3>3. \A i \in DOMAIN m : [m[i] EXCEPT !.deleted = FALSE] \in M
                               /\ [m[i] EXCEPT !.deleted = FALSE].deleted = FALSE
        BY <3>1
      <3>4. u \in [1 .. Len(m) -> M] /\ \A i \in DOMAIN u : u[i].deleted = FALSE
        BY <3>1, <3>2, <3>3
      <3> HIDE DEF M, u
      <3>5. u \in Seq(M)
        BY <3>1, <3>4, SeqDef
      <3> QED
        BY <3>4, <3>5 DEF M, u
    <2>5. PopTypes'
      BY <1>0, <2>1, PopReplies DEF PopTypes
    <2>6. PopSession(c)'
      <3>1. popStreak'[c] = 0 /\ popAnswer'[c] = "OK"
        BY <2>1, PopReplies
      <3>2. (popMsgs[c] \in Seq([uid : popArrived, deleted : BOOLEAN]))'
        BY <2>1, <2>3, <2>4
      <3>3. Marked(c)' = {}
        BY <2>3, <2>4 DEF Marked
      <3>4. popWish'[c] = {} /\ popState'[c] = "Transaction"
        BY <1>0, <2>1 DEF PopTypes
      <3>5. (popState[c] \notin {"Removing", "Closed"} => popStreak[c] < PopErrorStreak)'
        BY <1>0, <3>1
      <3> QED
        BY <3>1, <3>2, <3>3, <3>4, <3>5 DEF PopSession
    <2>7. ASSUME NEW d \in PopConns \ {c} PROVE PopSession(d)'
      <3>1. popMsgs'[d] = popMsgs[d] /\ popWish'[d] = popWish[d]
        BY <1>0, <2>1 DEF PopTypes
      <3> QED
        BY <2>1, <3>1, PopOthers, PopReplies
    <2> QED
      BY <1>0, <2>1, <2>5, <2>6, <2>7 DEF PopInv, RemovedWereDeleted
  <1>7. ASSUME NEW c \in PopConns, Quit(c) PROVE PopInv'
    <2> DEFINE next == IF popState[c] = "Transaction" THEN "Removing" ELSE "Closed"
    <2>1. /\ popState[c] \in {"Authorization", "Transaction"}
          /\ popState' = [popState EXCEPT ![c] = next]
          /\ popLeft' = [popLeft EXCEPT ![c] = Marked(c)] /\ popMarked' = popMarked \cup popWish[c]
          /\ UNCHANGED <<popUser, popMsgs, popStreak, popAnswer, popWish, popFiles, popArrived, popElsewhere,
                         popFailed>>
      BY <1>7 DEF Quit
    <2>2. popState[c] = "Transaction" => Marked(c) = popWish[c]
      BY <1>0 DEF PopSession
    <2>3. popState[c] = "Authorization" => Marked(c) = {}
      <3>1. popState[c] = "Authorization" => popMsgs[c] = <<>>
        BY <1>0 DEF PopSession
      <3> QED
        BY <3>1 DEF Marked
    <2>4. Marked(c) \subseteq popWish[c] /\ popWish[c] \subseteq popArrived
      BY <1>0, <2>1, <2>2, <2>3 DEF PopTypes
    <2>5. PopTypes'
      BY <1>0, <2>1, <2>4 DEF PopTypes, PopStates
    <2>6. PopSession(c)'
      <3>1. popState'[c] = next /\ popLeft'[c] = Marked(c)
        BY <1>0, <2>1 DEF PopTypes
      <3>2. popAnswer[c] # "BYE"
        BY <1>0, <2>1 DEF PopSession
      <3>3. (popMsgs[c] \in Seq([uid : popArrived, deleted : BOOLEAN]))'
        BY <1>0, <2>1 DEF PopSession
      <3> QED
        BY <2>1, <2>2, <2>4, <3>1, <3>2, <3>3 DEF PopSession
    <2>7. ASSUME NEW d \in PopConns \ {c} PROVE PopSession(d)'
      <3>1. popLeft'[d] = popLeft[d] /\ popState'[d] = popState[d]
        BY <1>0, <2>1 DEF PopTypes
      <3> QED
        BY <2>1, <3>1, PopOthers
    <2> QED
      BY <1>0, <2>1, <2>5, <2>6, <2>7 DEF PopInv, RemovedWereDeleted
  <1>8. ASSUME NEW c \in PopConns, NEW u \in PopUids, NEW ok \in BOOLEAN, RemoveFile(c, u, ok)
        PROVE  PopInv'
    <2>1. /\ popState[c] = "Removing" /\ u \in popLeft[c]
          /\ popLeft' = [popLeft EXCEPT ![c] = @ \ {u}]
          /\ UNCHANGED <<popArrived, popState, popUser, popMsgs, popStreak, popAnswer, popWish, popMarked,
                         popElsewhere>>
      BY <1>8 DEF RemoveFile
    <2>2. \/ popFiles' = popFiles \ {u} /\ popFailed' = popFailed
          \/ popFiles' = popFiles /\ popFailed' = popFailed \cup {u}
      BY <1>8 DEF RemoveFile
    <2>3. PopTypes'
      BY <1>0, <2>1, <2>2 DEF PopTypes
    <2>4. PopSession(c)'
      <3>1. popLeft'[c] = popLeft[c] \ {u}
        BY <1>0, <2>1 DEF PopTypes
      <3>2. popAnswer[c] # "BYE"
        BY <1>0, <2>1 DEF PopSession
      <3>3. (popMsgs[c] \in Seq([uid : popArrived, deleted : BOOLEAN]))'
        BY <1>0, <2>1 DEF PopSession
      <3>4. popLeft[c] \subseteq popMarked /\ popWish[c] \cap popFiles \subseteq popLeft[c] \cup popFailed
        BY <1>0, <2>1 DEF PopSession
      <3> QED
        BY <2>1, <2>2, <3>1, <3>2, <3>3, <3>4 DEF PopSession
    <2>5. ASSUME NEW d \in PopConns \ {c} PROVE PopSession(d)'
      <3>1. popLeft'[d] = popLeft[d]
        BY <1>0, <2>1 DEF PopTypes
      <3>2. popFiles' \cap popArrived \subseteq popFiles /\ popFailed \subseteq popFailed'
        BY <2>2
      <3> QED
        BY <2>1, <3>1, <3>2, PopOthers
    <2>6. RemovedWereDeleted'
      <3>1. u \in popMarked
        BY <1>0, <2>1 DEF PopSession
      <3> QED
        BY <1>0, <2>1, <2>2, <3>1 DEF RemovedWereDeleted
    <2> QED
      BY <2>3, <2>4, <2>5, <2>6 DEF PopInv
  <1>9. ASSUME NEW c \in PopConns, Bye(c) \/ Lost(c) PROVE PopInv'
    <2>1. /\ popState' = [popState EXCEPT ![c] = "Closed"] /\ popState[c] # "Closed"
          /\ UNCHANGED <<popUser, popMsgs, popLeft, popStreak, popWish, popFiles, popArrived, popMarked,
                         popElsewhere, popFailed>>
      BY <1>9 DEF Bye, Lost, popDisk
    <2>2. \/ popAnswer' = popAnswer
          \/ /\ popAnswer' = [popAnswer EXCEPT ![c] = "BYE"]
             /\ popState[c] = "Removing" /\ popLeft[c] = {}
      BY <1>9 DEF Bye, Lost
    <2>3. PopTypes'
      BY <1>0, <2>1, <2>2 DEF PopTypes, PopStates
    <2>4. PopSession(c)'
      <3>1. popState'[c] = "Closed"
        BY <1>0, <2>1 DEF PopTypes
      <3>2. popAnswer[c] # "BYE"
        BY <1>0, <2>1 DEF PopSession
      <3>3. (popMsgs[c] \in Seq([uid : popArrived, deleted : BOOLEAN]))'
        BY <1>0, <2>1 DEF PopSession
      <3>4. popAnswer'[c] = "BYE" => popWish[c] \cap popFiles \subseteq popFailed
        BY <1>0, <2>2, <3>2 DEF PopSession
      <3> QED
        BY <2>1, <3>1, <3>3, <3>4 DEF PopSession
    <2>5. ASSUME NEW d \in PopConns \ {c} PROVE PopSession(d)'
      <3>1. popState'[d] = popState[d] /\ popAnswer'[d] = popAnswer[d]
        BY <1>0, <2>1, <2>2 DEF PopTypes
      <3> QED
        BY <2>1, <3>1, PopOthers
    <2> QED
      BY <1>0, <2>1, <2>3, <2>4, <2>5 DEF PopInv, RemovedWereDeleted
  <1>10. ASSUME NEW u \in PopUids, PopDeliver(u) \/ PopExpunge(u) PROVE PopInv'
    <2>1. UNCHANGED <<popState, popUser, popMsgs, popLeft, popStreak, popAnswer, popWish, popMarked, popFailed>>
      BY <1>10 DEF PopDeliver, PopExpunge
    <2>2. /\ popArrived \subseteq popArrived' /\ popFiles' \cap popArrived \subseteq popFiles
          /\ popFiles' \subseteq popArrived' /\ popArrived' \subseteq PopUids
      BY <1>0, <1>10 DEF PopDeliver, PopExpunge, PopTypes
    <2>3. PopTypes'
      BY <1>0, <2>1, <2>2 DEF PopTypes
    <2>4. ASSUME NEW d \in PopConns PROVE PopSession(d)'
      BY <2>1, <2>2, PopOthers
    <2>5. RemovedWereDeleted'
      BY <1>0, <1>10 DEF PopDeliver, PopExpunge, RemovedWereDeleted
    <2> QED
      BY <2>3, <2>4, <2>5 DEF PopInv
  <1>11. ASSUME UNCHANGED popVars PROVE PopInv'
    <2>1. UNCHANGED <<popFiles, popArrived, popState, popUser, popMsgs, popLeft, popStreak, popAnswer,
                      popWish, popMarked, popElsewhere, popFailed>>
      BY <1>11 DEF popVars
    <2>2. ASSUME NEW d \in PopConns PROVE PopSession(d)'
      BY <2>1, PopOthers
    <2> QED
      BY <1>0, <2>1, <2>2 DEF PopInv, PopTypes, RemovedWereDeleted
  <1> QED
    BY <1>1, <1>2, <1>3, <1>4, <1>5, <1>6, <1>7, <1>8, <1>9, <1>10, <1>11 DEF PopNext

\* A message leaves the maildrop only through a QUIT of the client that deleted it or through an
\* IMAP session, and a QUIT that was answered has removed all its client deleted or failed to, for
\* any number of connections and messages (pop3/session.rs, pop3/backend.rs).
THEOREM Maildrop == PopSpec => []Pop3Correct
  <1>1. PopInv => Pop3Correct
    <2> SUFFICES ASSUME PopInv PROVE Pop3Correct
      OBVIOUS
    <2>1. ASSUME NEW c \in PopConns PROVE popMsgs[c] \in Seq([uid : PopUids, deleted : BOOLEAN])
      <3> DEFINE A == [uid : popArrived, deleted : BOOLEAN]
                 B == [uid : PopUids, deleted : BOOLEAN]
      <3>1. popMsgs[c] \in Seq(A) /\ A \subseteq B
        BY DEF PopInv, PopSession, PopTypes
      <3> HIDE DEF A, B
      <3>2. popMsgs[c] \in Seq(B)
        BY <3>1
      <3> QED
        BY <3>2 DEF B
    <2>2. PopTypeOK
      BY <2>1 DEF PopInv, PopTypes, PopStates, PopTypeOK
    <2>3. QuitCommits
      BY DEF PopInv, PopSession, QuitCommits
    <2> QED
      BY <2>2, <2>3 DEF PopInv, Pop3Correct
  <1> QED
    BY <1>1, PopStarts, PopSteps, PTL DEF PopSpec
==============================================================================

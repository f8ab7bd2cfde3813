---------------------------- MODULE DkimRotation ----------------------------
(***************************************************************************)
(* The DKIM key rotation of src/src/dkim/rotate.rs and the live signer it  *)
(* swaps.  Rotator::tick is one pass over the state file, the key files,   *)
(* the zone and the signer; each of its effects is one step here, because  *)
(* the process may stop, or the effect fail, between any two of them.      *)
(*                                                                         *)
(* A selector is the day it was made on (selector_for: "ed" and the day);  *)
(* 0 is the selector of the configuration file, which the operator has     *)
(* published, and -1 is no selector.  Time is a number of days; the ticker *)
(* fires hourly, so any number of ticks fall on one day.                   *)
(***************************************************************************)
EXTENDS Integers, FiniteSets

CONSTANTS
  DkInterval,  \* ROTATE_INTERVAL_DAYS, in the model's days
  DkOverlap,   \* ROTATE_OVERLAP_DAYS
  DkHorizon,   \* bound: the last day
  DkPlan       \* what decide_dkim_rotation saw: [dkim, dns, rsa, legacy]

ASSUME DkAssumption ==
  /\ DkInterval \in Nat /\ DkOverlap \in Nat \ {0} /\ DkHorizon \in Nat \ {0}
  /\ DkPlan \in [dkim : BOOLEAN, dns : BOOLEAN, rsa : BOOLEAN, legacy : BOOLEAN]

VARIABLES
  dkDay,    \* the clock
  dkState,  \* dkim-rotation.json
  dkLive,   \* ReloadableSigner: the selector signed with, and whether an RSA key signs too
  dkTxt,    \* the selectors whose TXT record is served
  dkFiles,  \* the selectors whose key file is on disk
  dkPc,     \* where the tick stands
  dkNew,    \* the state the tick will save
  dkOld,    \* the selector the tick retires
  dkSigned  \* what mail in transit was signed with: a set of <<selector, day>>

dkVars == <<dkDay, dkState, dkLive, dkTxt, dkFiles, dkPc, dkNew, dkOld, dkSigned>>

Configured == 0
NoSelector == -1
NoPrevious == [selector |-> NoSelector, retire_at |-> 0]
RotationState == [selector |-> NoSelector, rotated_at |-> 0, previous |-> NoPrevious]

(* Signer::load of [dkim], with the RSA key when one is configured.        *)
StartSigner == [selector |-> Configured, rsa |-> DkPlan.rsa]

(* The task runs only with [dkim] and [dns]; the legacy fields are ignored. *)
RotationRuns == DkPlan.dkim /\ DkPlan.dns

DkInit ==
  /\ dkDay = 1
  /\ dkState = RotationState
  /\ dkLive = StartSigner
  /\ dkTxt = {Configured}
  /\ dkFiles = {Configured}
  /\ dkPc = "idle"
  /\ dkNew = RotationState
  /\ dkOld = NoSelector
  /\ dkSigned = {}

(* Retiring takes precedence over rotating.                                *)
Decide(state, now) ==
  IF state.previous # NoPrevious /\ now >= state.previous.retire_at THEN "Retire"
  ELSE IF \/ state.selector = NoSelector
          \/ now - state.rotated_at >= DkInterval THEN "Rotate"
  ELSE "Idle"

(* Two rotations on one day would have one selector.                       *)
SelectorFor(now) == now

(* write_key: create_new refuses a file that exists.                       *)
WriteKey(s) == s \notin dkFiles /\ dkFiles' = dkFiles \cup {s}

-----------------------------------------------------------------------------
(* Mutant of TickRotate: the old selector is retired at the switch.        *)
TickRotateNoOverlap ==
  /\ RotationRuns /\ dkPc = "idle"
  /\ Decide(dkState, dkDay) = "Rotate"
  /\ SelectorFor(dkDay) # dkState.selector
  /\ WriteKey(SelectorFor(dkDay))
  /\ dkNew' = [selector |-> SelectorFor(dkDay), rotated_at |-> dkDay,
               previous |-> IF dkState.selector = NoSelector THEN NoPrevious
                            ELSE [selector |-> dkState.selector, retire_at |-> dkDay]]
  /\ dkPc' = "upsert"
  /\ UNCHANGED <<dkDay, dkState, dkLive, dkTxt, dkOld, dkSigned>>

(* tick, Rotate: the key file is created first and must be new.  A file    *)
(* left by an earlier attempt of the same day fails the tick.              *)
TickRotate ==
  /\ RotationRuns /\ dkPc = "idle"
  /\ Decide(dkState, dkDay) = "Rotate"
  /\ SelectorFor(dkDay) # dkState.selector
  /\ WriteKey(SelectorFor(dkDay))
  /\ dkNew' = [selector |-> SelectorFor(dkDay), rotated_at |-> dkDay,
               previous |-> IF dkState.selector = NoSelector THEN NoPrevious
                            ELSE [selector |-> dkState.selector,
                                  retire_at |-> dkDay + DkOverlap]]
  /\ dkPc' = "upsert"
  /\ UNCHANGED <<dkDay, dkState, dkLive, dkTxt, dkOld, dkSigned>>

(* The provider answers; a failure may still have taken effect, and ends   *)
(* the tick with the state file as it was.                                 *)
UpsertTxt ==
  /\ dkPc = "upsert"
  /\ \/ dkTxt' = dkTxt \cup {dkNew.selector} /\ dkPc' = "reload"
     \/ dkTxt' \in {dkTxt, dkTxt \cup {dkNew.selector}} /\ dkPc' = "idle"
  /\ UNCHANGED <<dkDay, dkState, dkLive, dkFiles, dkNew, dkOld, dkSigned>>

(* Signer::load of the new key alone: the RSA key is not carried over.     *)
Reload ==
  /\ dkPc = "reload"
  /\ dkLive' = [selector |-> dkNew.selector, rsa |-> FALSE]
  /\ dkPc' = "save"
  /\ UNCHANGED <<dkDay, dkState, dkTxt, dkFiles, dkNew, dkOld, dkSigned>>

(* save_state is a plain write: it may fail and leave what was there, or   *)
(* be cut short and leave a file load_state reads as the empty state.      *)
SaveState ==
  /\ dkPc \in {"save", "saveRetired"}
  /\ \/ dkState' = dkNew /\ dkPc' = IF dkPc = "save" THEN "idle" ELSE "unlink"
     \/ dkState' \in {dkState, RotationState} /\ dkPc' = "idle"
  /\ UNCHANGED <<dkDay, dkLive, dkTxt, dkFiles, dkNew, dkOld, dkSigned>>

(* tick, Retire: the record first, then the state, then the key file.      *)
TickRetire ==
  /\ RotationRuns /\ dkPc = "idle"
  /\ Decide(dkState, dkDay) = "Retire"
  /\ dkNew' = [dkState EXCEPT !.previous = NoPrevious]
  /\ dkOld' = dkState.previous.selector
  /\ \/ dkTxt' = dkTxt \ {dkState.previous.selector} /\ dkPc' = "saveRetired"
     \/ dkTxt' \in {dkTxt, dkTxt \ {dkState.previous.selector}} /\ dkPc' = "idle"
  /\ UNCHANGED <<dkDay, dkState, dkLive, dkFiles, dkSigned>>

(* The file of the selector whose record was taken down; best effort.      *)
UnlinkKey ==
  /\ dkPc = "unlink"
  /\ dkFiles' \in {dkFiles, dkFiles \ {dkOld}}
  /\ dkPc' = "idle"
  /\ UNCHANGED <<dkDay, dkState, dkLive, dkTxt, dkNew, dkOld, dkSigned>>

-----------------------------------------------------------------------------
(* A delivery signs with current().                                        *)
Sign ==
  /\ dkSigned' = dkSigned \cup {<<dkLive.selector, dkDay>>}
  /\ UNCHANGED <<dkDay, dkState, dkLive, dkTxt, dkFiles, dkPc, dkNew, dkOld>>

(* The process stops and starts: the signer is the configured one again.   *)
Restart ==
  /\ dkLive' = StartSigner
  /\ dkPc' = "idle"
  /\ UNCHANGED <<dkDay, dkState, dkTxt, dkFiles, dkNew, dkOld, dkSigned>>

(* A day passes; mail older than the overlap is no longer in transit.  A   *)
(* tick's calls time out after seconds, so none spans a day.               *)
Day ==
  /\ dkPc = "idle"
  /\ dkDay < DkHorizon
  /\ dkDay' = dkDay + 1
  /\ dkSigned' = {m \in dkSigned : dkDay + 1 < m[2] + DkOverlap}
  /\ UNCHANGED <<dkState, dkLive, dkTxt, dkFiles, dkPc, dkNew, dkOld>>

DkNext ==
  \/ TickRotate \/ UpsertTxt \/ Reload \/ SaveState \/ TickRetire \/ UnlinkKey
  \/ Sign \/ Restart \/ Day

DkSpec == DkInit /\ [][DkNext]_dkVars

-----------------------------------------------------------------------------
DkTypeOK ==
  /\ dkDay \in 1..DkHorizon
  /\ dkState.selector \in -1..DkHorizon
  /\ dkLive.selector \in 0..DkHorizon /\ dkLive.rsa \in BOOLEAN
  /\ dkTxt \subseteq 0..DkHorizon
  /\ dkFiles \subseteq 0..DkHorizon
  /\ dkPc \in {"idle", "upsert", "reload", "save", "saveRetired", "unlink"}

(* Mail verifies while it is in transit: the record of every selector a    *)
(* message was signed with is served until the overlap window (rotate.rs   *)
(* 84-91, sized for remote retry queues) has passed since it was signed,   *)
(* whatever failed or stopped in between.                                  *)
SignaturesVerify == \A m \in dkSigned : m[1] \in dkTxt

(* The signer never signs with a key whose record is not served.           *)
LiveIsPublished == dkLive.selector \in dkTxt

(* The key the signer holds is still on disk, and so is the key the state  *)
(* file names as active, so a retired file is never one in use.            *)
KeysInUseKept ==
  /\ dkLive.selector \in dkFiles
  /\ dkState.selector # NoSelector => dkState.selector \in dkFiles

(* Through rotations, retirements, failures and restarts, mail in transit  *)
(* verifies against a published key, and the key files in use are kept     *)
(* (dkim/rotate.rs).                                                       *)
DkimCorrect == DkTypeOK /\ SignaturesVerify /\ LiveIsPublished /\ KeysInUseKept

(* Does not hold: after a restart the signer is the configured one again,  *)
(* though the state file calls another selector "the active selector"      *)
(* (rotate.rs:67).                                                         *)
StateNamesTheSigner ==
  dkPc = "idle" /\ dkState.selector # NoSelector => dkLive.selector = dkState.selector
=============================================================================

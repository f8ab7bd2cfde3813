---------------------------- MODULE ManageSieve ----------------------------
(***************************************************************************)
(* ManageSieve: the session of managesieve/session.rs, the loop of         *)
(* managesieve/server.rs and the script store of managesieve/store.rs, for *)
(* several connections to one account.  Every file operation of a command  *)
(* is a step: fs::write first truncates and then fills, a step may fail    *)
(* and end the command, and a crash leaves the rest of it undone.          *)
(*                                                                         *)
(* Scripts and names are values; the active name is read back trimmed.     *)
(***************************************************************************)
EXTENDS Integers, Sequences, FiniteSets

CONSTANTS
    MsConns,        \* connections
    MsNames,        \* script names script_path accepts
    MsTrim,         \* MsTrim[n]: n without surrounding white space
    MsTexts,        \* texts clients send
    MsParsing,      \* the texts that parse as Sieve
    MsPrefix,       \* MsPrefix[t]: what has arrived when the connection ends early
    MsMaxFailures   \* MAX_AUTH_FAILURES

VARIABLES
    msState,        \* Open or Closed
    msTls, msAccount, msFailures,   \* fields of Session
    msTodo,         \* what the command in hand has still to do
    msFile,         \* the files: the scripts, FilterFile and ActiveFile
    \* history
    msUnsafe,       \* commands overlapped, one was left undone, or a padded name was activated
    msGuesses,      \* refused passwords since the connection was opened or one was accepted
    msWhole         \* texts that arrived completely

msVars == <<msState, msTls, msAccount, msFailures, msTodo, msFile, msUnsafe, msGuesses, msWhole>>
msLogin == <<msTls, msAccount, msFailures, msGuesses>>

Absent == "absent"
Empty == "empty"
FilterFile == "filter.sieve"
ActiveFile == ".active"

\* No file holds the mark of an absent one, a name is not empty, and the two files the store
\* keeps beside the scripts are not scripts (script_path appends .sieve to a name).
ASSUME MsAssumption ==
    /\ MsParsing \subseteq MsTexts
    /\ Absent \notin MsTexts \cup MsNames /\ Empty \notin MsNames
    /\ {FilterFile, ActiveFile} \cap MsNames = {}
    /\ MsMaxFailures \in Nat \ {0}

MsInit ==
    /\ msState = [c \in MsConns |-> "Open"]
    /\ msTls = [c \in MsConns |-> FALSE]
    /\ msAccount = [c \in MsConns |-> FALSE]
    /\ msFailures = [c \in MsConns |-> 0]
    /\ msTodo = [c \in MsConns |-> <<>>]
    /\ msFile = [f \in MsNames \cup {FilterFile, ActiveFile} |-> Absent]
    /\ msUnsafe = FALSE
    /\ msGuesses = [c \in MsConns |-> 0]
    /\ msWhole = {}

----------------------------------------------------------------------------
(* The store *)

\* active_name: no marker and an empty one both mean none
ActiveName ==
    IF msFile[ActiveFile] \in {Absent, Empty} THEN Absent ELSE MsTrim[msFile[ActiveFile]]

\* fs::write
WriteFile(f, text) ==
    << [do |-> "truncate", file |-> f, text |-> text], [do |-> "fill", file |-> f, text |-> text] >>

\* mutant: the live copy is left alone
PutStepsNoRefresh(name, text) == WriteFile(name, text)

\* put, once the name and the text are accepted
PutSteps(name, text) == WriteFile(name, text) \o << [do |-> "refresh", file |-> name, text |-> text] >>

\* set_active: the live copy before the marker
ActivateSteps(name, text) == WriteFile(FilterFile, text) \o WriteFile(ActiveFile, name)
DeactivateSteps ==
    << [do |-> "drop", file |-> FilterFile, text |-> Absent],
       [do |-> "drop", file |-> ActiveFile, text |-> Absent] >>

\* mutant: the marker stays behind
RenameStepsNoFollow(old, new) == << [do |-> "move", file |-> old, text |-> new] >>

RenameSteps(old, new) ==
    << [do |-> "move", file |-> old, text |-> new], [do |-> "follow", file |-> old, text |-> new] >>

\* the files after a step
After(step) ==
    CASE step.do \in {"drop"} -> [msFile EXCEPT ![step.file] = Absent]
      [] step.do = "truncate" -> [msFile EXCEPT ![step.file] = Empty]
      [] step.do = "fill" -> [msFile EXCEPT ![step.file] = step.text]
      [] step.do = "move" -> [msFile EXCEPT ![step.text] = msFile[step.file], ![step.file] = Absent]
      [] OTHER -> msFile

\* the steps a comparison with the active name adds
Further(step) ==
    CASE step.do = "refresh" /\ ActiveName = step.file -> WriteFile(FilterFile, step.text)
      [] step.do = "follow" /\ ActiveName = step.file -> WriteFile(ActiveFile, step.text)
      [] OTHER -> <<>>

PaddedActivation(step) ==
    step.do = "fill" /\ step.file = ActiveFile /\ MsTrim[step.text] # step.text

----------------------------------------------------------------------------
(* The session *)

Ready(c) == msState[c] = "Open" /\ msTodo[c] = <<>>

\* LISTSCRIPTS: the stored scripts, and which is marked active
Listing == {[name |-> n, active |-> ActiveName = n] : n \in {m \in MsNames : msFile[m] # Absent}}

\* CAPABILITY, NOOP, LISTSCRIPTS, GETSCRIPT, CHECKSCRIPT and HAVESPACE only
\* read, and a command that is refused changes nothing
Inquire(c) == Ready(c) /\ UNCHANGED msVars

\* a line that does not parse, or announces a script larger than MAX_LITERAL
\* (whose text is then read as commands), is answered with NO
BadCommand(c) == Ready(c) /\ UNCHANGED msVars

StartTls(c) ==
    /\ Ready(c) /\ ~msTls[c]
    /\ msTls' = [msTls EXCEPT ![c] = TRUE]
    /\ UNCHANGED <<msState, msAccount, msFailures, msTodo, msFile, msUnsafe, msGuesses, msWhole>>

Authenticated(c) ==
    /\ Ready(c) /\ ~msAccount[c] /\ msTls[c]
    /\ msAccount' = [msAccount EXCEPT ![c] = TRUE]
    /\ msFailures' = [msFailures EXCEPT ![c] = 0]
    /\ msGuesses' = [msGuesses EXCEPT ![c] = 0]
    /\ UNCHANGED <<msState, msTls, msTodo, msFile, msUnsafe, msWhole>>

\* mutant: the connection stays open
AuthenticationFailedOpen(c) ==
    /\ Ready(c) /\ ~msAccount[c] /\ msTls[c]
    /\ msFailures' = [msFailures EXCEPT ![c] = (@ + 1) % MsMaxFailures]
    /\ msGuesses' = [msGuesses EXCEPT ![c] = @ + 1]
    /\ UNCHANGED <<msState, msTls, msAccount, msTodo, msFile, msUnsafe, msWhole>>

\* the third refusal closes the connection
AuthenticationFailed(c) ==
    /\ Ready(c) /\ ~msAccount[c] /\ msTls[c]
    /\ msFailures' = [msFailures EXCEPT ![c] = @ + 1]
    /\ msState' = [msState EXCEPT ![c] = IF msFailures[c] + 1 >= MsMaxFailures THEN "Closed" ELSE @]
    /\ msGuesses' = [msGuesses EXCEPT ![c] = @ + 1]
    /\ UNCHANGED <<msTls, msAccount, msTodo, msFile, msUnsafe, msWhole>>

Unauthenticate(c) ==
    /\ Ready(c) /\ msAccount[c]
    /\ msAccount' = [msAccount EXCEPT ![c] = FALSE]
    /\ UNCHANGED <<msState, msTls, msFailures, msTodo, msFile, msUnsafe, msGuesses, msWhole>>

\* a script command is accepted
Begin(c, steps) ==
    /\ Ready(c) /\ msAccount[c]
    /\ msTodo' = [msTodo EXCEPT ![c] = steps]
    /\ msUnsafe' = (msUnsafe \/ \E d \in MsConns : msTodo[d] # <<>>)
    /\ UNCHANGED <<msState, msLogin, msFile>>

\* PUTSCRIPT; a literal cut short by the end of the connection is handed on as
\* it is, and the answer goes nowhere
PutScript(c, name, text, cut) ==
    /\ (IF cut THEN MsPrefix[text] ELSE text) \in MsParsing
    /\ Begin(c, PutSteps(name, IF cut THEN MsPrefix[text] ELSE text))
    /\ msWhole' = IF cut THEN msWhole ELSE msWhole \cup {text}

SetActive(c, name) ==
    /\ msFile[name] # Absent
    /\ Begin(c, ActivateSteps(name, msFile[name]))
    /\ UNCHANGED msWhole

SetInactive(c) == Begin(c, DeactivateSteps) /\ UNCHANGED msWhole

DeleteScript(c, name) ==
    /\ ActiveName # name
    /\ msFile[name] # Absent
    /\ Begin(c, << [do |-> "drop", file |-> name, text |-> Absent] >>)
    /\ UNCHANGED msWhole

RenameScript(c, old, new) ==
    /\ msFile[old] # Absent /\ msFile[new] = Absent
    /\ Begin(c, RenameSteps(old, new))
    /\ UNCHANGED msWhole

\* the next step of the command in hand
Step(c) ==
    /\ msState[c] = "Open" /\ msTodo[c] # <<>>
    /\ LET step == Head(msTodo[c]) IN
         /\ msFile' = After(step)
         /\ msTodo' = [msTodo EXCEPT ![c] = Further(step) \o Tail(@)]
         /\ msUnsafe' = (msUnsafe \/ PaddedActivation(step))
    /\ UNCHANGED <<msState, msLogin, msWhole>>

\* the step fails (StoreError::Io): the rest is not done.  A removal by
\* set_active is tried and its failure ignored
Fail(c) ==
    /\ msState[c] = "Open" /\ msTodo[c] # <<>>
    /\ Head(msTodo[c]).do \in {"truncate", "fill", "move", "drop"}
    /\ msTodo' = [msTodo EXCEPT ![c] = IF Head(@).file \in {FilterFile, ActiveFile} /\ Head(@).do = "drop"
                                        THEN Tail(@) ELSE <<>>]
    /\ msUnsafe' = TRUE
    /\ UNCHANGED <<msState, msLogin, msFile, msWhole>>

\* LOGOUT, the end of the connection, or a crash in the middle of a command
Leave(c) ==
    /\ msState[c] = "Open"
    /\ msState' = [msState EXCEPT ![c] = "Closed"]
    /\ msTodo' = [msTodo EXCEPT ![c] = <<>>]
    /\ msUnsafe' = (msUnsafe \/ msTodo[c] # <<>>)
    /\ UNCHANGED <<msLogin, msFile, msWhole>>

MsNext ==
    \E c \in MsConns :
        \/ Inquire(c) \/ BadCommand(c)
        \/ StartTls(c) \/ Authenticated(c) \/ AuthenticationFailed(c) \/ Unauthenticate(c)
        \/ \E n \in MsNames, t \in MsTexts, cut \in BOOLEAN : PutScript(c, n, t, cut)
        \/ \E n \in MsNames : SetActive(c, n) \/ DeleteScript(c, n)
        \/ \E n, m \in MsNames : RenameScript(c, n, m)
        \/ SetInactive(c) \/ Step(c) \/ Fail(c) \/ Leave(c)

MsSpec == MsInit /\ [][MsNext]_msVars

----------------------------------------------------------------------------
(* Properties *)

MsTypeOK ==
    /\ msState \in [MsConns -> {"Open", "Closed"}]
    /\ {msTls, msAccount} \subseteq [MsConns -> BOOLEAN]
    /\ msFailures \in [MsConns -> 0..MsMaxFailures]
    /\ \A f \in MsNames \cup {FilterFile} : msFile[f] \in MsTexts \cup {Absent, Empty}
    /\ msFile[ActiveFile] \in MsNames \cup {Absent, Empty}
    /\ \A c \in MsConns : Len(msTodo[c]) <= 4

\* The script the delivery pipeline runs is the one the client activated, in its
\* present text: putting, renaming, activating and deactivating scripts keep
\* filter.sieve, .active and the scripts in step.  It holds between commands as
\* long as they do not overlap, none is cut short and no activated name has
\* white space at its ends; each of the three breaks it.
LiveIsActive ==
    (~msUnsafe /\ \A c \in MsConns : msTodo[c] = <<>>) =>
        IF ActiveName = Absent
        THEN msFile[FilterFile] = Absent
        ELSE \E script \in Listing : script.active /\ msFile[FilterFile] = msFile[script.name]

\* No text reaches delivery that the store has not parsed, whatever overlaps or
\* fails: at worst the filter is empty for a while.
OnlyValidated ==
    \A f \in MsNames \cup {FilterFile} : msFile[f] \in MsParsing \cup {Absent, Empty}

\* One connection gets at most three passwords refused between two logins, also
\* when it logs in and unauthenticates in between.
GuessesBounded == \A c \in MsConns : msGuesses[c] <= MsMaxFailures

\* The filter that runs is the active script, only scripts that parse are
\* stored, and guessing a password ends the connection (managesieve/session.rs,
\* managesieve/store.rs).
ManageSieveCorrect == MsTypeOK /\ LiveIsActive /\ OnlyValidated /\ GuessesBounded

\* What is stored has arrived completely.  Not so: server.rs hands a literal
\* that the end of the connection cut short to PUTSCRIPT.
StoredWhole == \A n \in MsNames : msFile[n] \in msWhole \cup {Absent, Empty}

============================================================================

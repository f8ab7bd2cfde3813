----------------------------- MODULE MCClients -----------------------------
(***************************************************************************)
(* The services a mail client talks to, instantiated side by side for TLC: *)
(* POP3, ManageSieve and Sieve scripts, the IMAP session with its          *)
(* compression layer, sidecar files and searches, and the grants of the    *)
(* authorization server.  `which` picks the service a behaviour is about;  *)
(* the others stay as they were initialised.                               *)
(***************************************************************************)
EXTENDS Pop3Session, ManageSieve, OauthGrants, ImapSession

VARIABLES
    which,
    zWire, zRaw, zInside, zPlain, zRead, zWaiting, zLeft, zOut, zSent, zAccepted, zFlushed,
    setKind, setFile, setHand, setWanted, setUnsafe

zVars == <<zWire, zRaw, zInside, zPlain, zRead, zWaiting, zLeft, zOut, zSent, zAccepted, zFlushed>>
setVars == <<setKind, setFile, setHand, setWanted, setUnsafe>>
vars == <<which, popVars, msVars, imVars, zVars, setVars, grVars>>

----------------------------------------------------------------------------
(* POP3: two connections to a maildrop of two messages; contents of up to  *)
(* five octets for the framing.                                            *)
MCBodies == UNION {[1 .. k -> {"c", ".", "r", "n"}] : k \in 0 .. 5}

(* ManageSieve: two connections, two scripts that parse and one that does  *)
(* not, and two names that differ in white space.                          *)
MCNames == {"a", "a "}
MCTrim == [n \in MCNames |-> IF n = "a " THEN "a" ELSE n]
MCPrefix == [t \in {"x", "y", "bad"} |-> "bad"]

(* OAuth grants: one device or authorization code, two accounts and two    *)
(* approvers.                                                              *)

(* The IMAP session: every feature and two mailbox operations on the first *)
(* message; no more errors and refusals with the second; a MOVE of both    *)
(* takes two more UIDs, in a session that asked for nothing else.          *)
Calm == imStreak = 0 /\ imRefused = 0 /\ imOps <= 1
Undistracted ==
    /\ Calm /\ imSaved = NoSaved /\ imPc \notin {"literal", "idle"}
    /\ ~imUidOnly /\ ~imNotify /\ ~imSel.readOnly
ImBounded ==
    /\ ImNext
    /\ \/ imUid' <= 2
       \/ imUid' <= 3 /\ Calm'
       \/ imPc = "copy" /\ Undistracted'

(* The compression layer: three units in, two buffers out, chunks of two.  *)
Compress == INSTANCE ImapCompress WITH
    ZChunk <- 2, ZUnits <- <<1, 3, 2>>, ZBuffers <- <<2, 3>>

(* The sidecar files: two connections, names that differ in case.          *)
Folders == {"INBOX", "Work", "work", "x"}
Settings == INSTANCE ImapSettings WITH
    SetClients <- {1, 2}, SetNames <- Folders,
    SetFold <- [n \in Folders |-> IF n = "Work" THEN "work" ELSE n], SetInbox <- "INBOX",
    SetOwner <- "me", SetIds <- {"me", "bob"}, SetRights <- {"l"}, SetEntries <- {"e", "f"},
    SetValues <- {"v"}

(* Searches over mailboxes of three messages around a leap day.            *)
LeapDay == 19782
Subjects == {<<1>>, <<0, 1>>, <<0, 0, 2>>}
Mail(uid, day, size, subject, flags) ==
    [uid |-> uid, flags |-> flags, day |-> day, size |-> size, modseq |-> uid,
     age |-> day - LeapDay, subject |-> subject]
Key(op, arg) == [op |-> op, arg |-> arg]
SortKey(key, reverse) == [key |-> key, reverse |-> reverse]
Search == INSTANCE ImapSearch WITH
    SrDays <- 0 .. 1600 \cup 10950 .. 11100 \cup 47480 .. 47560,
    SrMailboxes <-
        {<<>>} \cup {<<Mail(2, d1, s1, u1, {"Seen"}), Mail(3, d2, s2, u2, {}), Mail(7, d3, 1, u3, {})>> :
                        d1, d2, d3 \in {LeapDay, LeapDay + 1}, s1, s2 \in 1 .. 2,
                        u1, u2, u3 \in Subjects},
    SrAtoms <- {Key("before", <<2024, 2, 29>>), Key("before", <<2024, 3, 1>>),
                Key("flag", [flag |-> "Seen", wanted |-> FALSE]), Key("younger", 0),
                Key("larger", 1), Key("smaller", 2), Key("modseq", 3),
                Key("sequence", <<<<2, 0>>>>), Key("all", 0)},
    SrSets <- {<<<<a, b>>>> : a, b \in 0 .. 5} \cup {<<<<a, a>>, <<b, c>>>> : a, b, c \in 0 .. 4},
    SrSortKeys <- {<<SortKey(a, r), SortKey(b, q)>> :
                      a, b \in {"arrival", "size", "subject"}, r, q \in BOOLEAN}

----------------------------------------------------------------------------
(* Sieve: every sequence of up to four tokens for the parser, every pair   *)
(* of actions and every if/else over the tests for the interpreter.        *)
Id(name) == [k |-> "id", v |-> <<name>>]
Punct(p) == [k |-> "punct", v |-> <<p>>]
Tag(name) == [k |-> "tag", v |-> <<name>>]
Str(text) == [k |-> "str", v |-> text]
Num(digits) == [k |-> "num", v |-> digits]
SubjectIs == <<Str(<<"subject">>), Str(<<"*", "0">>)>>
Actions ==
    {<<Id(n)>> : n \in {"keep", "discard", "stop", "fileinto", "frobnicate"}}
    \cup {<<Id(n), Str(<<"a">>)>> : n \in {"redirect", "reject", "vacation", "setflag"}}
    \cup {<<Id("fileinto"), Str(<<"b", "$", "{", "1", "}">>)>>,
          <<Id("redirect"), Tag("copy"), Str(<<"a">>)>>,
          <<Id("set"), Str(<<"1">>), Str(<<"x">>)>>}
Tests ==
    {<<Id("header"), Tag("matches")>> \o SubjectIs,
     <<Id("not"), Id("header"), Tag("contains"), Tag("comparator"), Str(<<"i;octet">>)>> \o SubjectIs,
     <<Id("allof"), Punct("("), Id("true"), Punct(","), Id("exists"), Str(<<"subject">>), Punct(")")>>,
     <<Id("anyof"), Punct("("), Id("spam"), Punct(","), Id("size"), Tag("over"), Num(<<"1">>),
       Punct(")")>>,
     <<Id("address"), Tag("detail"), Tag("count"), Str(<<"ge">>), Str(<<"subject">>), Str(<<"1">>)>>,
     <<Id("envelope"), Tag("user"), Punct("["), Str(<<"to">>), Punct(","), Str(<<"from">>),
       Punct("]"), Str(<<"a">>)>>,
     <<Id("body"), Tag("contains"), Str(<<"0">>)>>,
     <<Id("date"), Str(<<"subject">>), Str(<<"year">>), Str(<<"1">>)>>,
     <<Id("currentdate"), Str(<<"year">>), Str(<<"1">>)>>}
Do(action) == Append(action, Punct(";"))
Braced(action) == <<Punct("{")>> \o Do(action) \o <<Punct("}")>>
Letter ==
    [headers |-> <<[name |-> <<"subject">>, value |-> <<"a", "+", "0">>, date |-> [year |-> <<"1">>]]>>,
     now |-> [year |-> <<"0">>], from |-> <<"a", "@", "a">>, to |-> <<<<"a", "+", "0", "@", "a">>>>,
     body |-> <<"0">>, size |-> 6]
Sieve == INSTANCE SieveScript WITH
    SvTokens <- {Id(n) : n \in {"if", "elsif", "else", "not", "allof", "keep"}}
                \cup {Punct(p) : p \in {";", "{", "}", "(", ")", ",", "[", "]"}}
                \cup {Str(<<"s">>), Tag("comparator")},
    SvMaxTokens <- 4,
    SvChars <- {"a", "*", "?", ".", "\"", "\\", "@", "+"},
    SvMaxText <- 3,
    SvOrder <- <<"*", "+", "0", "1", "2", "?", "@", "a", "b", "from", "subject", "to", "x">>,
    SvScripts <- {Do(a) \o Do(b) : a, b \in Actions}
                 \cup {<<Id("if")>> \o t \o Braced(a) \o <<Id("else")>> \o Braced(b) \o Do(c) :
                          t \in Tests, a, b, c \in Actions},
    SvMessages <- {Letter, [Letter EXCEPT !.headers = <<>>, !.size = 1]},
    SvNumberMax <- 2100
----------------------------------------------------------------------------
----------------------------------------------------------------------------
Parts == {"pop", "imap", "compress", "settings", "search", "sieve", "grants", "manage"}

Init ==
    /\ which \in Parts
    /\ PopInit /\ MsInit /\ GrInit /\ ImInit /\ Compress!ZInit /\ Settings!SetInit
    /\ which = "settings" \/ setKind = "acl"
    /\ which = "imap" \/ imTls

\* The services other than part stay as they are.
Only(part) ==
    /\ which = part /\ UNCHANGED which
    /\ IF part = "pop" THEN TRUE ELSE UNCHANGED popVars
    /\ IF part = "manage" THEN TRUE ELSE UNCHANGED msVars
    /\ IF part = "imap" THEN TRUE ELSE UNCHANGED imVars
    /\ IF part = "compress" THEN TRUE ELSE UNCHANGED zVars
    /\ IF part = "settings" THEN TRUE ELSE UNCHANGED setVars
    /\ IF part = "grants" THEN TRUE ELSE UNCHANGED grVars

Next ==
    \/ Only("pop") /\ PopNext
    \/ Only("manage") /\ MsNext
    \/ Only("imap") /\ ImBounded
    \/ Only("compress") /\ Compress!ZNext
    \/ Only("settings") /\ Settings!SetNext
    \/ Only("grants") /\ GrNext

Spec == Init /\ [][Next]_vars

----------------------------------------------------------------------------
\* What the sessions rest on: what RETR sends is framed so that it arrives as
\* it is stored, every octet passes the compression layer once, ACLs,
\* annotations and subscriptions keep what was answered OK, SEARCH, SORT and
\* THREAD mean what RFC 9051, 5256 and 7162 say, scripts parse exactly when the
\* grammar generates them, and no script makes a message vanish unless it says
\* so (pop3/session.rs, imap/compress.rs, imap/acl.rs, imap/metadata.rs,
\* imap/command/search.rs, sieve/*.rs).
ClientDataCorrect ==
    /\ which = "pop" => (PopInit => FramingFaithful)
    /\ which = "compress" => Compress!WrittenOnce /\ Compress!ReadsAll
    /\ which = "settings" => /\ Settings!SetTypeOK /\ Settings!SettingsKept
                             /\ Settings!OwnerKeepsRights
    /\ which = "search" => /\ Search!CalendarSound /\ Search!KeysParseBack
                           /\ Search!SetsNameMessages /\ Search!SearchMeans
                           /\ Search!SortOrders /\ Search!ThreadsPartition
    /\ which = "sieve" => /\ Sieve!ParsesExactly /\ Sieve!LexesBack /\ Sieve!GlobsAgree
                          /\ Sieve!NeverVanishes /\ Sieve!PartsRecombine
                          /\ Sieve!StringsTakenOnce
=============================================================================

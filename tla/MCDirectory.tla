----------------------------- MODULE MCDirectory -----------------------------
(***************************************************************************)
(* The parts of the server that say who is whose, instantiated side by     *)
(* side for TLC: the directory, the SCRAM exchange and the rewriting of    *)
(* forwarded senders.  `which` picks the part a behaviour is about; the    *)
(* others stay as they were initialised.                                   *)
(***************************************************************************)
EXTENDS Directory, Scram, Srs

VARIABLE which

----------------------------------------------------------------------------
(* Characters: "A" is the one capital of the directory.                    *)
MCLower == [c \in {"a", "A", "b", "d", "e", "m", "p", "q", "t", "v", "+", ".", "0", "1"} |->
               IF c = "A" THEN "a" ELSE c]
D == <<"d">>
E == <<"e">>
V == <<"v">>
Addr(local, domain) == [local |-> local, domain |-> domain]
MCNormal == [d \in {D, E, V, <<"A">>} |-> IF d = <<"A">> THEN {} ELSE {d}]
P == <<"p">>
MCNames == {<<"p">>, <<"q">>}
Q == <<"q">>

Spec2(members, senders) == [members |-> members, senders |-> senders, hidden |-> TRUE, list |-> {}]
TeamMembers == <<Addr(<<"A">>, D), Addr(<<"e">>, D), Addr(<<"b">>, D)>>
Plain ==
    [domains |-> {D, E}, addresses |-> <<<<Addr(<<"a">>, D), P>>, <<Addr(<<"b">>, D), Q>>>>,
     hashes |-> <<<<P, <<"a">>>>, <<Q, <<"b">>>>>>, separators |-> {"+"}, catchAll |-> <<>>,
     domainAliases |-> <<>>, scram |-> <<>>, totp |-> <<>>, disabled |-> {}, accountQuotas |-> <<>>,
     domainQuotas |-> <<>>, domainLimits |-> <<>>, forwards |-> <<>>, aliases |-> <<>>,
     apps |-> <<>>, ldap |-> {}, masked |-> <<>>, protocols |-> <<>>]

(* Who receives: addresses that collide, lie in two domains or outside all *)
(* of them, aliases and masks that collide with them and with each other.  *)
Routes ==
    {[Plain EXCEPT !.addresses = addresses, !.aliases = aliases, !.masked = masked,
                   !.catchAll = catchAll, !.domainAliases = domainAliases,
                   !.domainQuotas = quotas, !.accountQuotas = own, !.domainLimits = quotas] :
        addresses \in {<<<<Addr(<<"a">>, D), P>>, <<Addr(<<"b">>, D), Q>>>>,
                       <<<<Addr(<<"A">>, D), P>>, <<Addr(<<"a">>, D), Q>>, <<Addr(<<"b">>, E), P>>>>,
                       <<<<Addr(<<"a">>, D), P>>, <<Addr(<<"b">>, V), P>>, <<Addr(<<"b">>, E), P>>>>},
        aliases \in {<<>>} \cup {<<<<Addr(local, D), Spec2(TeamMembers, senders)>>>> :
                        local \in {<<"t">>, <<"a">>}, senders \in {<<>>, <<Addr(<<"b">>, D)>>}},
        masked \in {<<>>, <<<<Addr(<<"m">>, D), P>>>>, <<<<Addr(<<"t">>, D), Q>>>>},
        catchAll \in {<<>>, <<<<D, Q>>>>}, domainAliases \in {<<>>, <<<<V, D>>>>},
        quotas \in {<<>>, <<<<D, 1>>, <<E, 2>>>>}, own \in {<<>>, <<<<P, 3>>>>}}

(* Who gets in: second factors, app passwords, LDAP, disabled accounts.    *)
App(expires, cidr) == [secret |-> <<"e">>, expires |-> expires, cidr |-> cidr]
Entry(names, password) ==
    [login |-> [at |-> FALSE, local |-> P, domain |-> <<>>], names |-> names, mails |-> <<Q>>,
     dn |-> <<"d">>, password |-> password]
Guards ==
    {[Plain EXCEPT !.totp = totp, !.apps = apps, !.ldap = ldap, !.disabled = disabled,
                   !.protocols = protocols, !.catchAll = <<<<D, Q>>>>] :
        totp \in {<<>>, <<<<P, "s">>>>, <<<<P, "bad">>>>},
        apps \in {<<>>, <<<<P, App({}, {})>>>>, <<<<P, App({40}, {{1}})>>>>},
        ldap \in {{}, {[up |-> TRUE, entries |-> <<Entry(<<P>>, <<"e">>)>>]},
                  {[up |-> TRUE, entries |-> <<Entry(<<>>, <<>>), Entry(<<P>>, <<"b">>)>>]},
                  {[up |-> FALSE, entries |-> <<Entry(<<>>, <<"b">>)>>]}},
        disabled \in {{}, {P}}, protocols \in {<<>>, <<<<P, {"imap"}>>>>, <<<<P, {}>>>>}}

MCConfigs == Routes \cup Guards
MCAddresses ==
    {Addr(local, domain) :
        local \in {<<"a">>, <<"A">>, <<"b">>, <<"t">>, <<"m">>, <<"a", "+", "t">>, <<"+", "a">>,
                   <<"A", "+">>},
        domain \in {D, E, V}}
MCLogins ==
    {[at |-> FALSE, local |-> local, domain |-> <<>>] : local \in {P, Q, <<"a">>}}
    \cup {[at |-> TRUE, local |-> local, domain |-> domain] :
             local \in {<<"a">>, <<"A", "+", "t">>, <<"e">>, <<".">>}, domain \in {D, <<"A">>}}
Codes == {<<"0", "0">>, <<"0", "1">>, <<"1", "0">>, <<"1", "1">>}
MCHotp == [s |-> [step \in 0 .. 5 |->
                     <<<<"0", "0">>, <<"0", "1">>, <<"1", "0">>, <<"1", "1">>, <<"0", "0">>,
                       <<"0", "1">>>>[step + 1]]]
MCPasswords == {<<>>, <<"a">>, <<"b">>, <<"e">>, <<"a", "+", "1">>}
               \cup {<<"a">> \o code : code \in Codes} \cup Codes
MCIps == {{}, {1}, {2}}
MCProtocols == {"imap", "smtp"}
MCTimes == {0, 29, 60, 95}

(* One disabled account that has SCRAM credentials.                        *)
MCDisabled == {[Plain EXCEPT !.disabled = disabled, !.scram = <<<<P, {"keys"}>>>>] :
                  disabled \in {{}, {P}}}

----------------------------------------------------------------------------
(* SCRAM: an exchange under each policy, clients that hold the right or    *)
(* another password and see this certificate or another, and messages put  *)
(* together again from the parts of others.                                *)
MCExchanges == {"clear", "tls", "plus"}
MCNonce == [clear |-> <<"0">>, tls |-> <<"1">>, plus |-> <<"2">>]
MCBinding ==
    [clear |-> [kind |-> "Unsupported", data |-> ""], tls |-> [kind |-> "Supported", data |-> ""],
     plus |-> [kind |-> "Required", data |-> "cert"]]
MCStored == Derive("pw", "salt", 4096)
None2 == <<"", "">>
User == <<"n", "alice">>
FlagFields == {NoBinding, <<"", "y">>, Endpoint}
MCFirsts ==
    {<<flag, None2, User, <<"r", nonce>>>> : flag \in FlagFields, nonce \in {<<"x">>, <<"x", "2">>}}
    \cup {<<NoBinding, None2, <<"r", <<"x">>>>>>, <<NoBinding, None2>>}
Finals(w, over) ==
    {w \o <<<<"p", [key |-> ClientKey(password, "salt"), over |-> over]>>>> : password \in {"pw", "no"}}
Headers == {<<flag, None2>> : flag \in {NoBinding, Endpoint}}
Said(header, data, nonce) == <<<<"c", [header |-> header, data |-> data]>>, <<"r", nonce>>>>
Combined == {<<"x">> \o MCNonce[e] : e \in MCExchanges} \cup {<<"x", "2", "2">>, <<"x">>}
Messages ==
    {[w |-> Said(header, data, nonce),
      over |-> <<User, <<"r", <<"x">>>>>> \o <<<<"r", nonce>>, <<"s", "salt">>, <<"i", 4096>>>>
               \o Said(header, data, nonce)] :
        header \in Headers, data \in {"", "cert", "other"}, nonce \in Combined}
Short == [key |-> ClientKey("pw", "salt"), over |-> <<>>]
MCFinals ==
    UNION {Finals(m.w, m.over) : m \in Messages}
    \cup UNION {Finals(Said(<<Endpoint, None2>>, "cert", <<"x", "2">>), m.over) : m \in Messages}
    \cup UNION {Finals(Tail(m.w), m.over) : m \in Messages}
    \cup {<<<<"r", <<"x", "2">>>>>>,
          Said(<<NoBinding, None2>>, "", <<"x", "1">>) \o <<<<"p", Short>>>>}
MCUndecodable == {Short}

----------------------------------------------------------------------------
(* Senders whose local part holds an = or a capital, on days around the    *)
(* wrap of the timestamp.                                                  *)
Letters == <<"A", "B", "C", "D", "E", "F", "G", "H", "I", "J", "K", "L", "M", "N", "O", "P", "Q",
             "R", "S", "T", "U", "V", "W", "X", "Y", "Z">>
Small == <<"a", "b", "c", "d", "e", "f", "g", "h", "i", "j", "k", "l", "m", "n", "o", "p", "q",
           "r", "s", "t", "u", "v", "w", "x", "y", "z">>
MCAlphabet == Letters \o <<"2", "3", "4", "5", "6", "7">>
MCSrLower ==
    [c \in {Letters[i] : i \in 1 .. 26} \cup {Small[i] : i \in 1 .. 26}
           \cup {"0", "2", "3", "4", "5", "6", "7", "=", "#", "~"} |->
        IF \E i \in 1 .. 26 : Letters[i] = c THEN Small[CHOOSE i \in 1 .. 26 : Letters[i] = c] ELSE c]
MCSenders == {Addr(<<"a", "=", "B">>, <<"c">>), Addr(<<"a">>, <<"b", "c">>), NullSender}
MCDays == {0, 14, 15, 1023, 1037, 1038}
MCHost == <<"H">>

----------------------------------------------------------------------------
vars == <<which, dir, scVars, srVars>>

Init ==
    /\ which \in {"directory", "scram", "srs"}
    /\ ScInit
    /\ IF which = "directory" THEN DrInit ELSE dir = Build(Plain)
    /\ IF which = "srs" THEN SrInit ELSE day = 0 /\ forwarded = {}

\* A replacement keeps nothing of the directory it replaces, so that replacing
\* the plain one by each configuration stands for replacing any.
Next ==
    \/ which = "directory" /\ dir = Build(Plain) /\ DrNext /\ UNCHANGED <<which, scVars, srVars>>
    \/ which = "scram" /\ ScNext /\ UNCHANGED <<which, dir, srVars>>
    \/ which = "srs" /\ SrNext /\ UNCHANGED <<which, dir, scVars>>

Spec == Init /\ [][Next]_vars

=============================================================================

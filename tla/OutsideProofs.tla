---------------------------- MODULE OutsideProofs ----------------------------
(***************************************************************************)
(* Proofs about the parts that face the outside world: the directory and   *)
(* the SCRAM exchange for every set of configurations, addresses, logins   *)
(* and messages; DKIM key rotation for every overlap and horizon; the      *)
(* renewal of certificates for every list of domains; and the transport    *)
(* of an outgoing message for every policy, rule and peer.                 *)
(***************************************************************************)
EXTENDS Directory, Scram, TransportPolicy, DkimRotation, Acme, FiniteSetTheorems,
        WellFoundedInduction, TLAPS

----------------------------------------------------------------------------
(* What is true of every published directory.                              *)

Published == \E config \in DrConfigs : dir = Build(config)

LEMMA AlwaysPublished == DrSpec => []Published
  <1>1. DrInit => Published
    BY DEF DrInit, Published
  <1>2. Published /\ [DrNext]_dir => Published'
    BY DEF Published, DrNext, Replace
  <1>3. QED
    BY <1>1, <1>2, PTL DEF DrSpec

\* The fields of a directory that the properties rest on.
LEMMA BuildFields ==
  ASSUME NEW config \in DrConfigs
  PROVE  /\ Build(config).domains = {Fold(domain) : domain \in config.domains}
         /\ DOMAIN Build(config).domainAliases =
               {Fold(config.domainAliases[i][1]) : i \in DOMAIN config.domainAliases}
         /\ Build(config).separators = config.separators
         /\ Build(config).ldap = config.ldap
  <1>1. DOMAIN Collect(config.domainAliases, Fold) =
               {Fold(config.domainAliases[i][1]) : i \in DOMAIN config.domainAliases}
    BY DEF Collect
  <1>2. QED
    BY <1>1 DEF Build

\* A local domain is no alias of another.
LEMMA LocalNoAlias ==
  ASSUME Published, NEW domain \in dir.domains
  PROVE  domain \notin DOMAIN dir.domainAliases
  <1>1. PICK config \in DrConfigs : dir = Build(config)
    BY DEF Published
  <1>2. Valid(config)
    BY <1>1, ConfigsAssumption
  <1>3. QED
    BY <1>1, <1>2, BuildFields DEF Valid
\* A set of positions that is not empty has a last one.
LEMMA LastExists ==
  ASSUME NEW n \in Nat, NEW T \in SUBSET (1 .. n), T # {}
  PROVE  \E i \in T : \A j \in T : j <= i
  <1> DEFINE R == OpToRel(<, Nat)
             Back == {n - i : i \in T}
  <1>0. \A i \in T : i \in Nat /\ n - i \in Nat
    OBVIOUS
  <1>1. Back \in SUBSET Nat /\ Back # {}
    BY <1>0
  <1>2. PICK x \in Back : \A y \in Back : ~(<<y, x>> \in R)
    BY <1>1, NatLessThanWellFounded, WFMin
  <1>3. \A y \in Back : ~(y < x)
    BY <1>1, <1>2 DEF OpToRel
  <1>4. PICK i \in T : x = n - i
    OBVIOUS
  <1>5. \A j \in T : j <= i
    BY <1>3, <1>4
  <1>6. QED
    BY <1>5

\* The target of an alias is a local domain.
LEMMA TargetsLocal ==
  ASSUME Published, NEW alias \in DOMAIN dir.domainAliases
  PROVE  dir.domainAliases[alias] \in dir.domains
  <1>1. PICK config \in DrConfigs : dir = Build(config)
    BY DEF Published
  <1> DEFINE pairs == config.domainAliases
             LastAt(k) == CHOOSE i \in DOMAIN pairs :
                           /\ Fold(pairs[i][1]) = k
                           /\ \A j \in DOMAIN pairs : Fold(pairs[j][1]) = k => j <= i
  <1>2. dir.domainAliases[alias] = Fold(pairs[LastAt(alias)][2])
    BY <1>1 DEF Build, Collect
  <1>3. LastAt(alias) \in DOMAIN pairs
    <2> DEFINE T == {i \in DOMAIN pairs : Fold(pairs[i][1]) = alias}
    <2>1. T # {}
      BY <1>1, BuildFields
    <2>2. \E n \in Nat : DOMAIN pairs = 1 .. n
      BY ConfigsAssumption DEF Valid
    <2>3. \E i \in T : \A j \in T : j <= i
      BY <2>1, <2>2, LastExists
    <2>4. QED
      BY <2>3
  <1>4. Fold(pairs[LastAt(alias)][2]) \in {Fold(domain) : domain \in config.domains}
    BY <1>3, ConfigsAssumption DEF Valid
  <1>5. QED
    BY <1>1, <1>2, <1>4, BuildFields

----------------------------------------------------------------------------
(* Folding.                                                                *)

Chars == DOMAIN DrLower

LEMMA FoldInSeq ==
  ASSUME NEW text \in Seq(Chars)
  PROVE  /\ Fold(text) \in Seq(Chars) /\ Len(Fold(text)) = Len(text)
         /\ \A i \in 1 .. Len(text) : Fold(text)[i] = DrLower[text[i]]
  <1>1. \A i \in 1 .. Len(text) : DrLower[text[i]] \in Chars
    BY FoldAssumption DEF Chars
  <1>2. QED
    BY <1>1 DEF Fold

\* Folding twice is folding once.
LEMMA FoldTwice ==
  ASSUME NEW text \in Seq(Chars)
  PROVE  Fold(Fold(text)) = Fold(text)
  <1>1. \A i \in 1 .. Len(text) : text[i] \in Chars
    OBVIOUS
  <1>2. \A i \in 1 .. Len(text) : DrLower[Fold(text)[i]] = Fold(text)[i]
    BY <1>1, FoldInSeq, FoldAssumption DEF Chars
  <1>3. QED
    BY <1>2, FoldInSeq DEF Fold

\* Folding the beginning of a text gives the beginning of the folded text.
LEMMA FoldPrefix ==
  ASSUME NEW text \in Seq(Chars), NEW n \in 0 .. Len(text)
  PROVE  Fold(SubSeq(Fold(text), 1, n)) = Fold(SubSeq(text, 1, n))
  <1>1. SubSeq(text, 1, n) \in Seq(Chars) /\ Len(SubSeq(text, 1, n)) = n
        /\ \A i \in 1 .. n : SubSeq(text, 1, n)[i] = text[i]
    OBVIOUS
  <1>2. Fold(text) \in Seq(Chars) /\ Len(Fold(text)) = Len(text)
    BY FoldInSeq
  <1>3. SubSeq(Fold(text), 1, n) \in Seq(Chars) /\ Len(SubSeq(Fold(text), 1, n)) = n
        /\ \A i \in 1 .. n : SubSeq(Fold(text), 1, n)[i] = Fold(text)[i]
    BY <1>2
  <1>4. \A i \in 1 .. n : DrLower[Fold(text)[i]] = DrLower[text[i]]
    BY FoldInSeq, FoldAssumption DEF Chars
  <1>5. QED
    BY <1>1, <1>3, <1>4 DEF Fold

\* The tag separators stand where they stood.
LEMMA StripFolded ==
  ASSUME Published, NEW text \in Seq(Chars)
  PROVE  {Fold(base) : base \in StripSubaddress(dir, Fold(text))}
            = {Fold(base) : base \in StripSubaddress(dir, text)}
  <1>1. \A c \in Chars : c \in dir.separators <=> DrLower[c] \in dir.separators
    <2>1. PICK config \in DrConfigs : dir = Build(config)
      BY DEF Published
    <2>2. QED
      BY <2>1, ConfigsAssumption, BuildFields DEF Valid, Chars
  <1> DEFINE cuts == {i \in 1 .. Len(text) : text[i] \in dir.separators}
             first == {i \in cuts : i > 1 /\ \A j \in cuts : i <= j}
  <1>2. \A i \in 1 .. Len(text) : text[i] \in Chars
    OBVIOUS
  <1>3. cuts = {i \in 1 .. Len(Fold(text)) : Fold(text)[i] \in dir.separators}
    BY <1>1, <1>2, FoldInSeq
  <1>4. StripSubaddress(dir, text) = {SubSeq(text, 1, cut - 1) : cut \in first}
    BY DEF StripSubaddress
  <1>5. StripSubaddress(dir, Fold(text)) = {SubSeq(Fold(text), 1, cut - 1) : cut \in first}
    BY <1>3 DEF StripSubaddress
  <1>6. \A cut \in first : Fold(SubSeq(Fold(text), 1, cut - 1)) = Fold(SubSeq(text, 1, cut - 1))
    BY FoldPrefix
  <1> HIDE DEF first
  <1>7. {Fold(base) : base \in StripSubaddress(dir, Fold(text))}
           = {Fold(SubSeq(Fold(text), 1, cut - 1)) : cut \in first}
    BY <1>5
  <1>8. {Fold(base) : base \in StripSubaddress(dir, text)}
           = {Fold(SubSeq(text, 1, cut - 1)) : cut \in first}
    BY <1>4
  <1>9. QED
    BY <1>6, <1>7, <1>8

----------------------------------------------------------------------------
\* Whoever may send as a local address receives what is sent to it, unless an
\* alias names its senders (owns_address against resolve).
THEOREM Senders == DrSpec => []SendersReceive
  <1>1. ASSUME Published PROVE SendersReceive
    <2> SUFFICES ASSUME NEW address \in DrAddresses, NEW account \in DrNames,
                        address.domain \in dir.domains, OwnsAddress(dir, account, address),
                        AddressKey(address) \in DOMAIN dir.accounts
                        \/ ~\E spec \in Get(dir.aliases, AddressKey(address)) : spec.senders # <<>>
                 PROVE  account \in Resolve(dir, address).to
      BY DEF SendersReceive
    <2> DEFINE key == AddressKey(address)
    <2>1. address.domain \notin DOMAIN dir.domainAliases
      BY <1>1, LocalNoAlias
    <2>2. AddressKey([local |-> address.local, domain |-> address.domain]) = key
      BY DEF AddressKey
    <2>3. CASE key \in DOMAIN dir.accounts
      BY <2>1, <2>2, <2>3 DEF Resolve, OwnsAddress, Account
    <2>4. CASE key \notin DOMAIN dir.accounts /\ key \in DOMAIN dir.aliases
      <3>1. Resolve(dir, address).to = Members(dir, dir.aliases[key].members)
        BY <2>1, <2>2, <2>4 DEF Resolve
      <3>2. dir.aliases[key].senders = <<>>
        BY <2>4 DEF Get
      <3>3. \E i \in 1 .. Len(dir.aliases[key].members) :
               account \in Get(dir.accounts, AddressKey(dir.aliases[key].members[i]))
        BY <2>4, <3>2 DEF OwnsAddress
      <3>4. QED
        BY <3>1, <3>3 DEF Members
    <2>5. CASE key \notin DOMAIN dir.accounts /\ key \notin DOMAIN dir.aliases
      BY <2>1, <2>2, <2>5 DEF Resolve, OwnsAddress, Account
    <2>6. QED
      BY <2>3, <2>4, <2>5
  <1>2. QED
    BY <1>1, AlwaysPublished, PTL
----------------------------------------------------------------------------
\* Directory::resolve in two steps: the keys an address asks for, and the
\* answer they get.
RealDomain(domain) ==
    IF domain \in DOMAIN dir.domainAliases THEN dir.domainAliases[domain] ELSE domain
Bases(local, domain) ==
    {AddressKey([local |-> base, domain |-> domain]) : base \in StripSubaddress(dir, local)}
Answer(key, bases, domain) ==
    IF domain \notin dir.domains THEN NotLocal
    ELSE IF key \in DOMAIN dir.accounts THEN Account(dir.accounts[key])
    ELSE IF key \in DOMAIN dir.aliases
    THEN [kind |-> "Alias", to |-> Members(dir, dir.aliases[key].members)]
    ELSE IF key \in DOMAIN dir.masked THEN Account(dir.masked[key])
    ELSE IF bases \cap DOMAIN dir.accounts # {}
    THEN Account(dir.accounts[CHOOSE base \in bases \cap DOMAIN dir.accounts : TRUE])
    ELSE IF domain \in DOMAIN dir.catchAll THEN Account(dir.catchAll[domain])
    ELSE UnknownUser

\* resolve depends on an address through those keys alone.
LEMMA ResolveAnswers ==
    \A address : Resolve(dir, address) =
        LET domain == RealDomain(address.domain)
        IN Answer(AddressKey([local |-> address.local, domain |-> domain]),
                  Bases(address.local, domain), domain)
  BY Zenon DEF Resolve, RealDomain, Bases, Answer

\* An address means the same in every case it is spelled in and at every alias
\* of its domain, and the address of an account is the account's (resolve).
THEOREM Blind == DrSpec => []ResolutionBlind
  <1>1. ASSUME Published PROVE ResolutionBlind
    <2> SUFFICES ASSUME NEW address \in DrAddresses
                 PROVE
        /\ Resolve(dir, [address EXCEPT !.local = Fold(address.local)]) = Resolve(dir, address)
        /\ \A target \in Get(dir.domainAliases, address.domain) :
              Resolve(dir, [address EXCEPT !.domain = target]) = Resolve(dir, address)
        /\ address.domain \in dir.domains /\ AddressKey(address) \in DOMAIN dir.accounts =>
              Resolve(dir, address) = Account(dir.accounts[AddressKey(address)])
      BY DEF ResolutionBlind
    <2>1. address.local \in Seq(Chars)
      BY AddressesAssumption DEF Chars
    <2>2. Resolve(dir, [address EXCEPT !.local = Fold(address.local)]) = Resolve(dir, address)
      <3> DEFINE other == [address EXCEPT !.local = Fold(address.local)]
                 domain == RealDomain(address.domain)
      <3>1. other.local = Fold(address.local) /\ other.domain = address.domain
        BY AddressesAssumption
      <3>2. AddressKey([local |-> Fold(address.local), domain |-> domain])
               = AddressKey([local |-> address.local, domain |-> domain])
        BY <2>1, FoldTwice DEF AddressKey
      <3>3. \A local : Bases(local, domain) = {[local |-> folded, domain |-> Fold(domain)] :
                          folded \in {Fold(base) : base \in StripSubaddress(dir, local)}}
        BY DEF AddressKey, Bases
      <3>4. Bases(Fold(address.local), domain) = Bases(address.local, domain)
        BY <1>1, <2>1, <3>3, StripFolded
      <3>5. /\ Resolve(dir, other) = Answer(AddressKey([local |-> other.local, domain |-> RealDomain(other.domain)]),
                 Bases(other.local, RealDomain(other.domain)), RealDomain(other.domain))
            /\ Resolve(dir, address) = Answer(AddressKey([local |-> address.local, domain |-> domain]),
                 Bases(address.local, domain), domain)
        BY ResolveAnswers
      <3>6. QED
        BY <3>1, <3>2, <3>4, <3>5
    <2>3. ASSUME NEW target \in Get(dir.domainAliases, address.domain)
          PROVE  Resolve(dir, [address EXCEPT !.domain = target]) = Resolve(dir, address)
      <3> DEFINE other == [address EXCEPT !.domain = target]
      <3>1. address.domain \in DOMAIN dir.domainAliases /\ target = dir.domainAliases[address.domain]
        BY DEF Get
      <3>2. other.local = address.local /\ other.domain = target
        BY AddressesAssumption
      <3>3. target \notin DOMAIN dir.domainAliases
        BY <1>1, <3>1, TargetsLocal, LocalNoAlias
      <3>4. QED
        BY <3>1, <3>2, <3>3 DEF Resolve
    <2>4. ASSUME address.domain \in dir.domains, AddressKey(address) \in DOMAIN dir.accounts
          PROVE  Resolve(dir, address) = Account(dir.accounts[AddressKey(address)])
      <3>1. address.domain \notin DOMAIN dir.domainAliases
        BY <1>1, <2>4, LocalNoAlias
      <3>2. QED
        BY <3>1, <2>4 DEF Resolve, AddressKey
    <2>5. QED
      BY <2>2, <2>3, <2>4
  <1>2. QED
    BY <1>1, AlwaysPublished, PTL
----------------------------------------------------------------------------
\* A login names at most one account (credentials).
LEMMA NamedOne ==
    ASSUME NEW login \in DrLogins, NEW a \in Named(dir, login), NEW b \in Named(dir, login)
    PROVE  a = b
  <1>1. CASE ~login.at
    BY <1>1 DEF Named
  <1>2. CASE login.at
    <2>1. \A x, y \in Parse(login) : x = y
      BY <1>2, OptionsAssumption, LoginsAssumption DEF Parse
    <2>2. \A x : Resolve(dir, x).kind = "Account" => \A u, v \in Resolve(dir, x).to : u = v
      <3> SUFFICES ASSUME NEW x, Resolve(dir, x).kind = "Account"
                   PROVE  \A u, v \in Resolve(dir, x).to : u = v
        OBVIOUS
      <3> DEFINE domain == RealDomain(x.domain)
      <3>1. Resolve(dir, x) = Answer(AddressKey([local |-> x.local, domain |-> domain]),
                                     Bases(x.local, domain), domain)
        BY ResolveAnswers
      <3>2. \A key, bases, real : Answer(key, bases, real).kind = "Account"
               => \E name : Answer(key, bases, real) = Account(name)
        <4> SUFFICES ASSUME NEW key, NEW bases, NEW real, Answer(key, bases, real).kind = "Account"
                     PROVE  \E name : Answer(key, bases, real) = Account(name)
          OBVIOUS
        <4>1. NotLocal.kind # "Account" /\ UnknownUser.kind # "Account"
          BY DEF NotLocal, UnknownUser
        <4>2. \A to : [kind |-> "Alias", to |-> to].kind # "Account"
          OBVIOUS
        <4>3. QED
          BY <4>1, <4>2, Zenon DEF Answer
      <3>3. QED
        BY <3>1, <3>2 DEF Account
    <2>3. PICK x \in Parse(login) : Resolve(dir, x).kind = "Account" /\ a \in Resolve(dir, x).to
      BY <1>2 DEF Named
    <2>4. PICK y \in Parse(login) : Resolve(dir, y).kind = "Account" /\ b \in Resolve(dir, y).to
      BY <1>2 DEF Named
    <2>5. QED
      BY <2>1, <2>2, <2>3, <2>4
  <1>3. QED
    BY <1>1, <1>2

\* A local secret proves an account of the login that is not disabled
\* (authenticate_local).
LEMMA LocalSound ==
    ASSUME NEW login, NEW password \in DrPasswords, NEW ip, NEW now,
           NEW account \in AuthenticateLocal(dir, login, password, ip, now)
    PROVE  /\ account \in Named(dir, login) /\ account \notin dir.disabled
           /\ OwnSecret(dir, account, password, ip, now)
  <1> DEFINE Primary(a) == IF a \in DOMAIN dir.totp
                           THEN TotpStrip(password, dir.totp[a], now) ELSE {password}
             App(a) == a \in DOMAIN dir.apps /\ \E app \in dir.apps[a] : Admits(app, password, ip, now)
  <1>1. PICK c \in Credentials(dir, login) :
           /\ c.account = account /\ c.account \notin dir.disabled
           /\ c.hash \in Primary(c.account) \/ App(c.account)
    BY DEF AuthenticateLocal
  <1>2. account \in Named(dir, login) /\ account \in DOMAIN dir.hashes /\ c.hash = dir.hashes[account]
    BY <1>1 DEF Credentials
  <1>3. OwnSecret(dir, account, password, ip, now)
    <2>1. CASE App(account)
      BY <2>1 DEF OwnSecret
    <2>2. CASE dir.hashes[account] \in Primary(account) /\ account \notin DOMAIN dir.totp
      BY <1>2, <2>2 DEF OwnSecret
    <2>3. CASE dir.hashes[account] \in Primary(account) /\ account \in DOMAIN dir.totp
      <3> DEFINE n == Len(password) - DrCodeLen
      <3>1. Len(password) \in Nat /\ DrCodeLen \in Nat
        BY PasswordsAssumption
      <3>2. /\ n >= 1 /\ dir.hashes[account] = SubSeq(password, 1, n)
            /\ TotpVerify(dir.totp[account], SubSeq(password, n + 1, Len(password)), now)
        BY <2>3, Zenon DEF TotpStrip
      <3>3. n \in 1 .. Len(password) /\ n + DrCodeLen = Len(password)
        BY <3>1, <3>2
      <3>4. QED
        BY <1>2, <2>3, <3>2, <3>3 DEF OwnSecret
    <2>4. QED
      BY <1>1, <1>2, <2>1, <2>2, <2>3
  <1>4. QED
    BY <1>1, <1>2, <1>3

\* A bind proves the account of the one entry the search put first
\* (LdapAuthenticator::authenticate).
LEMMA BindSound ==
    ASSUME NEW ldap, NEW login, NEW password, NEW account \in LdapAuthenticate(ldap, login, password)
    PROVE  /\ \E i \in 1 .. Len(ldap.entries) :
                 /\ ldap.up /\ ldap.entries[i].login = login /\ password # <<>>
                 /\ ldap.entries[i].password = password
                 /\ account \in EntryAccount(ldap.entries[i])
           /\ \A other \in LdapAuthenticate(ldap, login, password) : other = account
  <1> DEFINE Matches(i) == ldap.entries[i].login = login
             first == {i \in 1 .. Len(ldap.entries) : Matches(i) /\ \A j \in 1 .. i - 1 : ~Matches(j)}
  <1>1. /\ ldap.up /\ password # <<>>
        /\ LdapAuthenticate(ldap, login, password)
             = UNION {EntryAccount(ldap.entries[i]) :
                         i \in {k \in first : /\ ldap.entries[k].dn # <<>>
                                             /\ ldap.entries[k].password = password}}
    BY Zenon DEF LdapAuthenticate
  <1>2. \A i, j \in first : i = j
    <2> SUFFICES ASSUME NEW i \in first, NEW j \in first PROVE i = j
      OBVIOUS
    <2>1. Matches(i) /\ Matches(j) /\ i \in Int /\ j \in Int /\ 1 <= i /\ 1 <= j
      OBVIOUS
    <2>2. i \notin 1 .. j - 1 /\ j \notin 1 .. i - 1
      BY <2>1
    <2>3. QED
      BY <2>1, <2>2
  <1>3. \A entry : \A a, b \in EntryAccount(entry) : a = b
    BY DEF EntryAccount, FirstValue
  <1>4. PICK i \in first : ldap.entries[i].password = password /\ account \in EntryAccount(ldap.entries[i])
    BY <1>1
  <1>5. \A other \in LdapAuthenticate(ldap, login, password) : other \in EntryAccount(ldap.entries[i])
    BY <1>1, <1>2, <1>4
  <1>6. i \in 1 .. Len(ldap.entries) /\ Matches(i)
    BY <1>4
  <1>7. QED
    BY <1>1, <1>3, <1>4, <1>5, <1>6

\* What authenticates is one account, by a secret of its own or a bind at the
\* LDAP server, through a protocol it may use (authenticate_with_ip).
THEOREM Authenticated == DrSpec => []AuthenticationSound
  <1>1. ASSUME Published PROVE AuthenticationSound
    <2> SUFFICES ASSUME NEW login \in DrLogins, NEW password \in DrPasswords, NEW ip \in DrIps,
                        NEW protocol \in DrProtocols, NEW now \in DrTimes
                 PROVE
          LET found == Authenticate(dir, login, password, ip, protocol, now)
          IN /\ \A a, b \in found : a = b
             /\ \A account \in found :
                  /\ ProtocolAllowed(dir, account, protocol)
                  /\ \/ /\ account \in Named(dir, login) /\ account \notin dir.disabled
                        /\ OwnSecret(dir, account, password, ip, now)
                     \/ \E ldap \in dir.ldap : \E i \in 1 .. Len(ldap.entries) :
                           /\ ldap.up /\ ldap.entries[i].login = login /\ password # <<>>
                           /\ ldap.entries[i].password = password
                           /\ account \in EntryAccount(ldap.entries[i])
      BY DEF AuthenticationSound
    <2> DEFINE local == AuthenticateLocal(dir, login, password, ip, now)
               bound == UNION {LdapAuthenticate(ldap, login, password) : ldap \in dir.ldap}
               found == Authenticate(dir, login, password, ip, protocol, now)
    <2>1. \A a, b \in dir.ldap : a = b
      <3>1. PICK config \in DrConfigs : dir = Build(config)
        BY <1>1 DEF Published
      <3>2. QED
        BY <3>1, ConfigsAssumption DEF Valid, Build
    <2>2. \A account \in found :
             ProtocolAllowed(dir, account, protocol) /\ (account \in local \/ (local = {} /\ account \in bound))
      <3>1. found = {account \in IF local # {} THEN local ELSE bound : ProtocolAllowed(dir, account, protocol)}
        BY Zenon DEF Authenticate
      <3> HIDE DEF local, bound, found
      <3>2. QED
        BY <3>1
    <2>3. \A account \in local : /\ account \in Named(dir, login) /\ account \notin dir.disabled
                                 /\ OwnSecret(dir, account, password, ip, now)
      BY LocalSound
    <2>4. \A a, b \in local : a = b
      BY <2>3, NamedOne
    <2>5. ASSUME NEW account \in bound
          PROVE  \E ldap \in dir.ldap : \E i \in 1 .. Len(ldap.entries) :
                   /\ ldap.up /\ ldap.entries[i].login = login /\ password # <<>>
                   /\ ldap.entries[i].password = password
                   /\ account \in EntryAccount(ldap.entries[i])
      <3>1. PICK ldap \in dir.ldap : account \in LdapAuthenticate(ldap, login, password)
        OBVIOUS
      <3>2. QED
        BY <3>1, BindSound
    <2>6. \A a, b \in bound : a = b
      <3> SUFFICES ASSUME NEW a \in bound, NEW b \in bound PROVE a = b
        OBVIOUS
      <3>1. PICK ldap \in dir.ldap : a \in LdapAuthenticate(ldap, login, password)
        OBVIOUS
      <3>2. b \in LdapAuthenticate(ldap, login, password)
        BY <2>1
      <3>3. QED
        BY <3>1, <3>2, BindSound
    <2> HIDE DEF local, bound, found
    <2>7. \A a, b \in found : a = b
      BY <2>2, <2>4, <2>6
    <2>8. QED
      BY <2>2, <2>3, <2>5, <2>7 DEF found
  <1>2. QED
    BY <1>1, AlwaysPublished, PTL
----------------------------------------------------------------------------
\* Every address belongs to a configured account.
LEMMA OwnersNamed ==
  ASSUME Published, NEW key \in DOMAIN dir.accounts
  PROVE  dir.accounts[key] \in DrNames
  <1>1. PICK config \in DrConfigs : dir = Build(config)
    BY DEF Published
  <1> DEFINE pairs == config.addresses
             LastAt(k) == CHOOSE i \in DOMAIN pairs :
                           /\ AddressKey(pairs[i][1]) = k
                           /\ \A j \in DOMAIN pairs : AddressKey(pairs[j][1]) = k => j <= i
  <1>2. dir.accounts = Collect(pairs, AddressKey)
    BY <1>1 DEF Build
  <1>3. dir.accounts[key] = pairs[LastAt(key)][2] /\ key \in {AddressKey(pairs[i][1]) : i \in DOMAIN pairs}
    BY <1>2 DEF Collect
  <1>4. LastAt(key) \in DOMAIN pairs
    <2> DEFINE T == {i \in DOMAIN pairs : AddressKey(pairs[i][1]) = key}
    <2>1. T # {}
      BY <1>3
    <2>2. \E n \in Nat : DOMAIN pairs = 1 .. n
      BY ConfigsAssumption DEF Valid
    <2>3. \E i \in T : \A j \in T : j <= i
      BY <2>1, <2>2, LastExists
    <2>4. QED
      BY <2>3
  <1>5. QED
    BY <1>3, <1>4, ConfigsAssumption DEF Valid

\* A limit an account takes from a domain is that of a domain it has an
\* address in, and its own quota comes first (quota_for, submission_limit_for).
THEOREM Limits == DrSpec => []LimitsOwn
  <1>1. ASSUME Published PROVE LimitsOwn
    <2> SUFFICES ASSUME NEW account \in DrNames
                 PROVE
          LET Domains == {key.domain : key \in {k \in DOMAIN dir.accounts : dir.accounts[k] = account}}
              Found(map) == {map[domain] : domain \in Domains \cap DOMAIN map}
          IN /\ UNION SubmissionLimitFor(dir, account) = Found(dir.domainLimits)
             /\ Fold(account) \notin DOMAIN dir.accountQuotas =>
                   UNION QuotaFor(dir, account) = Found(dir.domainQuotas)
             /\ \A quota \in Get(dir.accountQuotas, Fold(account)) : QuotaFor(dir, account) = {{quota}}
             /\ {} \in QuotaFor(dir, account) => QuotaFor(dir, account) = {{}}
      BY DEF LimitsOwn
    <2> DEFINE own == {k \in DOMAIN dir.accounts : dir.accounts[k] = account}
               Domains == {key.domain : key \in own}
               Found(map) == {map[domain] : domain \in Domains \cap DOMAIN map}
               Walked(map) == {map[key.domain] : key \in {k \in own : k.domain \in DOMAIN map}}
    <2>1. AddressesFor(dir, account) = own
      BY <1>1, OwnersNamed, NamesAssumption DEF AddressesFor
    <2>2. \A map : Walked(map) = Found(map)
      OBVIOUS
    <2>3. \A map : FromDomains(dir, account, map) =
                     IF Found(map) = {} THEN {{}} ELSE {{value} : value \in Found(map)}
      <3> TAKE map
      <3> DEFINE found == {map[key.domain] : key \in {k \in AddressesFor(dir, account) : k.domain \in DOMAIN map}}
      <3>1. found = Walked(map)
        BY <2>1
      <3>2. found = Found(map)
        BY <2>2, <3>1
      <3>3. FromDomains(dir, account, map) = IF found = {} THEN {{}} ELSE {{value} : value \in found}
        BY Zenon DEF FromDomains
      <3> HIDE DEF found, Found
      <3>4. QED
        BY <3>2, <3>3
    <2> HIDE DEF Found
    <2>4. \A map : UNION FromDomains(dir, account, map) = Found(map)
      <3> TAKE map
      <3>1. CASE Found(map) = {}
        BY <2>3, <3>1
      <3>2. CASE Found(map) # {}
        <4>1. FromDomains(dir, account, map) = {{value} : value \in Found(map)}
          BY <2>3, <3>2
        <4>2. QED
          BY <4>1
      <3>3. QED
        BY <3>1, <3>2
    <2>5. \A map : {} \in FromDomains(dir, account, map) => FromDomains(dir, account, map) = {{}}
      BY <2>3
    <2>6. UNION SubmissionLimitFor(dir, account) = Found(dir.domainLimits)
      BY <2>4 DEF SubmissionLimitFor
    <2>7. CASE Fold(account) \in DOMAIN dir.accountQuotas
      <3>1. QuotaFor(dir, account) = {{dir.accountQuotas[Fold(account)]}}
        BY <2>7 DEF QuotaFor
      <3>2. {} \notin QuotaFor(dir, account)
        BY <3>1
      <3>3. QED
        BY <2>6, <2>7, <3>1, <3>2 DEF Get, Found
    <2>8. CASE Fold(account) \notin DOMAIN dir.accountQuotas
      <3>1. QuotaFor(dir, account) = FromDomains(dir, account, dir.domainQuotas)
        BY <2>8 DEF QuotaFor
      <3>2. QED
        BY <2>4, <2>5, <2>6, <2>8, <3>1 DEF Get, Found
    <2>9. QED
      BY <2>7, <2>8
  <1>2. QED
    BY <1>1, AlwaysPublished, PTL
----------------------------------------------------------------------------
(* SCRAM.  The inductive invariant: what ScramServer::first leaves in the  *)
(* server stays there until the exchange is over, and what was granted is  *)
(* what finish accepted.                                                   *)

Fields(message) == {message[i] : i \in 1 .. Len(message)}

\* What first leaves: the combined nonce ends in the server's own and opens the
\* server-first message, and the binding policy agreed to the GS2 flag.
Started(e) ==
    \E message \in ScFirsts : \E nonce \in Seq(ScChars) :
        /\ Len(message) >= 3
        /\ FlagHonoured(ScBinding[e], message[1])
        /\ server[e] = [nonce |-> ScNonce[e], binding |-> ScBinding[e],
                        bare |-> Bare(message), gs2 |-> Gs2(message),
                        combined |-> {nonce \o ScNonce[e]},
                        first |-> <<<<"r", nonce \o ScNonce[e]>>, <<"s", ScStored.salt>>,
                                    <<"i", ScStored.iterations>>>>]

Exchange(e) ==
    /\ phase[e] \in {"first", "final", "done"}
    /\ phase[e] = "first" => server[e] = NewServer(e)
    /\ phase[e] = "final" => Started(e)
    /\ phase[e] # "done" => granted[e] = {}
    /\ \A message \in granted[e] :
          message \in ScFinals /\ Started(e) /\ Finish(server[e], message, ScStored)

ScramInv ==
    /\ DOMAIN server = ScExchanges /\ DOMAIN phase = ScExchanges /\ DOMAIN granted = ScExchanges
    /\ \A e \in ScExchanges : Exchange(e)

\* ScramServer::first leaves a server as Started describes it.
LEMMA FirstStarts ==
  ASSUME NEW e \in ScExchanges, NEW message \in ScFirsts,
         NEW srv \in First(NewServer(e), message, ScStored)
  PROVE  \E nonce \in Seq(ScChars) :
           /\ Len(message) >= 3 /\ FlagHonoured(ScBinding[e], message[1])
           /\ srv = [nonce |-> ScNonce[e], binding |-> ScBinding[e],
                     bare |-> Bare(message), gs2 |-> Gs2(message),
                     combined |-> {nonce \o ScNonce[e]},
                     first |-> <<<<"r", nonce \o ScNonce[e]>>, <<"s", ScStored.salt>>,
                                 <<"i", ScStored.iterations>>>>]
  <1> DEFINE new == NewServer(e)
             nonce == CHOOSE r \in Tag(Bare(message), "r") : TRUE
             combined == nonce \o new.nonce
  <1>1. /\ Len(message) >= 3 /\ FlagHonoured(new.binding, message[1])
        /\ Tag(Bare(message), "r") # {}
        /\ srv = [new EXCEPT !.bare = Bare(message), !.combined = {combined}, !.gs2 = Gs2(message),
                         !.first = <<<<"r", combined>>, <<"s", ScStored.salt>>,
                                     <<"i", ScStored.iterations>>>>]
    BY Zenon DEF First
  <1>2. new.nonce = ScNonce[e] /\ new.binding = ScBinding[e]
    BY DEF NewServer
  <1>3. nonce \in Seq(ScChars)
    <2>1. nonce \in Tag(Bare(message), "r")
      BY <1>1
    <2>2. PICK j \in 1 .. Len(Bare(message)) : Bare(message)[j][1] = "r" /\ nonce = Bare(message)[j][2]
      BY <2>1 DEF Tag
    <2>3. message \in Seq(Fields(message))
      BY MessagesAssumption DEF Fields
    <2>4. j + 2 \in 1 .. Len(message) /\ Bare(message)[j] = message[j + 2]
      BY <1>1, <2>2, <2>3 DEF Bare
    <2>5. message[j + 2][1] = "r" /\ nonce = message[j + 2][2]
      BY <2>2, <2>4
    <2> HIDE DEF nonce
    <2>6. QED
      BY <2>4, <2>5, MessagesAssumption
  <1>4. srv = [nonce |-> ScNonce[e], binding |-> ScBinding[e],
               bare |-> Bare(message), gs2 |-> Gs2(message), combined |-> {combined},
               first |-> <<<<"r", combined>>, <<"s", ScStored.salt>>, <<"i", ScStored.iterations>>>>]
    BY <1>1 DEF NewServer
  <1>5. QED
    BY <1>1, <1>2, <1>3, <1>4

LEMMA ScramStep == ScramInv /\ [ScNext]_scVars => ScramInv'
  <1> SUFFICES ASSUME ScramInv, [ScNext]_scVars PROVE ScramInv'
    OBVIOUS
  <1>1. ASSUME NEW e \in ScExchanges, NEW message \in ScFirsts, ClientFirst(e, message)
        PROVE  ScramInv'
    <2>1. phase[e] = "first" /\ server[e] = NewServer(e) /\ granted[e] = {} /\ granted' = granted
      BY <1>1 DEF ClientFirst, ScramInv, Exchange
    <2> DEFINE started == UNION {First(server[e], message, c) : c \in ToCredentials(ScStored)}
    <2>2. CASE started = {}
      <3>1. phase' = [phase EXCEPT ![e] = "done"] /\ server' = server
        BY <1>1, <2>2, Zenon DEF ClientFirst
      <3>2. QED
        BY <2>1, <3>1 DEF ScramInv, Exchange, Started
    <2>3. CASE started # {}
      <3>1. PICK srv \in started : server' = [server EXCEPT ![e] = srv]
        BY <1>1, <2>3, Zenon DEF ClientFirst
      <3>2. phase' = [phase EXCEPT ![e] = "final"]
        BY <1>1, <2>3, Zenon DEF ClientFirst
      <3>3. srv \in First(NewServer(e), message, ScStored)
        BY <2>1, <3>1 DEF ToCredentials
      <3>4. DOMAIN server' = ScExchanges /\ DOMAIN phase' = ScExchanges /\ DOMAIN granted' = ScExchanges
        BY <2>1, <3>1, <3>2 DEF ScramInv
      <3>5. Exchange(e)'
        <4>1. server'[e] = srv /\ phase'[e] = "final" /\ granted'[e] = {}
          BY <2>1, <3>1, <3>2 DEF ScramInv
        <4>2. Started(e)'
          <5>1. PICK nonce \in Seq(ScChars) :
                   /\ Len(message) >= 3 /\ FlagHonoured(ScBinding[e], message[1])
                   /\ srv = [nonce |-> ScNonce[e], binding |-> ScBinding[e],
                             bare |-> Bare(message), gs2 |-> Gs2(message),
                             combined |-> {nonce \o ScNonce[e]},
                             first |-> <<<<"r", nonce \o ScNonce[e]>>, <<"s", ScStored.salt>>,
                                         <<"i", ScStored.iterations>>>>]
            BY <3>3, FirstStarts, Zenon
          <5>2. QED
            BY <4>1, <5>1, Zenon DEF Started
        <4>3. QED
          BY <4>1, <4>2 DEF Exchange
      <3>6. ASSUME NEW f \in ScExchanges, f # e PROVE Exchange(f)'
        <4>1. server'[f] = server[f] /\ phase'[f] = phase[f] /\ granted'[f] = granted[f]
          BY <2>1, <3>1, <3>2, <3>6 DEF ScramInv
        <4>2. QED
          BY <4>1 DEF ScramInv, Exchange, Started
      <3>7. QED
        BY <3>4, <3>5, <3>6 DEF ScramInv
    <2>4. QED
      BY <2>2, <2>3
  <1>2. ASSUME NEW e \in ScExchanges, NEW message \in ScFinals, ClientFinal(e, message)
        PROVE  ScramInv'
    <2>1. /\ phase[e] = "final" /\ granted[e] = {} /\ Started(e)
          /\ phase' = [phase EXCEPT ![e] = "done"] /\ server' = server
          /\ granted' = IF Finish(server[e], message, ScStored)
                        THEN [granted EXCEPT ![e] = {message}] ELSE granted
      BY <1>2 DEF ClientFinal, ScramInv, Exchange
    <2>2. DOMAIN server' = ScExchanges /\ DOMAIN phase' = ScExchanges /\ DOMAIN granted' = ScExchanges
      BY <2>1 DEF ScramInv
    <2>3. \A m \in granted'[e] : m = message /\ Finish(server[e], message, ScStored)
      <3>1. CASE Finish(server[e], message, ScStored)
        BY <2>1, <3>1 DEF ScramInv
      <3>2. CASE ~Finish(server[e], message, ScStored)
        BY <2>1, <3>2
      <3>3. QED
        BY <3>1, <3>2
    <2>4. Exchange(e)'
      <3>1. phase'[e] = "done" /\ Started(e)'
        BY <2>1 DEF ScramInv, Started
      <3>2. QED
        BY <2>1, <2>3, <3>1 DEF Exchange
    <2>5. ASSUME NEW f \in ScExchanges, f # e PROVE Exchange(f)'
      <3>1. server'[f] = server[f] /\ phase'[f] = phase[f] /\ granted'[f] = granted[f]
        BY <2>1, <2>5 DEF ScramInv
      <3>2. QED
        BY <3>1 DEF ScramInv, Exchange, Started
    <2>6. QED
      BY <2>2, <2>4, <2>5 DEF ScramInv
  <1>3. CASE UNCHANGED scVars
    BY <1>3 DEF scVars, ScramInv, Exchange, Started
  <1>4. QED
    BY <1>1, <1>2, <1>3 DEF ScNext

LEMMA ScramAlways == ScSpec => []ScramInv
  <1>1. ScInit => ScramInv
    BY DEF ScInit, ScramInv, Exchange
  <1>2. QED
    BY <1>1, ScramStep, PTL DEF ScSpec

\* The nonce a started exchange wants echoed ends in its own.
LEMMA StartedNonce ==
  ASSUME NEW e \in ScExchanges, Started(e)
  PROVE  \E nonce \in Seq(ScChars) : server[e].combined = {nonce \o ScNonce[e]}
  <1>1. PICK message \in ScFirsts, nonce \in Seq(ScChars) :
           server[e] = [nonce |-> ScNonce[e], binding |-> ScBinding[e],
                        bare |-> Bare(message), gs2 |-> Gs2(message),
                        combined |-> {nonce \o ScNonce[e]},
                        first |-> <<<<"r", nonce \o ScNonce[e]>>, <<"s", ScStored.salt>>,
                                    <<"i", ScStored.iterations>>>>]
    BY Zenon DEF Started
  <1>2. server[e].combined = {nonce \o ScNonce[e]}
    BY <1>1
  <1>3. QED
    BY <1>2

\* Where the parts of a joined sequence are found.
LEMMA JoinedLen ==
  ASSUME NEW S, NEW s \in Seq(S), NEW u \in Seq(S)
  PROVE  s \o u \in Seq(S) /\ Len(s \o u) = Len(s) + Len(u)
  OBVIOUS

LEMMA JoinedLeft ==
  ASSUME NEW S, NEW s \in Seq(S), NEW u \in Seq(S), NEW i \in 1 .. Len(s)
  PROVE  (s \o u)[i] = s[i]
  OBVIOUS

LEMMA JoinedRight ==
  ASSUME NEW S, NEW s \in Seq(S), NEW u \in Seq(S), NEW i \in 1 .. Len(u)
  PROVE  (s \o u)[Len(s) + i] = u[i]
  OBVIOUS

\* Two texts that end in different nonces of one length are different.
LEMMA NoncesDiffer ==
  ASSUME NEW e \in ScExchanges, NEW f \in ScExchanges, e # f,
         NEW x \in Seq(ScChars), NEW y \in Seq(ScChars)
  PROVE  x \o ScNonce[e] # y \o ScNonce[f]
  <1> SUFFICES ASSUME x \o ScNonce[e] = y \o ScNonce[f] PROVE FALSE
    OBVIOUS
  <1> DEFINE n == ScNonce[e]
             m == ScNonce[f]
  <1>1. n \in Seq(ScChars) /\ m \in Seq(ScChars) /\ Len(n) = Len(m) /\ n # m
    BY NoncesAssumption
  <1> HIDE DEF n, m
  <1>2. x \o n = y \o m
    BY DEF n, m
  <1>3. Len(x) + Len(n) = Len(y) + Len(m)
    <2>1. Len(x \o n) = Len(x) + Len(n)
      BY <1>1, JoinedLen
    <2>2. Len(y \o m) = Len(y) + Len(m)
      BY <1>1, JoinedLen
    <2>3. QED
      BY <1>2, <2>1, <2>2
  <1>4. Len(x) = Len(y)
    BY <1>1, <1>3
  <1>5. \A i \in 1 .. Len(n) : (x \o n)[Len(x) + i] = n[i] /\ (y \o m)[Len(y) + i] = m[i]
    BY <1>1
  <1>6. \A i \in 1 .. Len(n) : n[i] = m[i]
    BY <1>2, <1>4, <1>5
  <1>7. QED
    BY <1>1, <1>6

\* A client-final message serves one exchange: the nonce it echoes is this
\* exchange's own (finish).
THEOREM ServeOnce == ScSpec => []ProofsServeOnce
  <1>1. ASSUME ScramInv PROVE ProofsServeOnce
    <2> SUFFICES ASSUME NEW e \in ScExchanges, NEW f \in ScExchanges, e # f,
                        NEW message \in granted[e], message \in granted[f]
                 PROVE  FALSE
      BY DEF ProofsServeOnce
    <2>1. /\ Started(e) /\ Tag(message, "r") = server[e].combined
          /\ Started(f) /\ Tag(message, "r") = server[f].combined
      BY <1>1 DEF ScramInv, Exchange, Finish
    <2>2. PICK x \in Seq(ScChars) : server[e].combined = {x \o ScNonce[e]}
      BY <2>1, StartedNonce
    <2>3. PICK y \in Seq(ScChars) : server[f].combined = {y \o ScNonce[f]}
      BY <2>1, StartedNonce
    <2>4. QED
      BY <2>1, <2>2, <2>3, NoncesDiffer
  <1>2. QED
    BY <1>1, ScramAlways, PTL

\* Where the parts of an AuthMessage are found in it.
LEMMA AuthMessageParts ==
  ASSUME NEW S, NEW a \in Seq(S), NEW b \in Seq(S), NEW c \in Seq(S)
  PROVE  /\ Len((a \o b) \o c) = Len(a) + Len(b) + Len(c)
         /\ \A i \in 1 .. Len(b) : ((a \o b) \o c)[Len(a) + i] = b[i]
         /\ \A i \in 1 .. Len(c) : ((a \o b) \o c)[Len(a) + Len(b) + i] = c[i]
  <1> DEFINE d == a \o b
  <1>1. d \in Seq(S) /\ Len(d) = Len(a) + Len(b)
    BY JoinedLen
  <1>2. Len(a) \in Nat /\ Len(b) \in Nat /\ Len(c) \in Nat
    OBVIOUS
  <1>3. \A i \in 1 .. Len(b) : d[Len(a) + i] = b[i]
    BY JoinedRight
  <1> HIDE DEF d
  <1>4. Len(d \o c) = Len(a) + Len(b) + Len(c)
    <2>1. Len(d \o c) = Len(d) + Len(c)
      BY <1>1, JoinedLen, Zenon
    <2>2. QED
      BY <1>1, <2>1
  <1>5. \A i \in 1 .. Len(b) : (d \o c)[Len(a) + i] = b[i]
    <2> TAKE i \in 1 .. Len(b)
    <2>1. Len(a) + i \in 1 .. Len(d)
      BY <1>1, <1>2
    <2>2. QED
      BY <1>1, <1>3, <2>1, JoinedLeft
  <1>6. \A i \in 1 .. Len(c) : (d \o c)[Len(a) + Len(b) + i] = c[i]
    <2> TAKE i \in 1 .. Len(c)
    <2>1. (d \o c)[Len(d) + i] = c[i]
      BY <1>1, JoinedRight
    <2>2. QED
      BY <1>1, <2>1
  <1>7. QED
    BY <1>4, <1>5, <1>6 DEF d

\* An exchange is granted only to the account's key over this exchange, and
\* under a binding policy to a client that saw what the server offers
\* (finish, ChannelBinding).
THEOREM Granted == ScSpec => []GrantsProved
  <1>1. ASSUME ScramInv PROVE GrantsProved
    <2> SUFFICES ASSUME NEW e \in ScExchanges, NEW message \in granted[e]
                 PROVE
          \E proof \in Tag(message, "p") :
             /\ [hash |-> proof.key] = ScStored.storedKey
             /\ \E i \in 1 .. Len(proof.over) : proof.over[i] = <<"r", server[e].first[1][2]>>
             /\ ScBinding[e].kind # "Unsupported" =>
                   LET flag == IF ScBinding[e].kind = "Required" THEN Endpoint ELSE NoBinding
                       data == IF ScBinding[e].kind = "Required" THEN ScBinding[e].data ELSE ""
                   IN /\ server[e].gs2[1] = flag
                      /\ message[Len(message)][1] = "p" =>
                           \E i \in 1 .. Len(proof.over) :
                              proof.over[i] = <<"c", [header |-> server[e].gs2, data |-> data]>>
      BY Zenon DEF GrantsProved
    <2> DEFINE srv == server[e]
    <2>1. message \in ScFinals /\ Started(e) /\ Finish(srv, message, ScStored)
      BY <1>1 DEF ScramInv, Exchange
    <2>2. PICK opening \in ScFirsts, nonce \in Seq(ScChars) :
             /\ Len(opening) >= 3 /\ FlagHonoured(ScBinding[e], opening[1])
             /\ srv = [nonce |-> ScNonce[e], binding |-> ScBinding[e],
                       bare |-> Bare(opening), gs2 |-> Gs2(opening),
                       combined |-> {nonce \o ScNonce[e]},
                       first |-> <<<<"r", nonce \o ScNonce[e]>>, <<"s", ScStored.salt>>,
                                   <<"i", ScStored.iterations>>>>]
      BY <2>1, Zenon DEF Started
    <2>3. PICK proof \in Tag(message, "p") :
             /\ [hash |-> proof.key] = ScStored.storedKey
             /\ proof.over = AuthMessage(srv, message)
      BY <2>1 DEF Finish, ProofHolds
    <2> DEFINE bare == Bare(opening)
               first == <<<<"r", nonce \o ScNonce[e]>>, <<"s", ScStored.salt>>, <<"i", ScStored.iterations>>>>
               rest == WithoutProof(message)
               S == Fields(opening) \cup Fields(message) \cup {first[1], first[2], first[3]}
    <2>4. srv.bare = bare /\ srv.first = first /\ srv.gs2 = Gs2(opening) /\ srv.binding = ScBinding[e]
      BY <2>2
    <2>5. opening \in Seq(Fields(opening)) /\ message \in Seq(Fields(message))
      BY <2>1, MessagesAssumption DEF Fields
    <2>6. opening \in Seq(S) /\ message \in Seq(S)
      BY <2>5
    <2>7. PICK cut \in ProofAt(message) : rest = SubSeq(message, 1, cut - 1)
      BY <2>1 DEF Finish, ProofHolds, WithoutProof
    <2>8. /\ cut \in 2 .. Len(message) /\ message[cut][1] = "p"
          /\ \A j \in cut + 1 .. Len(message) : message[j][1] # "p"
      BY <2>7 DEF ProofAt
    <2>9. rest \in Seq(S) /\ Len(rest) = cut - 1 /\ \A i \in 1 .. cut - 1 : rest[i] = message[i]
      BY <2>6, <2>7, <2>8
    <2>10. bare \in Seq(S)
      BY <2>2, <2>6 DEF Bare
    <2>11. first \in Seq(S) /\ Len(first) = 3 /\ first[1] = <<"r", nonce \o ScNonce[e]>>
      OBVIOUS
    <2>12. first[1] = <<"r", first[1][2]>>
      OBVIOUS
    <2> HIDE DEF bare, first, rest, S
    <2>13. proof.over = (bare \o first) \o rest
      BY <2>3, <2>4 DEF AuthMessage, rest
    <2>15. /\ Len(proof.over) = Len(bare) + 3 + Len(rest)
           /\ proof.over[Len(bare) + 1] = first[1]
           /\ \A i \in 1 .. Len(rest) : proof.over[Len(bare) + 3 + i] = rest[i]
      <3> DEFINE over == (bare \o first) \o rest
      <3>1. bare \in Seq(S) /\ first \in Seq(S) /\ rest \in Seq(S)
        BY <2>9, <2>10, <2>11
      <3>2. /\ Len(over) = Len(bare) + Len(first) + Len(rest)
            /\ \A i \in 1 .. Len(first) : over[Len(bare) + i] = first[i]
            /\ \A i \in 1 .. Len(rest) : over[Len(bare) + Len(first) + i] = rest[i]
        BY <3>1, AuthMessageParts
      <3> HIDE DEF over
      <3>3. proof.over = over /\ Len(first) = 3 /\ 1 \in 1 .. 3
        BY <2>11, <2>13 DEF over
      <3>4. QED
        BY <3>2, <3>3
    <2>16. Len(bare) \in Nat /\ Len(rest) \in Nat
      BY <2>9, <2>10
    <2>17. \E i \in 1 .. Len(proof.over) : proof.over[i] = <<"r", srv.first[1][2]>>
      <3>1. Len(bare) + 1 \in 1 .. Len(proof.over) /\ proof.over[Len(bare) + 1] = first[1]
        BY <2>15, <2>16
      <3>2. QED
        BY <2>4, <2>12, <3>1
    <2>18. ASSUME ScBinding[e].kind # "Unsupported"
           PROVE  LET flag == IF ScBinding[e].kind = "Required" THEN Endpoint ELSE NoBinding
                      data == IF ScBinding[e].kind = "Required" THEN ScBinding[e].data ELSE ""
                  IN /\ srv.gs2[1] = flag
                     /\ message[Len(message)][1] = "p" =>
                          \E i \in 1 .. Len(proof.over) :
                             proof.over[i] = <<"c", [header |-> srv.gs2, data |-> data]>>
      <3> DEFINE flag == IF ScBinding[e].kind = "Required" THEN Endpoint ELSE NoBinding
                 data == IF ScBinding[e].kind = "Required" THEN ScBinding[e].data ELSE ""
      <3>1. srv.gs2[1] = flag
        <4>1. srv.gs2[1] = opening[1]
          BY <2>2, <2>4, <2>5 DEF Gs2
        <4>2. QED
          BY <2>2, <2>18, <4>1, BindingAssumption DEF FlagHonoured
      <3>2. ASSUME message[Len(message)][1] = "p"
            PROVE  \E i \in 1 .. Len(proof.over) :
                      proof.over[i] = <<"c", [header |-> srv.gs2, data |-> data]>>
        <4>1. Tag(message, "c") = {[header |-> srv.gs2, data |-> data]}
          BY <2>1, <2>4, <2>18 DEF Finish, BindingHolds, Expected
        <4>2. PICK j \in 1 .. Len(message) :
                 message[j][1] = "c" /\ message[j][2] = [header |-> srv.gs2, data |-> data]
          BY <4>1 DEF Tag
        <4>3. cut = Len(message) /\ j # cut
          <5>1. Len(message) \in Nat
            BY <2>5
          <5>2. message[cut][1] # message[j][1]
            BY <2>8, <4>2
          <5>3. Len(message) \notin cut + 1 .. Len(message)
            BY <2>8, <3>2
          <5>4. QED
            BY <2>8, <5>1, <5>2, <5>3
        <4>4. j \in 1 .. Len(rest) /\ rest[j] = message[j]
          <5>1. Len(message) \in Nat
            BY <2>5
          <5>2. j \in 1 .. cut - 1 /\ Len(rest) = cut - 1
            BY <2>9, <4>3, <5>1
          <5>3. QED
            BY <2>9, <5>2, Zenon
        <4>5. message[j] = <<"c", [header |-> srv.gs2, data |-> data]>>
          <5>1. message \in ScFirsts \cup ScFinals
            BY <2>1
          <5>2. \A i \in 1 .. Len(message) : message[i] = <<message[i][1], message[i][2]>>
            BY <5>1, MessagesAssumption, Zenon
          <5>3. message[j] = <<message[j][1], message[j][2]>>
            BY <5>2, Zenon
          <5>4. QED
            BY <4>2, <5>3, Zenon
        <4>6. /\ Len(bare) + 3 + j \in 1 .. Len(proof.over)
              /\ proof.over[Len(bare) + 3 + j] = message[j]
          BY <2>15, <2>16, <4>4
        <4>7. QED
          BY <4>5, <4>6
      <3>3. QED
        BY <3>1, <3>2
    <2>19. QED
      BY <2>3, <2>17, <2>18
  <1>2. QED
    BY <1>1, ScramAlways, PTL

\* Whatever the exchanges of any number of connections grant is proved by the
\* account's key over that exchange and granted once (ScramServer).
THEOREM Exchanges == ScSpec => []ScramCorrect
  <1>1. ProofsServeOnce /\ GrantsProved => ScramCorrect
    BY DEF ScramCorrect
  <1>2. QED
    BY <1>1, ServeOnce, Granted, PTL

\* Whatever configuration was published last, the directory's answers agree
\* with each other and with who may do what (smtp/directory.rs).
THEOREM Answers == DrSpec => []DirectoryCorrect
  <1>1. SendersReceive /\ ResolutionBlind /\ AuthenticationSound /\ LimitsOwn => DirectoryCorrect
    BY DEF DirectoryCorrect
  <1>2. QED
    BY <1>1, Senders, Blind, Authenticated, Limits, PTL

----------------------------------------------------------------------------
(* DKIM rotation.                                                          *)

DkSelectors == 0 .. DkHorizon
DkRetiring == [selector : DkSelectors \cup {NoSelector}, retire_at : Nat]
DkStates == [selector : DkSelectors \cup {NoSelector}, rotated_at : 0 .. DkHorizon,
             previous : DkRetiring]

DkTypes ==
  /\ dkDay \in 1 .. DkHorizon /\ dkState \in DkStates /\ dkNew \in DkStates
  /\ dkLive \in [selector : DkSelectors, rsa : BOOLEAN]
  /\ dkTxt \subseteq DkSelectors /\ dkFiles \subseteq DkSelectors
  /\ dkOld \in DkSelectors \cup {NoSelector}
  /\ dkPc \in {"idle", "upsert", "reload", "save", "saveRetired", "unlink"}
  /\ dkSigned \subseteq DkSelectors \X (1 .. DkHorizon)

\* Mail in transit was signed within the overlap, with a key still published; the
\* configured key is never taken down, since a restart returns to it.
DkTransit ==
  /\ \A m \in dkSigned : m[1] \in dkTxt /\ m[2] <= dkDay /\ dkDay < m[2] + DkOverlap
  /\ Configured \in dkTxt \cap dkFiles
  /\ dkLive.selector \in dkTxt \cap dkFiles

\* The selector a state file is about to retire is nobody's any more: not the signer's, not
\* the active one, and no mail signed with it is in transit when its time comes.
DkRetires(state) ==
  /\ state.selector # Configured
  /\ state.selector # NoSelector => state.selector \in dkFiles
  /\ state.previous # NoPrevious =>
        /\ state.previous.selector \in dkFiles \ {Configured, state.selector, dkLive.selector}
        /\ \A m \in dkSigned : m[1] = state.previous.selector => m[2] + DkOverlap <= state.previous.retire_at

\* What the tick holds at each of its steps.
DkTicking ==
  /\ dkPc \in {"upsert", "reload", "save"} =>
        /\ dkNew.selector = dkDay /\ dkDay \in dkFiles
        /\ dkDay \notin {dkState.selector, dkState.previous.selector}
        /\ dkNew.previous # NoPrevious =>
              dkNew.previous = [selector |-> dkState.selector, retire_at |-> dkDay + DkOverlap]
        /\ dkState.selector = NoSelector => dkNew.previous = NoPrevious
  /\ dkPc \in {"reload", "save"} => dkDay \in dkTxt
  /\ dkPc = "save" => dkLive.selector = dkDay
  /\ dkPc = "saveRetired" => /\ dkNew = [dkState EXCEPT !.previous = NoPrevious]
                             /\ dkState.previous # NoPrevious /\ dkOld = dkState.previous.selector
  /\ dkPc = "unlink" => /\ dkState.previous = NoPrevious
                        /\ dkOld \notin {Configured, dkState.selector, dkLive.selector}

DkInv == DkTypes /\ DkTransit /\ DkRetires(dkState) /\ DkTicking

LEMMA DkStarts == DkInit => DkInv
  BY DkAssumption DEF DkInit, DkInv, DkTypes, DkTransit, DkRetires, DkTicking, DkStates, DkRetiring,
     DkSelectors, RotationState, NoPrevious, NoSelector, Configured, StartSigner

LEMMA DkKeeps == DkInv /\ [DkNext]_dkVars => DkInv'
  <1> SUFFICES ASSUME DkInv, [DkNext]_dkVars PROVE DkInv'
    OBVIOUS
  <1> USE DkAssumption DEF DkInv, DkTypes, DkTransit, DkRetires, DkTicking, DkStates, DkRetiring,
     DkSelectors, RotationState, NoPrevious, NoSelector, Configured, StartSigner
  <1>1. CASE TickRotate
    BY <1>1 DEF TickRotate, WriteKey, SelectorFor
  <1>2. CASE UpsertTxt
    BY <1>2 DEF UpsertTxt
  <1>3. CASE Reload
    BY <1>3 DEF Reload
  <1>4. CASE SaveState
    BY <1>4 DEF SaveState
  <1>5. CASE TickRetire
    BY <1>5 DEF TickRetire, Decide
  <1>6. CASE UnlinkKey
    BY <1>6 DEF UnlinkKey
  <1>7. CASE Sign
    BY <1>7 DEF Sign
  <1>8. CASE Restart
    BY <1>8 DEF Restart
  <1>9. CASE Day
    BY <1>9 DEF Day
  <1>10. CASE UNCHANGED dkVars
    BY <1>10 DEF dkVars
  <1> QED
    BY <1>1, <1>2, <1>3, <1>4, <1>5, <1>6, <1>7, <1>8, <1>9, <1>10 DEF DkNext

\* A key is published before it signs and stays published until the last mail
\* signed with it has arrived, whatever fails and whenever the service
\* restarts, when the overlap is at least a day (dkim/rotate.rs, tick).
THEOREM Rotates == DkSpec => []DkimCorrect
  <1>1. DkInv => DkimCorrect
    BY DkAssumption DEF DkInv, DkTypes, DkTransit, DkRetires, DkimCorrect, DkTypeOK, SignaturesVerify,
       LiveIsPublished, KeysInUseKept, DkStates, DkSelectors, NoSelector
  <1>2. QED
    BY <1>1, DkStarts, DkKeeps, PTL DEF DkSpec

----------------------------------------------------------------------------
(* Certificate renewal.                                                    *)

AcAll == {AcDomains[i] : i \in DOMAIN AcDomains}
AcSteps == {"idle", "connect", "register", "order", "publish", "respond", "validate", "order?",
            "download", "cert", "key", "reload", "tlsa"}

AcTypes ==
  /\ acDay \in 0 .. AcHorizon /\ acPc \in AcSteps
  /\ acAt \in 1 .. Len(AcDomains) + 1 /\ acLeft \in 0 .. AcPoll
  /\ acNonce \in {"fresh", "spent", "none"} /\ acKid \in BOOLEAN
  /\ acServed \subseteq AcAll /\ acKeys \in Nat /\ acAccount \in Nat
  /\ acCert \in [id : -2 .. AcMaxCerts, written : 0 .. AcHorizon]
  /\ acIssued \in 0 .. AcMaxCerts /\ acKey \in -2 .. acIssued
  /\ acLive \in [id : 0 .. acIssued, ca : BOOLEAN]
  /\ acChain \in -1 .. acIssued

\* The account key is on disk before any request is signed with it.
AcAccountHeld ==
  /\ acPc # "idle" => acAccount # 0
  /\ acAccounts \subseteq {acAccount} /\ (acAccount = 0 => acAccounts = {})

\* Between the download and the reload the chain is the last certificate issued or no
\* certificate, and key.pem never lags behind what is served.
AcChainHeld ==
  /\ acPc \in {"cert", "key", "reload"} => acChain \in {Problem, acIssued}
  /\ acPc = "reload" => acKey = acIssued
  /\ acLive.id # 0 => acLive.id <= acKey

\* A challenge is published before the authority is told, and none that was found valid is
\* taken down while the order is open.
AcChallengesHeld ==
  /\ acPc \in {"respond", "validate"} => acAt <= Len(AcDomains) /\ AcDomains[acAt] \in acServed
  /\ acPc \in {"publish", "respond", "validate", "order?", "download"} => acValid \subseteq acServed

AcInv == AcTypes /\ AcAccountHeld /\ AcChainHeld /\ AcChallengesHeld

LEMMA AcNumbered ==
  /\ AcDomains \in Seq(AcAll) /\ Len(AcDomains) \in Nat /\ DOMAIN AcDomains = 1 .. Len(AcDomains)
  /\ AcPoll \in Nat /\ AcLifetime \in Nat /\ AcBefore \in Nat /\ AcHorizon \in Nat
  /\ AcMaxCerts \in Nat /\ AcClientCa \in BOOLEAN
  BY AcAssumption DEF AcAll

LEMMA AcStarts == AcInit => AcInv
  <1> SUFFICES ASSUME AcInit PROVE AcInv
    OBVIOUS
  <1> USE AcNumbered DEF AcInit, Problem, NoCert, Bootstrap
  <1>1. acLive \in [id : 0 .. acIssued, ca : BOOLEAN] /\ acCert \in [id : -2 .. AcMaxCerts, written : 0 .. AcHorizon]
    OBVIOUS
  <1>2. acKey \in -2 .. acIssued /\ acChain \in -1 .. acIssued /\ acIssued \in 0 .. AcMaxCerts
    OBVIOUS
  <1>4. /\ acAt \in 1 .. Len(AcDomains) + 1 /\ acLeft \in 0 .. AcPoll /\ acDay \in 0 .. AcHorizon
        /\ acPc \in AcSteps
    BY DEF AcSteps
  <1>5. AcTypes
    BY <1>1, <1>2, <1>4 DEF AcTypes
  <1>3. AcAccountHeld /\ AcChainHeld /\ AcChallengesHeld
    BY DEF AcAccountHeld, AcChainHeld, AcChallengesHeld
  <1> QED
    BY <1>3, <1>5 DEF AcInv

LEMMA AcKeeps == AcInv /\ [AcNext]_acVars => AcInv'
  <1> SUFFICES ASSUME AcInv, [AcNext]_acVars PROVE AcInv'
    OBVIOUS
  <1> USE AcNumbered DEF AcInv, AcTypes, AcSteps, AcAccountHeld, AcChainHeld,
     AcChallengesHeld, Problem, NoCert, Bootstrap, acClient, acCa, acDisk, acService, Fail, Post,
     Outcomes
  <1>1. CASE LoadAccountKey
    <2>0. acKeys' \in Nat /\ acAccount' \in Nat
      BY <1>1 DEF LoadAccountKey
    <2>1. AcTypes'
      BY <1>1, <2>0 DEF LoadAccountKey
    <2>2. AcAccountHeld'
      BY <1>1 DEF LoadAccountKey
    <2>3. AcChainHeld'
      BY <1>1 DEF LoadAccountKey
    <2>4. AcChallengesHeld'
      BY <1>1 DEF LoadAccountKey
    <2> QED
      BY <2>1, <2>2, <2>3, <2>4
  <1>2. CASE Connect
    BY <1>2 DEF Connect
  <1>3. CASE Register
    BY <1>3 DEF Register
  <1>4. CASE NewOrder
    BY <1>4 DEF NewOrder
  <1>5. CASE PublishChallenge
    BY <1>5 DEF PublishChallenge, Http01Set, Dns01Set, Alpn01Set, AcAll
  <1>6. CASE RespondChallenge
    BY <1>6 DEF RespondChallenge
  <1>7. CASE PollAuthorization
    <2>1. AcTypes'
      BY <1>7 DEF PollAuthorization, ChallengeServed
    <2>2. AcAccountHeld'
      BY <1>7 DEF PollAuthorization, ChallengeServed
    <2>3. AcChainHeld'
      BY <1>7 DEF PollAuthorization, ChallengeServed
    <2>4. AcChallengesHeld'
      BY <1>7 DEF PollAuthorization, ChallengeServed
    <2> QED
      BY <2>1, <2>2, <2>3, <2>4
  <1>8. CASE Finalize
    BY <1>8 DEF Finalize
  <1>9. CASE PollOrder
    <2>1. AcTypes'
      BY <1>9 DEF PollOrder, OrderStatus
    <2>2. AcAccountHeld'
      BY <1>9 DEF PollOrder, OrderStatus
    <2>3. AcChainHeld'
      BY <1>9 DEF PollOrder, OrderStatus
    <2>4. AcChallengesHeld'
      BY <1>9 DEF PollOrder, OrderStatus
    <2> QED
      BY <2>1, <2>2, <2>3, <2>4
  <1>10. CASE Download
    <2>1. AcTypes'
      BY <1>10 DEF Download
    <2>2. AcAccountHeld'
      BY <1>10 DEF Download
    <2>3. AcChainHeld'
      BY <1>10 DEF Download
    <2>4. AcChallengesHeld'
      BY <1>10 DEF Download
    <2> QED
      BY <2>1, <2>2, <2>3, <2>4
  <1>11. CASE PersistCert
    BY <1>11 DEF PersistCert
  <1>12. CASE PersistKey
    BY <1>12 DEF PersistKey
  <1>13. CASE ReloadAcceptor
    <2>0. acLive' \in [id : 0 .. acIssued, ca : BOOLEAN]
      <3>1. CASE acChain # Problem /\ acLive' = [id |-> acChain, ca |-> FALSE]
        <4>1. acChain \in 0 .. acIssued
          BY <3>1
        <4> QED
          BY <3>1, <4>1
      <3>2. CASE UNCHANGED acLive
        BY <3>2
      <3> QED
        BY <1>13, <3>1, <3>2 DEF ReloadAcceptor
    <2>1. AcTypes'
      BY <1>13, <2>0 DEF ReloadAcceptor
    <2>2. AcAccountHeld'
      BY <1>13 DEF ReloadAcceptor
    <2>3. AcChainHeld'
      BY <1>13 DEF ReloadAcceptor
    <2>4. AcChallengesHeld'
      BY <1>13 DEF ReloadAcceptor
    <2> QED
      BY <2>1, <2>2, <2>3, <2>4
  <1>14. CASE PublishTlsa
    <2>1. AcTypes'
      BY <1>14 DEF PublishTlsa
    <2>2. AcAccountHeld'
      BY <1>14 DEF PublishTlsa
    <2>3. AcChainHeld'
      BY <1>14 DEF PublishTlsa
    <2>4. AcChallengesHeld'
      BY <1>14 DEF PublishTlsa
    <2> QED
      BY <2>1, <2>2, <2>3, <2>4
  <1>15. CASE AcRestart
    BY <1>15 DEF AcRestart
  <1>16. CASE AcDayPasses
    BY <1>16 DEF AcDayPasses
  <1>17. CASE UNCHANGED acVars
    BY <1>17 DEF acVars
  <1> QED
    BY <1>1, <1>2, <1>3, <1>4, <1>5, <1>6, <1>7, <1>8, <1>9, <1>10, <1>11, <1>12, <1>13, <1>14,
       <1>15, <1>16, <1>17 DEF AcNext

\* Through failures and restarts there is one account per account key file, the
\* certificate served has its key on disk, and a challenge is answered when the
\* authority is told to look (acme/renew.rs, run
\* and issue).
THEOREM Renews == AcSpec => []CertificatesCorrect
  <1>1. AcInv => CertificatesCorrect
    <2> SUFFICES ASSUME AcInv PROVE CertificatesCorrect
      OBVIOUS
    <2>1. AcTypeOK /\ ServiceHoldsCertificate /\ ChallengesAnswered
      BY AcNumbered DEF AcInv, AcTypes, AcAll, AcChainHeld, AcChallengesHeld, AcTypeOK,
         ServiceHoldsCertificate, ChallengesAnswered
    <2>2. Cardinality(acAccounts) <= 1
      <3>1. IsFiniteSet({acAccount}) /\ Cardinality({acAccount}) = 1
        BY FS_Singleton
      <3>2. acAccounts \subseteq {acAccount}
        BY DEF AcInv, AcAccountHeld
      <3> QED
        BY <3>1, <3>2, FS_Subset
    <2>3. OneAccount
      BY <2>2 DEF AcInv, AcAccountHeld, OneAccount
    <2> QED
      BY <2>1, <2>3 DEF CertificatesCorrect
  <1>2. QED
    BY <1>1, AcStarts, AcKeeps, PTL DEF AcSpec

----------------------------------------------------------------------------
(* The transport of an outgoing message.                                   *)

TpBefore == {"idle", "policy", "fetch", "route", "relay", "mx", "tlsa"}
TpClear == {"greeting", "ehlo", "starttls", "handshake"}
TpOpen == {"ehlo2", "auth", "mail", "rcpt", "data", "body"}
TpEnds == {"retry", "dropped", "delivered"}
TpReply == [code : Int, over : BOOLEAN]

\* The fields of an attempt.
TpFields == {"pc", "domain", "sender", "reqtls", "policy", "duty", "rule", "host", "tlsa", "tls",
             "peer", "buffer", "offered", "accepted", "cause"}
TpShape(j) == j = [f \in TpFields |-> j[f]]

\* How many recipients were accepted, and why a message is given up.
TpCounts(j) ==
  /\ j.pc \in TpBefore \cup TpClear \cup TpOpen \cup TpEnds
  /\ j.domain \in TpDomains \cup {<<>>} /\ (j.pc # "idle" => j.domain \in TpDomains)
  /\ j.accepted \in 0 .. TpRecipients
  /\ j.pc \in TpBefore \cup TpClear \cup {"ehlo2", "auth", "mail"} => j.accepted = 0
  /\ j.pc = "rcpt" => j.accepted < TpRecipients
  /\ j.pc \in {"data", "body", "delivered"} => j.accepted = TpRecipients
  /\ j.pc = "dropped" => j.cause \in {"refused", "rule", "socks", "no TLS for AUTH"}

\* Replies read but not yet taken came over the connection as it is.
TpBuffered(j) ==
  /\ j.tls \in BOOLEAN /\ j.buffer \in Seq(TpReply)
  /\ j.tls => \A i \in DOMAIN j.buffer : j.buffer[i].over
  /\ j.pc \in TpBefore \cup TpClear => ~j.tls

\* Where the attempt goes: to a validated smarthost without TLSA records, or to an exchanger
\* the policy of the domain permits; the policy followed is the one the domain made known.
TpRouted(j) ==
  /\ j.duty.mode = "Enforce" => j.policy = j.duty
  /\ j.pc \in TpBefore => j.tlsa = {}
  /\ j.pc \in {"mx", "tlsa"} => j.rule = NoRule
  /\ j.pc = "relay" => j.rule.kind = "Relay" /\ ValidRule(j.rule)
  /\ j.pc \in TpClear \cup TpOpen =>
        j.rule = NoRule \/ (j.rule.kind = "Relay" /\ ValidRule(j.rule) /\ j.tlsa = {})
  /\ (j.pc \in TpClear \cup TpOpen \cup {"tlsa"} /\ j.rule = NoRule /\ j.policy.mode = "Enforce") =>
        PermitsMx(j.policy, j.host)

TpRequired(j) ==
  IF j.rule.kind = "Relay" THEN j.rule.starttls ELSE j.policy.mode = "Enforce" \/ j.reqtls

\* Once the dialogue is past STARTTLS, TLS that is required is in use, and the peer has shown
\* what it had to.
TpSecured(j) ==
  j.pc \in TpOpen =>
    /\ TpRequired(j) \/ j.tlsa # {} => j.tls
    /\ j.tls => /\ TpRequired(j) => j.peer.pkix
                /\ j.tlsa # {} => \E r \in j.tlsa : \E i \in DOMAIN j.peer.chain :
                      MatchesCert(r, j.peer.chain[i]) /\ (r.usage \in {1, 3} => i = 1)

TpJobInv(j) == TpShape(j) /\ TpCounts(j) /\ TpBuffered(j) /\ TpRouted(j) /\ TpSecured(j)

TpKnown ==
  /\ tpNow \in 1 .. TpHorizon /\ tpLearned = tpCache
  /\ tpCache = [d \in TpDomains |-> [policy |-> tpCache[d].policy, expiry |-> tpCache[d].expiry]]
  /\ \A d \in TpDomains : tpCache[d].expiry \in 0 .. TpHorizon + TpMaxCache + TpNegativeTtl

TpInv == TpKnown /\ TpJobInv(tpJob) /\ MandatedTlsKept

----------------------------------------------------------------------------
LEMMA TpNumbers ==
  /\ TpHorizon \in Nat /\ 0 < TpHorizon /\ TpRecipients \in Nat /\ 0 < TpRecipients
  /\ TpMaxCache \in Nat /\ TpNegativeTtl \in Nat
  BY TpAssumption

\* A conversation that ends is harmless wherever it ends.
LEMMA TpEnding ==
  ASSUME NEW j, TpJobInv(j), j.pc # "idle", NEW why, NEW end \in {"retry", "dropped"},
         end = "dropped" => why \in {"refused", "rule", "socks", "no TLS for AUTH"}
  PROVE  TpJobInv([j EXCEPT !.pc = end, !.cause = why])
  <1> DEFINE k == [j EXCEPT !.pc = end, !.cause = why]
  <1>1. /\ TpShape(k) /\ k.pc = end /\ k.cause = why /\ k.domain = j.domain
        /\ k.accepted = j.accepted /\ k.tls = j.tls /\ k.buffer = j.buffer /\ k.duty = j.duty
        /\ k.policy = j.policy
    BY DEF TpJobInv, TpShape, TpFields
  <1> HIDE DEF k
  <1>2. TpCounts(k) /\ TpBuffered(k) /\ TpRouted(k) /\ TpSecured(k)
    BY <1>1 DEF TpJobInv, TpCounts, TpBuffered, TpRouted, TpSecured, TpBefore, TpClear, TpOpen,
       TpEnds
  <1>3. TpJobInv(k)
    BY <1>1, <1>2 DEF TpJobInv
  <1> QED
    BY <1>3 DEF k

LEMMA TpReads ==
  ASSUME TpJobInv(tpJob), NEW pc \in DOMAIN ExpectedReply, NEW reply \in ReadReply(pc)
  PROVE  /\ reply.code \in Int /\ reply.rest \in Seq(TpReply)
         /\ tpJob.tls => \A i \in DOMAIN reply.rest : reply.rest[i].over
  <1>0. tpJob.buffer \in Seq(TpReply) /\ tpJob.tls \in BOOLEAN
         /\ (tpJob.tls => \A i \in DOMAIN tpJob.buffer : tpJob.buffer[i].over)
    BY DEF TpJobInv, TpBuffered
  <1>1. CASE tpJob.buffer # <<>>
    <2>1. reply.code = Head(tpJob.buffer).code /\ reply.rest = Tail(tpJob.buffer)
      BY <1>1 DEF ReadReply
    <2>2. /\ tpJob.buffer \in Seq(TpReply) /\ Head(tpJob.buffer) \in TpReply
          /\ Tail(tpJob.buffer) \in Seq(TpReply)
          /\ \A i \in DOMAIN Tail(tpJob.buffer) :
                i + 1 \in DOMAIN tpJob.buffer /\ Tail(tpJob.buffer)[i] = tpJob.buffer[i + 1]
      BY <1>0, <1>1
    <2> QED
      BY <1>0, <2>1, <2>2 DEF TpReply
  <1>2. CASE tpJob.buffer = <<>>
    <2>1. reply.code \in Int /\ reply.rest \in {<<>>, <<[code |-> 250, over |-> tpJob.tls]>>}
      BY <1>2 DEF ReadReply, ExpectedReply, Replies
    <2>2. [code |-> 250, over |-> tpJob.tls] \in TpReply
      BY <1>0 DEF TpReply
    <2>3. CASE reply.rest = <<>>
      BY <2>1, <2>3
    <2>4. CASE reply.rest = <<[code |-> 250, over |-> tpJob.tls]>>
      BY <2>1, <2>2, <2>4
    <2> QED
      BY <2>1, <2>3, <2>4
  <1> QED
    BY <1>1, <1>2

LEMMA TpTakes ==
  ASSUME NEW j, TpJobInv(j), NEW rest \in Seq(TpReply), j.tls => \A i \in DOMAIN rest : rest[i].over
  PROVE  TpJobInv([j EXCEPT !.buffer = rest])
  <1> DEFINE k == [j EXCEPT !.buffer = rest]
  <1>1. /\ TpShape(k) /\ k.pc = j.pc /\ k.cause = j.cause /\ k.domain = j.domain
        /\ k.accepted = j.accepted /\ k.tls = j.tls /\ k.buffer = rest /\ k.duty = j.duty
        /\ k.policy = j.policy /\ k.rule = j.rule /\ k.tlsa = j.tlsa /\ k.host = j.host
        /\ k.peer = j.peer /\ k.reqtls = j.reqtls
    BY DEF TpJobInv, TpShape, TpFields
  <1> HIDE DEF k
  <1>2. TpCounts(k)
    BY <1>1 DEF TpJobInv, TpCounts
  <1>3. TpBuffered(k)
    BY <1>1 DEF TpJobInv, TpBuffered
  <1>4. TpRouted(k)
    BY <1>1 DEF TpJobInv, TpRouted
  <1>5. TpSecured(k)
    BY <1>1 DEF TpJobInv, TpSecured, TpRequired
  <1>6. TpJobInv(k)
    BY <1>1, <1>2, <1>3, <1>4, <1>5 DEF TpJobInv
  <1> QED
    BY <1>6 DEF k

\* A command goes on as `then`, or the conversation ends; what it disclosed was protected.
LEMMA TpCommand ==
  ASSUME TpInv, NEW pc \in DOMAIN ExpectedReply, NEW then, TpJobInv(then),
         then.tls = tpJob.tls, Command(pc, then), pc = "auth" => tpJob.rule.auth /\ tpJob.tls
  PROVE  TpInv'
  <1> PICK reply \in ReadReply(pc) :
         IF reply.code # ExpectedReply[pc] THEN Refused(reply.code)
         ELSE Step([then EXCEPT !.buffer = reply.rest])
    BY DEF Command
  <1>1. TpJobInv(tpJob) /\ tpJob.pc = pc /\ tpJob.pc # "idle"
    BY DEF TpInv, Command, At, ExpectedReply
  <1>2. reply.code \in Int /\ reply.rest \in Seq(TpReply)
         /\ (tpJob.tls => \A i \in DOMAIN reply.rest : reply.rest[i].over)
    BY <1>1, TpReads
  <1>3. TpJobInv(tpJob')
    <2>1. CASE Refused(reply.code)
      <3>1. CASE Drop("refused")
        <4>1. TpJobInv([tpJob EXCEPT !.pc = "dropped", !.cause = "refused"])
          BY <1>1, TpEnding
        <4> QED
          BY <3>1, <4>1 DEF Drop, Step
      <3>2. ASSUME NEW why, Retry(why) PROVE TpJobInv(tpJob')
        <4>1. TpJobInv([tpJob EXCEPT !.pc = "retry", !.cause = why])
          BY <1>1, TpEnding
        <4> QED
          BY <3>2, <4>1 DEF Retry, Step
      <3> QED
        BY <2>1, <3>1, <3>2 DEF Refused
    <2>2. CASE Step([then EXCEPT !.buffer = reply.rest])
      <3>1. TpJobInv([then EXCEPT !.buffer = reply.rest])
        BY <1>2, TpTakes
      <3> QED
        BY <2>2, <3>1 DEF Step
    <2> QED
      BY <2>1, <2>2
  <1>4. TpKnown'
    BY DEF TpInv, TpKnown, Command, OnlyJob
  <1>5. MandatedTlsKept'
    <2> SUFFICES ASSUME NEW x \in tpSent'
                 PROVE  /\ x.direct /\ x.duty.mode = "Enforce" =>
                              x.tls /\ x.peer.pkix /\ PermitsMx(x.duty, x.host)
                        /\ x.direct /\ x.reqtls => x.tls /\ x.peer.pkix
                        /\ x.tlsa # {} => x.tls /\ \E r \in x.tlsa :
                              \E i \in DOMAIN x.peer.chain :
                                MatchesCert(r, x.peer.chain[i]) /\ (r.usage \in {1, 3} => i = 1)
                        /\ x.what = "credentials" => x.tls /\ x.peer.pkix
      BY DEF MandatedTlsKept
    <2>1. CASE x \in tpSent
      BY <2>1 DEF TpInv, MandatedTlsKept
    <2>2. CASE x \notin tpSent
      <3>1. PICK w \in Discloses(pc) :
               x = [what |-> w, direct |-> tpJob.rule.kind = "Direct", host |-> tpJob.host,
                    domain |-> tpJob.domain, reqtls |-> tpJob.reqtls, duty |-> tpJob.duty,
                    tlsa |-> tpJob.tlsa, tls |-> tpJob.tls, peer |-> tpJob.peer]
        BY <2>2 DEF Command
      <3>2. pc \in TpOpen /\ (w = "credentials" => pc = "auth")
        BY <3>1 DEF Discloses, TpOpen
      <3>3. ASSUME tpJob.rule = NoRule PROVE ~tpJob.rule.auth
        <4>1. NoRule.auth = FALSE
          BY DEF NoRule
        <4> QED
          BY <3>3, <4>1
      <3> QED
        BY <1>1, <3>1, <3>2, <3>3
           DEF TpJobInv, TpRouted, TpSecured, TpRequired, ValidRule, NoRule
    <2> QED
      BY <2>1, <2>2
  <1> QED
    BY <1>3, <1>4, <1>5 DEF TpInv

\* The next step of the dialogue.
LEMMA TpMoves ==
  ASSUME NEW j, TpJobInv(j), NEW to,
         \/ <<j.pc, to>> \in {<<"policy", "fetch">>, <<"greeting", "ehlo">>, <<"starttls", "handshake">>,
                              <<"ehlo2", "auth">>, <<"auth", "mail">>, <<"mail", "rcpt">>,
                              <<"data", "body">>, <<"body", "delivered">>}
         \/ j.pc = "ehlo" /\ to = "auth" /\ ~TpRequired(j) /\ j.tlsa = {}
  PROVE  TpJobInv([j EXCEPT !.pc = to]) /\ [j EXCEPT !.pc = to].tls = j.tls
  <1> DEFINE k == [j EXCEPT !.pc = to]
  <1>1. /\ TpShape(k) /\ k.pc = to /\ k.cause = j.cause /\ k.domain = j.domain
        /\ k.accepted = j.accepted /\ k.tls = j.tls /\ k.buffer = j.buffer /\ k.duty = j.duty
        /\ k.policy = j.policy /\ k.rule = j.rule /\ k.tlsa = j.tlsa /\ k.host = j.host
        /\ k.peer = j.peer /\ k.reqtls = j.reqtls
    BY DEF TpJobInv, TpShape, TpFields
  <1>0. \/ j.pc = "policy" /\ to = "fetch"
        \/ j.pc = "greeting" /\ to = "ehlo"
        \/ j.pc = "starttls" /\ to = "handshake"
        \/ j.pc = "ehlo2" /\ to = "auth"
        \/ j.pc = "auth" /\ to = "mail"
        \/ j.pc = "mail" /\ to = "rcpt"
        \/ j.pc = "data" /\ to = "body"
        \/ j.pc = "body" /\ to = "delivered"
        \/ j.pc = "ehlo" /\ to = "auth" /\ ~TpRequired(j) /\ j.tlsa = {}
    OBVIOUS
  <1> HIDE DEF k
  <1>2. TpCounts(k)
    BY <1>0, <1>1, TpNumbers DEF TpJobInv, TpCounts, TpBefore, TpClear, TpOpen, TpEnds
  <1>3. TpBuffered(k)
    BY <1>0, <1>1 DEF TpJobInv, TpBuffered, TpBefore, TpClear
  <1>4. TpRouted(k)
    BY <1>0, <1>1 DEF TpJobInv, TpRouted, TpBefore, TpClear, TpOpen
  <1>5. TpSecured(k)
    BY <1>0, <1>1 DEF TpJobInv, TpSecured, TpRequired, TpBuffered, TpClear, TpOpen
  <1>6. TpJobInv(k)
    BY <1>1, <1>2, <1>3, <1>4, <1>5 DEF TpJobInv
  <1> QED
    BY <1>1, <1>6 DEF k

\* A step of the attempt that neither learns nor sends anything.
LEMMA TpInside ==
  ASSUME TpInv, OnlyJob, UNCHANGED tpSent, TpJobInv(tpJob')
  PROVE  TpInv'
  BY DEF TpInv, TpKnown, OnlyJob, MandatedTlsKept

LEMMA TpRetries ==
  ASSUME TpInv, tpJob.pc # "idle", NEW why, Retry(why)
  PROVE  TpJobInv(tpJob')
  <1>1. TpJobInv([tpJob EXCEPT !.pc = "retry", !.cause = why])
    BY TpEnding DEF TpInv
  <1> QED
    BY <1>1 DEF Retry, Step

LEMMA TpDrops ==
  ASSUME TpInv, tpJob.pc # "idle", NEW why \in {"refused", "rule", "socks", "no TLS for AUTH"}, Drop(why)
  PROVE  TpJobInv(tpJob')
  <1>1. TpJobInv([tpJob EXCEPT !.pc = "dropped", !.cause = why])
    BY TpEnding DEF TpInv
  <1> QED
    BY <1>1 DEF Drop, Step

LEMMA TpIdles == TpJobInv(Idle) /\ Idle.pc = "idle"
  <1>1. /\ TpShape(Idle) /\ Idle.pc = "idle" /\ Idle.domain = <<>> /\ Idle.accepted = 0
        /\ Idle.tls = FALSE /\ Idle.buffer = <<>> /\ Idle.duty = NoPolicy /\ Idle.policy = NoPolicy
        /\ Idle.tlsa = {}
    BY DEF Idle, TpShape, TpFields
  <1>2. TpCounts(Idle)
    BY <1>1, TpNumbers DEF TpCounts, TpBefore, TpClear, TpOpen, TpEnds
  <1>0. Idle.buffer \in Seq(TpReply)
    BY <1>1
  <1>3. TpBuffered(Idle)
    BY <1>0, <1>1 DEF TpBuffered
  <1>4. TpRouted(Idle)
    BY <1>1 DEF TpRouted, TpBefore, TpClear, TpOpen
  <1>5. TpSecured(Idle)
    BY <1>1 DEF TpSecured, TpOpen
  <1> QED
    BY <1>1, <1>2, <1>3, <1>4, <1>5 DEF TpJobInv

LEMMA TpStarts == TpInit => TpInv
  BY TpIdles, TpNumbers DEF TpInit, TpInv, TpKnown, NotCached, MandatedTlsKept

\* The policy in hand is what the domain made known.
LEMMA TpGoverned ==
  ASSUME TpInv, tpJob.pc \in {"policy", "fetch"}, NEW policy, NEW duty,
         duty.mode = "Enforce" => policy = duty, Governed(policy, duty)
  PROVE  TpJobInv(tpJob')
  <1>1. /\ TpShape(tpJob') /\ tpJob'.pc = "route" /\ tpJob'.cause = tpJob.cause
        /\ tpJob'.domain = tpJob.domain /\ tpJob'.accepted = tpJob.accepted
        /\ tpJob'.tls = tpJob.tls /\ tpJob'.buffer = tpJob.buffer /\ tpJob'.duty = duty
        /\ tpJob'.policy = (IF policy.mode = "Enforce" THEN policy ELSE NoPolicy)
        /\ tpJob'.tlsa = tpJob.tlsa
    BY DEF Governed, Step, TpInv, TpJobInv, TpShape, TpFields
  <1>2. TpCounts(tpJob')
    BY <1>1 DEF TpInv, TpJobInv, TpCounts, TpBefore, TpClear, TpOpen, TpEnds
  <1>3. TpBuffered(tpJob')
    BY <1>1 DEF TpInv, TpJobInv, TpBuffered, TpBefore, TpClear
  <1>4. TpRouted(tpJob')
    BY <1>1 DEF TpInv, TpJobInv, TpRouted, TpBefore, TpClear, TpOpen
  <1>5. TpSecured(tpJob')
    BY <1>1 DEF TpSecured, TpOpen
  <1> QED
    BY <1>1, <1>2, <1>3, <1>4, <1>5 DEF TpJobInv

LEMMA TpBegins ==
  ASSUME TpInv, NEW d \in TpDomains, NEW s \in TpSenders, NEW q \in BOOLEAN, BeginDomain(d, s, q)
  PROVE  TpInv'
  <1> DEFINE k == [Idle EXCEPT !.pc = "policy", !.domain = d, !.sender = s, !.reqtls = q]
  <1>1. /\ TpShape(k) /\ k.pc = "policy" /\ k.domain = d /\ k.accepted = Idle.accepted
        /\ k.tls = Idle.tls /\ k.buffer = Idle.buffer /\ k.duty = Idle.duty
        /\ k.policy = Idle.policy /\ k.tlsa = Idle.tlsa
    BY TpIdles DEF TpJobInv, TpShape, TpFields
  <1>2. tpJob' = k /\ OnlyJob /\ UNCHANGED tpSent
    BY DEF BeginDomain, Step
  <1> HIDE DEF k
  <1>3. TpCounts(k)
    BY <1>1, TpIdles DEF TpJobInv, TpCounts, TpBefore, TpClear, TpOpen, TpEnds
  <1>4. TpBuffered(k)
    BY <1>1, TpIdles DEF TpJobInv, TpBuffered, TpBefore, TpClear
  <1>5. TpRouted(k)
    BY <1>1, TpIdles DEF TpJobInv, TpRouted, TpBefore, TpClear, TpOpen
  <1>6. TpSecured(k)
    BY <1>1 DEF TpSecured, TpOpen
  <1> QED
    BY <1>1, <1>2, <1>3, <1>4, <1>5, <1>6, TpInside DEF TpJobInv

LEMMA TpLearns ==
  ASSUME TpInv, NEW policy, NEW ttl \in 0 .. TpMaxCache + TpNegativeTtl, tpJob.pc # "idle",
         tpCache' = [tpCache EXCEPT ![tpJob.domain] = [policy |-> policy, expiry |-> tpNow + ttl]],
         tpLearned' = [tpLearned EXCEPT ![tpJob.domain] = [policy |-> policy, expiry |-> tpNow + ttl]],
         UNCHANGED <<tpNow, tpSent>>, TpJobInv(tpJob')
  PROVE  TpInv'
  <1>1. tpJob.domain \in TpDomains
    BY DEF TpInv, TpJobInv, TpCounts
  <1>2. TpKnown'
    <2>1. tpNow' \in 1 .. TpHorizon /\ tpLearned' = tpCache'
      BY DEF TpInv, TpKnown
    <2>2. tpCache' = [d \in TpDomains |-> [policy |-> tpCache'[d].policy, expiry |-> tpCache'[d].expiry]]
      BY <1>1 DEF TpInv, TpKnown
    <2>3. \A d \in TpDomains : tpCache'[d].expiry \in 0 .. TpHorizon + TpMaxCache + TpNegativeTtl
      BY <1>1, TpNumbers DEF TpInv, TpKnown
    <2> QED
      BY <2>1, <2>2, <2>3 DEF TpKnown
  <1>3. MandatedTlsKept'
    BY DEF TpInv, MandatedTlsKept
  <1> QED
    BY <1>2, <1>3 DEF TpInv

LEMMA TpLooksUp ==
  ASSUME TpInv, PolicyCached \/ Discovery \/ FetchFails
                \/ \E doc \in TpDocuments : FetchMalformed(doc) \/ Fetched(doc)
  PROVE  TpInv'
  <1>0. TpJobInv(tpJob) /\ (tpJob.pc # "idle" => tpJob.domain \in TpDomains) /\ tpLearned = tpCache
    BY DEF TpInv, TpJobInv, TpCounts, TpKnown
  <1>n. NoPolicy.mode # "Enforce"
    BY DEF NoPolicy
  <1>1. CASE PolicyCached
    <2>1. /\ tpJob.pc = "policy" /\ tpNow < tpCache[tpJob.domain].expiry
          /\ Governed(tpCache[tpJob.domain].policy, Duty(tpJob.domain)) /\ OnlyJob /\ UNCHANGED tpSent
      BY <1>1 DEF PolicyCached, At
    <2>2. Duty(tpJob.domain) = tpCache[tpJob.domain].policy
      BY <1>0, <2>1 DEF Duty
    <2>3. TpJobInv(tpJob')
      BY <2>1, <2>2, TpGoverned
    <2> QED
      BY <2>1, <2>3, TpInside
  <1>2. CASE Discovery
    <2>0. tpJob.pc = "policy" /\ UNCHANGED <<tpNow, tpSent>>
      BY <1>2 DEF Discovery, At
    <2>1. CASE Retry("dns") /\ UNCHANGED <<tpCache, tpLearned>>
      BY <2>0, <2>1, TpRetries, TpInside DEF OnlyJob
    <2>2. CASE /\ tpCache' = [tpCache EXCEPT ![tpJob.domain] =
                                [policy |-> NoPolicy, expiry |-> tpNow + TpNegativeTtl]]
               /\ tpLearned' = [tpLearned EXCEPT ![tpJob.domain] =
                                [policy |-> NoPolicy, expiry |-> tpNow + TpNegativeTtl]]
               /\ Governed(NoPolicy, NoPolicy)
      <3>1. TpJobInv(tpJob')
        BY <2>0, <2>2, TpGoverned
      <3>2. TpNegativeTtl \in 0 .. TpMaxCache + TpNegativeTtl
        BY TpNumbers
      <3> QED
        BY <2>0, <2>2, <3>1, <3>2, TpLearns
    <2>3. CASE Step([tpJob EXCEPT !.pc = "fetch"]) /\ UNCHANGED <<tpCache, tpLearned>>
      <3>1. TpJobInv([tpJob EXCEPT !.pc = "fetch"])
        BY <1>0, <2>0, TpMoves
      <3> QED
        BY <2>0, <2>3, <3>1, TpInside DEF OnlyJob, Step
    <2> QED
      BY <1>2, <2>1, <2>2, <2>3 DEF Discovery
  <1>3. CASE FetchFails
    <2>1. tpJob.pc = "fetch" /\ Retry("policy fetch") /\ OnlyJob /\ UNCHANGED tpSent
      BY <1>3 DEF FetchFails, At
    <2> QED
      BY <2>1, TpRetries, TpInside
  <1>4. ASSUME NEW doc \in TpDocuments, FetchMalformed(doc) PROVE TpInv'
    <2>1. tpJob.pc = "fetch" /\ Governed(NoPolicy, NoPolicy) /\ OnlyJob /\ UNCHANGED tpSent
      BY <1>4 DEF FetchMalformed, At
    <2>2. TpJobInv(tpJob')
      BY <2>1, TpGoverned
    <2> QED
      BY <2>1, <2>2, TpInside
  <1>5. ASSUME NEW doc \in TpDocuments, Fetched(doc) PROVE TpInv'
    <2> DEFINE policy == ParsePolicy(doc)
    <2>1. /\ tpJob.pc = "fetch" /\ Governed(policy, policy) /\ UNCHANGED <<tpNow, tpSent>>
          /\ tpCache' = [tpCache EXCEPT ![tpJob.domain] =
                           [policy |-> policy, expiry |-> tpNow + CacheTtl(policy)]]
          /\ tpLearned' = [tpLearned EXCEPT ![tpJob.domain] =
                           [policy |-> policy, expiry |-> tpNow + CacheTtl(policy)]]
          /\ ~Malformed(doc)
      BY <1>5 DEF Fetched, At
    <2>2. CacheTtl(policy) \in 0 .. TpMaxCache + TpNegativeTtl
      <3>1. doc.maxAge \in Int /\ ~(doc.maxAge < 0) /\ policy.maxAge = doc.maxAge
        BY <2>1, TpAssumption DEF Malformed, ParsePolicy
      <3> QED
        BY <3>1, TpNumbers DEF CacheTtl
    <2> HIDE DEF policy
    <2>3. TpJobInv(tpJob')
      BY <2>1, TpGoverned
    <2> QED
      BY <2>1, <2>2, <2>3, TpLearns
  <1> QED
    BY <1>1, <1>2, <1>3, <1>4, <1>5

\* The rule that is selected passed validation.
LEMMA TpSelects ==
  ASSUME NEW sender, NEW domain
  PROVE  ValidRule(SelectTransport(sender, domain))
  <1>1. ValidRule(NoRule)
    BY DEF ValidRule, NoRule
  <1> DEFINE spec(i) == Specificity(TpRules[i], sender, domain)
             best == {i \in DOMAIN TpRules : spec(i) > 0 /\ \A j \in DOMAIN TpRules :
                        spec(j) < spec(i) \/ (spec(j) = spec(i) /\ j <= i)}
  <1>2. SelectTransport(sender, domain) = IF best = {} THEN NoRule ELSE TpRules[CHOOSE i \in best : TRUE]
    BY DEF SelectTransport
  <1>3. best \subseteq DOMAIN TpRules
    OBVIOUS
  <1> HIDE DEF best
  <1> QED
    BY <1>1, <1>2, <1>3, TpAssumption

\* From the transport rule to a connection: an exchanger the policy does not list is never
\* chosen, and a smarthost has no TLSA records.
LEMMA TpRoutes ==
  ASSUME TpInv, Route \/ (\E answer \in ProxyAnswers : RelayConnect(answer))
                \/ MxLookupFails \/ (\E answers \in TpTlsa : TlsaLookup(answers))
                \/ \E answer, up : MxConnect(answer, up)
  PROVE  TpInv'
  <1>0. TpJobInv(tpJob)
    BY DEF TpInv
  <1>a. /\ TpShape(tpJob) /\ TpCounts(tpJob) /\ TpBuffered(tpJob) /\ TpRouted(tpJob)
    BY <1>0 DEF TpJobInv
  <1>1. CASE Route
    <2> DEFINE rule == SelectTransport(tpJob.sender, tpJob.domain)
    <2>0. tpJob.pc = "route" /\ OnlyJob /\ UNCHANGED tpSent /\ ValidRule(rule)
      BY <1>1, TpSelects DEF Route, At
    <2>1. CASE Drop("rule")
      BY <2>0, <2>1, TpDrops, TpInside
    <2>2. ASSUME NEW pc, NEW to, tpJob' = [tpJob EXCEPT !.pc = pc, !.rule = to],
                 \/ pc = "relay" /\ to.kind = "Relay" /\ ValidRule(to)
                 \/ pc = "mx" /\ to = NoRule
          PROVE  TpInv'
      <3>1. /\ TpShape(tpJob') /\ tpJob'.pc = pc /\ tpJob'.domain = tpJob.domain
            /\ tpJob'.accepted = tpJob.accepted /\ tpJob'.tls = tpJob.tls
            /\ tpJob'.buffer = tpJob.buffer /\ tpJob'.duty = tpJob.duty
            /\ tpJob'.policy = tpJob.policy /\ tpJob'.tlsa = tpJob.tlsa /\ tpJob'.rule = to
        BY <1>a, <2>2 DEF TpShape, TpFields
      <3>2. TpCounts(tpJob')
        BY <1>a, <2>0, <2>2, <3>1 DEF TpCounts, TpBefore, TpClear, TpOpen, TpEnds
      <3>3. TpBuffered(tpJob')
        BY <1>a, <2>0, <2>2, <3>1 DEF TpBuffered, TpBefore, TpClear
      <3>4. TpRouted(tpJob')
        BY <1>a, <2>0, <2>2, <3>1 DEF TpRouted, TpBefore, TpClear, TpOpen
      <3>5. TpSecured(tpJob')
        BY <2>2, <3>1 DEF TpSecured, TpOpen
      <3> QED
        BY <2>0, <3>1, <3>2, <3>3, <3>4, <3>5, TpInside DEF TpJobInv
    <2>3. CASE rule.kind = "Relay" /\ tpJob' = [tpJob EXCEPT !.pc = "relay", !.rule = rule]
      BY <2>0, <2>2, <2>3
    <2>4. CASE tpJob' = [tpJob EXCEPT !.pc = "mx", !.rule = NoRule]
      BY <2>2, <2>4
    <2> QED
      BY <1>1, <2>1, <2>3, <2>4 DEF Route, Step
  <1>n. NoRule.kind # "Relay"
    BY DEF NoRule
  <1>2. ASSUME NEW pc, NEW host, tpJob' = [tpJob EXCEPT !.pc = pc, !.host = host],
               OnlyJob, UNCHANGED tpSent,
               \/ tpJob.pc = "relay" /\ pc = "greeting"
               \/ /\ tpJob.pc = "mx" /\ pc = "tlsa"
                  /\ tpJob.policy.mode = "Enforce" => PermitsMx(tpJob.policy, host)
        PROVE  TpInv'
    <2>1. /\ TpShape(tpJob') /\ tpJob'.pc = pc /\ tpJob'.domain = tpJob.domain
          /\ tpJob'.accepted = tpJob.accepted /\ tpJob'.tls = tpJob.tls
          /\ tpJob'.buffer = tpJob.buffer /\ tpJob'.duty = tpJob.duty
          /\ tpJob'.policy = tpJob.policy /\ tpJob'.tlsa = tpJob.tlsa /\ tpJob'.rule = tpJob.rule
          /\ tpJob'.host = host
      BY <1>a, <1>2 DEF TpShape, TpFields
    <2>2. TpCounts(tpJob')
      BY <1>a, <1>2, <2>1 DEF TpCounts, TpBefore, TpClear, TpOpen, TpEnds
    <2>3. TpBuffered(tpJob')
      BY <1>a, <1>2, <2>1 DEF TpBuffered, TpBefore, TpClear
    <2>4. TpRouted(tpJob')
      BY <1>a, <1>n, <1>2, <2>1 DEF TpRouted, TpBefore, TpClear, TpOpen
    <2>5. TpSecured(tpJob')
      BY <1>2, <2>1 DEF TpSecured, TpOpen
    <2> QED
      BY <1>2, <2>1, <2>2, <2>3, <2>4, <2>5, TpInside DEF TpJobInv
  <1>3. ASSUME NEW answer \in ProxyAnswers, RelayConnect(answer) PROVE TpInv'
    <2>0. tpJob.pc = "relay" /\ OnlyJob /\ UNCHANGED tpSent
      BY <1>3 DEF RelayConnect, At
    <2>1. CASE Retry("connect")
      BY <2>0, <2>1, TpRetries, TpInside
    <2>2. CASE Drop("socks")
      BY <2>0, <2>2, TpDrops, TpInside
    <2>3. CASE tpJob' = [tpJob EXCEPT !.pc = "greeting", !.host = tpJob.rule.host]
      BY <1>2, <2>0, <2>3
    <2>4. Retry("connect") \/ Drop("socks")
          \/ tpJob' = [tpJob EXCEPT !.pc = "greeting", !.host = tpJob.rule.host]
      BY <1>3 DEF RelayConnect, Step
    <2> QED
      BY <2>1, <2>2, <2>3, <2>4
  <1>4. CASE MxLookupFails
    <2>1. tpJob.pc = "mx" /\ Retry("dns") /\ OnlyJob /\ UNCHANGED tpSent
      BY <1>4 DEF MxLookupFails, At
    <2> QED
      BY <2>1, TpRetries, TpInside
  <1>5. ASSUME NEW answer, NEW up, MxConnect(answer, up) PROVE TpInv'
    <2> DEFINE hosts == Exchangers(tpJob.domain, answer)
               permitted == {i \in DOMAIN hosts : tpJob.policy.mode = "Enforce" =>
                                                   PermitsMx(tpJob.policy, hosts[i])}
               live == {i \in permitted : hosts[i] \in up}
    <2>0. tpJob.pc = "mx" /\ OnlyJob /\ UNCHANGED tpSent
      BY <1>5 DEF MxConnect, At
    <2>1. \/ Retry("connect")
          \/ \E i \in live : tpJob' = [tpJob EXCEPT !.pc = "tlsa", !.host = hosts[i]]
      BY <1>5 DEF MxConnect, Step
    <2>2. CASE Retry("connect")
      BY <2>0, <2>2, TpRetries, TpInside
    <2> QED
      BY <1>2, <2>0, <2>1, <2>2
  <1>6. ASSUME NEW answers \in TpTlsa, TlsaLookup(answers) PROVE TpInv'
    <2>0. tpJob.pc = "tlsa" /\ OnlyJob /\ UNCHANGED tpSent
      BY <1>6 DEF TlsaLookup, At
    <2>1. CASE Retry("dns")
      BY <2>0, <2>1, TpRetries, TpInside
    <2>2. ASSUME NEW records, tpJob' = [tpJob EXCEPT !.pc = "greeting", !.tlsa = records] PROVE TpInv'
      <3>1. /\ TpShape(tpJob') /\ tpJob'.pc = "greeting" /\ tpJob'.domain = tpJob.domain
            /\ tpJob'.accepted = tpJob.accepted /\ tpJob'.tls = tpJob.tls
            /\ tpJob'.buffer = tpJob.buffer /\ tpJob'.duty = tpJob.duty
            /\ tpJob'.policy = tpJob.policy /\ tpJob'.host = tpJob.host /\ tpJob'.rule = tpJob.rule
        BY <1>a, <2>2 DEF TpShape, TpFields
      <3>2. TpCounts(tpJob')
        BY <1>a, <2>0, <3>1 DEF TpCounts, TpBefore, TpClear, TpOpen, TpEnds
      <3>3. TpBuffered(tpJob')
        BY <1>a, <2>0, <3>1 DEF TpBuffered, TpBefore, TpClear
      <3>4. TpRouted(tpJob')
        BY <1>a, <2>0, <3>1 DEF TpRouted, TpBefore, TpClear, TpOpen
      <3>5. TpSecured(tpJob')
        BY <3>1 DEF TpSecured, TpOpen
      <3> QED
        BY <2>0, <3>1, <3>2, <3>3, <3>4, <3>5, TpInside DEF TpJobInv
    <2> QED
      BY <1>6, <2>1, <2>2 DEF TlsaLookup, Step
  <1> QED
    BY <1>1, <1>3, <1>4, <1>5, <1>6

\* The greeting, EHLO and STARTTLS: without an offer of STARTTLS only mail that need not be
\* protected goes on.
LEMMA TpGreets ==
  ASSUME TpInv, Greeting \/ Ehlo \/ StartTlsCommand \/ EhloOverTls
  PROVE  TpInv'
  <1>0. TpJobInv(tpJob)
    BY DEF TpInv
  <1>d. DOMAIN ExpectedReply = {"greeting", "ehlo", "starttls", "ehlo2", "auth", "mail", "rcpt", "data", "body"}
    BY DEF ExpectedReply
  <1>1. CASE Greeting
    <2> DEFINE k == [tpJob EXCEPT !.pc = "ehlo"]
    <2>1. Command("greeting", k) /\ tpJob.pc = "greeting"
      BY <1>1 DEF Greeting, Command, At
    <2>2. TpJobInv(k) /\ k.tls = tpJob.tls
      BY <1>0, <2>1, TpMoves
    <2> HIDE DEF k
    <2> QED
      BY <1>d, <2>1, <2>2, TpCommand
  <1>2. CASE StartTlsCommand
    <2> DEFINE k == [tpJob EXCEPT !.pc = "handshake"]
    <2>1. Command("starttls", k) /\ tpJob.pc = "starttls"
      BY <1>2 DEF StartTlsCommand, Command, At
    <2>2. TpJobInv(k) /\ k.tls = tpJob.tls
      BY <1>0, <2>1, TpMoves
    <2> HIDE DEF k
    <2> QED
      BY <1>d, <2>1, <2>2, TpCommand
  <1>3. CASE EhloOverTls
    <2> DEFINE k == [tpJob EXCEPT !.pc = "auth"]
    <2>1. Command("ehlo2", k) /\ tpJob.pc = "ehlo2"
      BY <1>3 DEF EhloOverTls, Command, At
    <2>2. TpJobInv(k) /\ k.tls = tpJob.tls
      BY <1>0, <2>1, TpMoves
    <2> HIDE DEF k
    <2> QED
      BY <1>d, <2>1, <2>2, TpCommand
  <1>4. CASE Command("ehlo", [tpJob EXCEPT !.pc = "starttls", !.offered = TRUE])
    <2> DEFINE k == [tpJob EXCEPT !.pc = "starttls", !.offered = TRUE]
    <2>0. tpJob.pc = "ehlo" /\ Command("ehlo", k)
      BY <1>4 DEF Command, At
    <2>1. /\ TpShape(k) /\ k.pc = "starttls" /\ k.domain = tpJob.domain /\ k.cause = tpJob.cause
          /\ k.accepted = tpJob.accepted /\ k.tls = tpJob.tls /\ k.buffer = tpJob.buffer
          /\ k.duty = tpJob.duty /\ k.policy = tpJob.policy /\ k.rule = tpJob.rule
          /\ k.tlsa = tpJob.tlsa /\ k.host = tpJob.host
      BY <1>0 DEF TpJobInv, TpShape, TpFields
    <2> HIDE DEF k
    <2>2. TpCounts(k)
      BY <1>0, <2>0, <2>1 DEF TpJobInv, TpCounts, TpBefore, TpClear, TpOpen, TpEnds
    <2>3. TpBuffered(k)
      BY <1>0, <2>0, <2>1 DEF TpJobInv, TpBuffered, TpBefore, TpClear
    <2>4. TpRouted(k)
      BY <1>0, <2>0, <2>1 DEF TpJobInv, TpRouted, TpBefore, TpClear, TpOpen
    <2>5. TpSecured(k)
      BY <2>1 DEF TpSecured, TpOpen
    <2>6. TpJobInv(k)
      BY <2>1, <2>2, <2>3, <2>4, <2>5 DEF TpJobInv
    <2> QED
      BY <1>d, <2>0, <2>1, <2>6, TpCommand
  <1>5. CASE Command("ehlo", IF MustStartTls THEN [tpJob EXCEPT !.pc = "retry", !.cause = "no STARTTLS"]
                             ELSE [tpJob EXCEPT !.pc = "auth"])
    <2> DEFINE k == IF MustStartTls THEN [tpJob EXCEPT !.pc = "retry", !.cause = "no STARTTLS"]
                    ELSE [tpJob EXCEPT !.pc = "auth"]
    <2>0. tpJob.pc = "ehlo" /\ Command("ehlo", k)
      BY <1>5 DEF Command, At
    <2>1. CASE MustStartTls
      <3>1. TpJobInv([tpJob EXCEPT !.pc = "retry", !.cause = "no STARTTLS"])
        BY <1>0, <2>0, TpEnding
      <3>2. [tpJob EXCEPT !.pc = "retry", !.cause = "no STARTTLS"].tls = tpJob.tls
        BY <1>0 DEF TpJobInv, TpShape, TpFields
      <3>3. TpJobInv(k) /\ k.tls = tpJob.tls
        BY <2>1, <3>1, <3>2
      <3> HIDE DEF k
      <3> QED
        BY <1>d, <2>0, <3>3, TpCommand
    <2>2. CASE ~MustStartTls
      <3>1. ~TpRequired(tpJob) /\ tpJob.tlsa = {}
        BY <2>2 DEF MustStartTls, TlsRequired, TpRequired
      <3>2. TpJobInv([tpJob EXCEPT !.pc = "auth"]) /\ [tpJob EXCEPT !.pc = "auth"].tls = tpJob.tls
        BY <1>0, <2>0, <3>1, TpMoves
      <3>3. TpJobInv(k) /\ k.tls = tpJob.tls
        BY <2>2, <3>2
      <3> HIDE DEF k
      <3> QED
        BY <1>d, <2>0, <3>3, TpCommand
    <2> QED
      BY <2>1, <2>2
  <1> QED
    BY <1>1, <1>2, <1>3, <1>4, <1>5 DEF Ehlo

\* The handshake: nothing read before it survives it, and the peer shows what it must.
LEMMA TpShakes ==
  ASSUME TpInv, HandshakeFails \/ \E peer \in TpPeers : Handshake(peer)
  PROVE  TpInv'
  <1>0. TpJobInv(tpJob)
    BY DEF TpInv
  <1>1. CASE HandshakeFails
    <2>1. tpJob.pc = "handshake" /\ Retry("TLS") /\ OnlyJob /\ UNCHANGED tpSent
      BY <1>1 DEF HandshakeFails, At
    <2> QED
      BY <2>1, TpRetries, TpInside
  <1>2. ASSUME NEW peer \in TpPeers, Handshake(peer) PROVE TpInv'
    <2>0. tpJob.pc = "handshake" /\ OnlyJob /\ UNCHANGED tpSent
      BY <1>2 DEF Handshake, At
    <2>1. CASE Retry("TLS")
      BY <2>0, <2>1, TpRetries, TpInside
    <2>2. CASE /\ AuthenticatePkix => peer.pkix
               /\ VerifyChain(tpJob.tlsa, peer.chain) # "Mismatch"
               /\ tpJob' = [tpJob EXCEPT !.pc = "ehlo2", !.tls = TRUE, !.peer = peer, !.buffer = <<>>]
      <3>1. /\ TpShape(tpJob') /\ tpJob'.pc = "ehlo2" /\ tpJob'.domain = tpJob.domain
            /\ tpJob'.accepted = tpJob.accepted /\ tpJob'.tls = TRUE
            /\ tpJob'.buffer = <<>> /\ tpJob'.duty = tpJob.duty
            /\ tpJob'.policy = tpJob.policy /\ tpJob'.host = tpJob.host /\ tpJob'.rule = tpJob.rule
            /\ tpJob'.tlsa = tpJob.tlsa /\ tpJob'.peer = peer /\ tpJob'.reqtls = tpJob.reqtls
        BY <1>0, <2>2 DEF TpJobInv, TpShape, TpFields
      <3>2. TpCounts(tpJob')
        BY <1>0, <2>0, <3>1 DEF TpJobInv, TpCounts, TpBefore, TpClear, TpOpen, TpEnds
      <3>3. TpBuffered(tpJob')
        <4>1. <<>> \in Seq(TpReply) /\ DOMAIN <<>> = {}
          OBVIOUS
        <4> QED
          BY <3>1, <4>1 DEF TpBuffered, TpBefore, TpClear
      <3>4. TpRouted(tpJob')
        BY <1>0, <2>0, <3>1 DEF TpJobInv, TpRouted, TpBefore, TpClear, TpOpen
      <3>5. TpRequired(tpJob') => peer.pkix
        BY <2>2, <3>1 DEF AuthenticatePkix, TlsRequired, TpRequired
      <3>6. tpJob.tlsa # {} => \E q \in tpJob.tlsa : \E i \in DOMAIN peer.chain :
               MatchesCert(q, peer.chain[i]) /\ (q.usage \in {1, 3} => i = 1)
        <4> SUFFICES ASSUME tpJob.tlsa # {}
                     PROVE  \E q \in tpJob.tlsa : \E i \in DOMAIN peer.chain :
                              MatchesCert(q, peer.chain[i]) /\ (q.usage \in {1, 3} => i = 1)
          OBVIOUS
        <4>1. peer.chain # <<>> /\ DaneAuthenticate(tpJob.tlsa, peer.chain)
          BY <2>2 DEF VerifyChain
        <4>2. 1 \in DOMAIN peer.chain
          <5>1. peer.chain \in Seq({peer.chain[i] : i \in DOMAIN peer.chain})
            BY TpAssumption
          <5> QED
            BY <4>1, <5>1
        <4> QED
          BY <4>1, <4>2 DEF DaneAuthenticate
      <3>7. TpSecured(tpJob')
        BY <3>1, <3>5, <3>6 DEF TpSecured
      <3> QED
        BY <2>0, <3>1, <3>2, <3>3, <3>4, <3>7, TpInside DEF TpJobInv
    <2> QED
      BY <1>2, <2>1, <2>2 DEF Handshake, Step
  <1> QED
    BY <1>1, <1>2

\* AUTH, the envelope and the content: a password waits for TLS, and the content for every
\* recipient.
LEMMA TpSends ==
  ASSUME TpInv, Auth \/ MailCommand \/ RcptCommand \/ DataCommand \/ Body
  PROVE  TpInv'
  <1>0. TpJobInv(tpJob)
    BY DEF TpInv
  <1>d. DOMAIN ExpectedReply = {"greeting", "ehlo", "starttls", "ehlo2", "auth", "mail", "rcpt", "data", "body"}
    BY DEF ExpectedReply
  <1>1. CASE MailCommand
    <2> DEFINE k == [tpJob EXCEPT !.pc = "rcpt"]
    <2>1. Command("mail", k) /\ tpJob.pc = "mail"
      BY <1>1 DEF MailCommand, Command, At
    <2>2. TpJobInv(k) /\ k.tls = tpJob.tls
      BY <1>0, <2>1, TpMoves
    <2> HIDE DEF k
    <2> QED
      BY <1>d, <2>1, <2>2, TpCommand
  <1>2. CASE DataCommand
    <2> DEFINE k == [tpJob EXCEPT !.pc = "body"]
    <2>1. Command("data", k) /\ tpJob.pc = "data"
      BY <1>2 DEF DataCommand, Command, At
    <2>2. TpJobInv(k) /\ k.tls = tpJob.tls
      BY <1>0, <2>1, TpMoves
    <2> HIDE DEF k
    <2> QED
      BY <1>d, <2>1, <2>2, TpCommand
  <1>3. CASE Body
    <2> DEFINE k == [tpJob EXCEPT !.pc = "delivered"]
    <2>1. Command("body", k) /\ tpJob.pc = "body"
      BY <1>3 DEF Body, Command, At
    <2>2. TpJobInv(k) /\ k.tls = tpJob.tls
      BY <1>0, <2>1, TpMoves
    <2> HIDE DEF k
    <2> QED
      BY <1>d, <2>1, <2>2, TpCommand
  <1>4. CASE Auth
    <2> DEFINE k == [tpJob EXCEPT !.pc = "mail"]
    <2>0. tpJob.pc = "auth"
      BY <1>4 DEF Auth, Command, At
    <2>1. TpJobInv(k) /\ k.tls = tpJob.tls
      BY <1>0, <2>0, TpMoves
    <2> HIDE DEF k
    <2>2. CASE tpJob' = k /\ OnlyJob /\ UNCHANGED tpSent
      BY <2>1, <2>2, TpInside
    <2>3. CASE Drop("no TLS for AUTH") /\ OnlyJob /\ UNCHANGED tpSent
      BY <2>0, <2>3, TpDrops, TpInside
    <2>4. CASE tpJob.rule.auth /\ tpJob.tls /\ Command("auth", k)
      BY <1>d, <2>1, <2>4, TpCommand
    <2> QED
      BY <1>4, <2>2, <2>3, <2>4 DEF Auth, Step, k
  <1>5. CASE RcptCommand
    <2> DEFINE to == IF tpJob.accepted + 1 = TpRecipients THEN "data" ELSE "rcpt"
               k == [tpJob EXCEPT !.accepted = @ + 1, !.pc = to]
    <2>0. tpJob.pc = "rcpt" /\ Command("rcpt", k)
      BY <1>5 DEF RcptCommand, Command, At
    <2>1. /\ TpShape(k) /\ k.pc = to /\ k.domain = tpJob.domain /\ k.cause = tpJob.cause
          /\ k.accepted = tpJob.accepted + 1 /\ k.tls = tpJob.tls /\ k.buffer = tpJob.buffer
          /\ k.duty = tpJob.duty /\ k.policy = tpJob.policy /\ k.rule = tpJob.rule
          /\ k.tlsa = tpJob.tlsa /\ k.host = tpJob.host /\ k.peer = tpJob.peer
          /\ k.reqtls = tpJob.reqtls
      BY <1>0 DEF TpJobInv, TpShape, TpFields
    <2> HIDE DEF k
    <2>2. TpCounts(k)
      BY <1>0, <2>0, <2>1, TpNumbers DEF TpJobInv, TpCounts, TpBefore, TpClear, TpOpen, TpEnds
    <2>3. TpBuffered(k)
      BY <1>0, <2>0, <2>1 DEF TpJobInv, TpBuffered, TpBefore, TpClear
    <2>4. TpRouted(k)
      BY <1>0, <2>0, <2>1 DEF TpJobInv, TpRouted, TpBefore, TpClear, TpOpen
    <2>5. TpSecured(k)
      BY <1>0, <2>0, <2>1 DEF TpJobInv, TpSecured, TpRequired, TpOpen
    <2>6. TpJobInv(k)
      BY <2>1, <2>2, <2>3, <2>4, <2>5 DEF TpJobInv
    <2> QED
      BY <1>d, <2>0, <2>1, <2>6, TpCommand
  <1> QED
    BY <1>1, <1>2, <1>3, <1>4, <1>5

LEMMA TpKeeps == TpInv /\ [TpNext]_tpVars => TpInv'
  <1> SUFFICES ASSUME TpInv, [TpNext]_tpVars PROVE TpInv'
    OBVIOUS
  <1>1. CASE FinishAttempt
    BY <1>1, TpIdles DEF FinishAttempt, Step, OnlyJob, TpInv, TpKnown, MandatedTlsKept
  <1>2. CASE Tick
    <2>1. tpNow' \in 1 .. TpHorizon
      BY <1>2, TpNumbers DEF Tick, TpInv, TpKnown
    <2> QED
      BY <1>2, <2>1 DEF Tick, TpInv, TpKnown, MandatedTlsKept
  <1>3. CASE UNCHANGED tpVars
    BY <1>3 DEF tpVars, TpInv, TpKnown, MandatedTlsKept
  <1> QED
    BY <1>1, <1>2, <1>3, TpBegins, TpLooksUp, TpRoutes, TpGreets, TpShakes, TpSends DEF TpNext

\* Whatever the policies, rules, TLSA records and peers, no mail and no password
\* crosses a connection weaker than MTA-STS, DANE, REQUIRETLS or the rule asks
\* for, no reply from before the handshake is believed after it, and the
\* outcome reported is the exchanger's (queue/client.rs, deliver).
THEOREM Mandated == TpSpec => []TransportCorrect
  <1>1. TpInv => TransportCorrect
    <2> SUFFICES ASSUME TpInv PROVE TransportCorrect
      OBVIOUS
    <2>1. TpTypeOK
      BY TpNumbers DEF TpInv, TpKnown, TpJobInv, TpCounts, TpTypeOK
    <2>2. RepliesFromTls /\ OutcomeJustified
      BY DEF TpInv, TpJobInv, TpCounts, TpBuffered, RepliesFromTls, OutcomeJustified
    <2> QED
      BY <2>1, <2>2 DEF TpInv, TransportCorrect
  <1>2. QED
    BY <1>1, TpStarts, TpKeeps, PTL DEF TpSpec

==============================================================================

------------------------------ MODULE Directory ------------------------------
(***************************************************************************)
(* The directory the servers look names up in (smtp/directory.rs): who     *)
(* receives an address, who may send as it, and which account a login and  *)
(* a password prove, with the live LDAP bind it falls back on              *)
(* (directory_store/ldap.rs), the TOTP code at the end of a password       *)
(* (totp/mod.rs) and the limits an account takes from its domains.  The    *)
(* table is immutable once built; AccountStore models when it is replaced. *)
(*                                                                         *)
(* A text is a sequence of characters.  An Option is a set of at most one  *)
(* value.  A HashMap is a function on the set of its keys, and the walk    *)
(* through one in no fixed order yields the set of the possible results.   *)
(***************************************************************************)
EXTENDS Naturals, Sequences, FiniteSets

CONSTANTS
    DrLower,      \* to_ascii_lowercase of each character
    DrDigits,     \* the characters that are ASCII digits
    DrAtom,       \* the characters an atom of a local part may hold
    DrNormal,     \* domain::normalize of each spelling of a domain: an Option
    DrMaxLocal,   \* MAX_LOCAL_PART
    DrCodeLen,    \* totp::DIGITS
    DrStep,       \* totp::STEP_SECONDS
    DrHotp,       \* external: the code of a secret at a counter
    DrConfigs,    \* the configurations a directory is built from
    DrAddresses,  \* the addresses that are asked about
    DrNames,      \* the account names
    DrLogins,     \* the logins, passwords, client addresses, protocols and
    DrPasswords,  \* times of the attempts to authenticate
    DrIps,
    DrProtocols,
    DrTimes

VARIABLE dir      \* the directory the servers see: DirectoryHandle

----------------------------------------------------------------------------
(* Texts, maps and addresses.                                              *)

Fold(text) == [i \in 1 .. Len(text) |-> DrLower[text[i]]]

\* HashMap::get.
Get(map, key) == IF key \in DOMAIN map THEN {map[key]} ELSE {}

\* Address::parse: the local part keeps its case, the domain loses it.
ValidLocal(local) ==
    /\ Len(local) \in 1 .. DrMaxLocal
    /\ \A i \in 1 .. Len(local) : local[i] = "." \/ local[i] \in DrAtom
    /\ local[1] # "." /\ local[Len(local)] # "."
    /\ \A i \in 1 .. Len(local) - 1 : local[i] # "." \/ local[i + 1] # "."

Parse(raw) ==
    {[local |-> raw.local, domain |-> d] : d \in IF ValidLocal(raw.local) THEN DrNormal[raw.domain] ELSE {}}

\* Mutant: the maps are asked for the local part as it is spelled.
AddressKeySpelled(address) == [local |-> address.local, domain |-> Fold(address.domain)]

\* The key of an address in the maps of the directory.
AddressKey(address) == [local |-> Fold(address.local), domain |-> Fold(address.domain)]

----------------------------------------------------------------------------
(* Directory::new and the with_* builders: a list of pairs becomes a map   *)
(* with folded keys, in which the last writer of a key wins.  Only the     *)
(* password hashes keep their keys as they are spelled.                    *)

Collect(pairs, F(_)) ==
    LET Last(k) == CHOOSE i \in DOMAIN pairs :
                       /\ F(pairs[i][1]) = k
                       /\ \A j \in DOMAIN pairs : F(pairs[j][1]) = k => j <= i
    IN [k \in {F(pairs[i][1]) : i \in DOMAIN pairs} |-> pairs[Last(k)][2]]

Same(x) == x

Build(config) ==
    [domains |-> {Fold(domain) : domain \in config.domains},
     accounts |-> Collect(config.addresses, AddressKey),
     hashes |-> Collect(config.hashes, Same),
     separators |-> config.separators,
     catchAll |-> Collect(config.catchAll, Fold),
     domainAliases |-> LET targets == Collect(config.domainAliases, Fold)
                      IN [alias \in DOMAIN targets |-> Fold(targets[alias])],
     scram |-> Collect(config.scram, Fold),
     totp |-> Collect(config.totp, Fold),
     disabled |-> {Fold(name) : name \in config.disabled},
     accountQuotas |-> Collect(config.accountQuotas, Fold),
     domainQuotas |-> Collect(config.domainQuotas, Fold),
     domainLimits |-> Collect(config.domainLimits, Fold),
     forwards |-> Collect(config.forwards, Fold),
     aliases |-> Collect(config.aliases, AddressKey),
     apps |-> [a \in {Fold(config.apps[i][1]) : i \in DOMAIN config.apps} |->
                  {config.apps[i][2] : i \in {j \in DOMAIN config.apps : Fold(config.apps[j][1]) = a}}],
     ldap |-> config.ldap,
     masked |-> Collect(config.masked, AddressKey),
     protocols |-> Collect(config.protocols, Fold)]

----------------------------------------------------------------------------
(* Directory::resolve.                                                     *)

NotLocal == [kind |-> "NotLocal", to |-> {}]
UnknownUser == [kind |-> "UnknownUser", to |-> {}]
Account(name) == [kind |-> "Account", to |-> {name}]

\* Mutant: members are looked up as they are spelled.
MembersSpelled(d, addresses) ==
    UNION {Get(d.accounts, addresses[i]) : i \in 1 .. Len(addresses)}

\* The accounts behind a list of member addresses, the unknown ones skipped.
Members(d, addresses) ==
    UNION {Get(d.accounts, AddressKey(addresses[i])) : i \in 1 .. Len(addresses)}

\* Everything before the earliest separator, unless it is the first character.
StripSubaddress(d, local) ==
    LET cuts == {i \in 1 .. Len(local) : local[i] \in d.separators}
    IN {SubSeq(local, 1, cut - 1) : cut \in {i \in cuts : i > 1 /\ \A j \in cuts : i <= j}}

Resolve(d, address) ==
    LET domain == IF address.domain \in DOMAIN d.domainAliases
                  THEN d.domainAliases[address.domain] ELSE address.domain
        At(local) == AddressKey([local |-> local, domain |-> domain])
        key == At(address.local)
        bases == {At(base) : base \in StripSubaddress(d, address.local)} \cap DOMAIN d.accounts
    IN IF domain \notin d.domains THEN NotLocal
       ELSE IF key \in DOMAIN d.accounts THEN Account(d.accounts[key])
       ELSE IF key \in DOMAIN d.aliases
       THEN [kind |-> "Alias", to |-> Members(d, d.aliases[key].members)]
       ELSE IF key \in DOMAIN d.masked THEN Account(d.masked[key])
       ELSE IF bases # {} THEN Account(d.accounts[CHOOSE base \in bases : TRUE])
       ELSE IF domain \in DOMAIN d.catchAll THEN Account(d.catchAll[domain])
       ELSE UnknownUser

\* Directory::owns_address: whether account may send as address.
OwnsAddress(d, account, address) ==
    LET key == AddressKey(address)
    IN IF key \in DOMAIN d.accounts THEN d.accounts[key] = account
       ELSE IF key \in DOMAIN d.aliases
       THEN LET spec == d.aliases[key]
                permitted == IF spec.senders = <<>> THEN spec.members ELSE spec.senders
            IN \E i \in 1 .. Len(permitted) : account \in Get(d.accounts, AddressKey(permitted[i]))
       ELSE key \in DOMAIN d.masked /\ d.masked[key] = account

\* Directory::alias_members and list_headers.
AliasMembers(d, address) ==
    {spec.members : spec \in {s \in Get(d.aliases, AddressKey(address)) : ~s.hidden}}
ListHeaders(d, address) ==
    UNION {spec.list : spec \in Get(d.aliases, AddressKey(address))}

----------------------------------------------------------------------------
(* Authentication.  A login has a name, or an address when it holds an @.  *)

\* The account a login names: Directory::credentials and scram_credentials
\* agree on it, except that a bare name needs a password hash.
Named(d, login) ==
    IF login.at
    THEN UNION {Resolve(d, a).to : a \in {x \in Parse(login) : Resolve(d, x).kind = "Account"}}
    ELSE {Fold(login.local)}

Credentials(d, login) ==
    {[account |-> a, hash |-> d.hashes[a]] : a \in Named(d, login) \cap DOMAIN d.hashes}

ScramCredentials(d, login) ==
    UNION {d.scram[a] : a \in Named(d, login) \cap DOMAIN d.scram}

\* totp::verify: the code of this step or of one beside it.
TotpVerify(secret, code, now) ==
    LET counter == now \div DrStep
    IN \E step \in (IF counter = 0 THEN 0 ELSE counter - 1) .. counter + 1 :
          DrHotp[secret][step] = code

\* Mutant: the code is cut off and not verified.
TotpStripUnverified(password, secret, now) ==
    IF Len(password) > DrCodeLen THEN {SubSeq(password, 1, Len(password) - DrCodeLen)} ELSE {}

\* Directory::totp_strip; a secret that is no base32 verifies nothing.
TotpStrip(password, secret, now) ==
    LET split == Len(password) - DrCodeLen
    IN IF /\ split >= 1
          /\ \A i \in split + 1 .. Len(password) : password[i] \in DrDigits
          /\ secret \in DOMAIN DrHotp
          /\ TotpVerify(secret, SubSeq(password, split + 1, Len(password)), now)
       THEN {SubSeq(password, 1, split)} ELSE {}

\* AppPassword::admits: the secret, its expiry and its network all hold.
Admits(app, password, ip, now) ==
    /\ app.secret = password
    /\ \A expiry \in app.expires : now < expiry
    /\ \A network \in app.cidr : ip # {} /\ ip \subseteq network

AuthenticateLocal(d, login, password, ip, now) ==
    {c.account : c \in
        {x \in Credentials(d, login) :
            /\ x.account \notin d.disabled
            /\ \/ LET primary == IF x.account \in DOMAIN d.totp
                                 THEN TotpStrip(password, d.totp[x.account], now) ELSE {password}
                  IN x.hash \in primary
               \/ x.account \in DOMAIN d.apps
                  /\ \E app \in d.apps[x.account] : Admits(app, password, ip, now)}}

\* LdapAuthenticator::authenticate: search for the login, name the account by
\* its first account or mail attribute, and bind as the entry with a password
\* that is not empty.  The entries a search finds come in the server's order.
FirstValue(values) == IF values # <<>> /\ values[1] # <<>> THEN {values[1]} ELSE {}
EntryAccount(entry) ==
    IF FirstValue(entry.names) # {} THEN FirstValue(entry.names) ELSE FirstValue(entry.mails)
LdapAuthenticate(ldap, login, password) ==
    LET Matches(i) == ldap.entries[i].login = login
        first == {i \in 1 .. Len(ldap.entries) : Matches(i) /\ \A j \in 1 .. i - 1 : ~Matches(j)}
    IN IF ldap.up /\ password # <<>>
       THEN UNION {EntryAccount(ldap.entries[i]) :
                      i \in {k \in first : /\ ldap.entries[k].dn # <<>>
                                          /\ ldap.entries[k].password = password}}
       ELSE {}

\* Directory::is_protocol_allowed: an account without a list may use any.
ProtocolAllowed(d, account, protocol) ==
    Fold(account) \in DOMAIN d.protocols => protocol \in d.protocols[Fold(account)]

\* Directory::authenticate_with_ip.
Authenticate(d, login, password, ip, protocol, now) ==
    LET local == AuthenticateLocal(d, login, password, ip, now)
        found == IF local # {} THEN local
                 ELSE UNION {LdapAuthenticate(ldap, login, password) : ldap \in d.ldap}
    IN {account \in found : ProtocolAllowed(d, account, protocol)}

\* The account a SCRAM exchange of this login is for: scram_client_first asks
\* for the SCRAM credentials, the account and the protocol.
ScramAccount(d, login, protocol) ==
    IF ScramCredentials(d, login) = {} THEN {}
    ELSE {c.account : c \in {x \in Credentials(d, login) : ProtocolAllowed(d, x.account, protocol)}}

----------------------------------------------------------------------------
(* What an account takes from its domains: the possible results of a walk  *)
(* through the addresses of the account.                                   *)

AddressesFor(d, account) == {key \in DOMAIN d.accounts : Fold(d.accounts[key]) = Fold(account)}
\* Mutant: the limit of whichever domain comes first.
FromFirstDomain(d, account, map) ==
    IF DOMAIN map = {} THEN {{}} ELSE {{map[CHOOSE domain \in DOMAIN map : TRUE]}}
FromDomains(d, account, map) ==
    LET found == {map[key.domain] : key \in {k \in AddressesFor(d, account) : k.domain \in DOMAIN map}}
    IN IF found = {} THEN {{}} ELSE {{value} : value \in found}

QuotaFor(d, account) ==
    IF Fold(account) \in DOMAIN d.accountQuotas THEN {{d.accountQuotas[Fold(account)]}}
    ELSE FromDomains(d, account, d.domainQuotas)
SubmissionLimitFor(d, account) == FromDomains(d, account, d.domainLimits)
Forwards(d, account) == Get(d.forwards, Fold(account))

----------------------------------------------------------------------------
(* The published directory, replaced as a whole.  A configured alias of a  *)
(* domain is no domain itself and its target is one, and an account name   *)
(* has no capitals (config/validate.rs); the tag separators are no letters.*)
(* The directory has at most one LDAP server, and a domain at most one     *)
(* normal form.                                                            *)

Valid(config) ==
    /\ Len(config.domainAliases) \in Nat
    /\ DOMAIN config.domainAliases = 1 .. Len(config.domainAliases)
    /\ \A i \in DOMAIN config.domainAliases :
          /\ Fold(config.domainAliases[i][1]) \notin {Fold(domain) : domain \in config.domains}
          /\ Fold(config.domainAliases[i][2]) \in {Fold(domain) : domain \in config.domains}
    /\ \A i \in DOMAIN config.addresses : config.addresses[i][2] \in DrNames
    /\ Len(config.addresses) \in Nat /\ DOMAIN config.addresses = 1 .. Len(config.addresses)
    /\ \A c \in DOMAIN DrLower : c \in config.separators <=> DrLower[c] \in config.separators
    /\ \A a, b \in config.ldap : a = b

ASSUME ConfigsAssumption == \A config \in DrConfigs : Valid(config)
ASSUME FoldAssumption ==
    \A c \in DOMAIN DrLower : DrLower[c] \in DOMAIN DrLower /\ DrLower[DrLower[c]] = DrLower[c]
ASSUME NamesAssumption == \A name \in DrNames : Fold(name) = name
ASSUME AddressesAssumption ==
    \A address \in DrAddresses :
        /\ address \in [local : Seq(DOMAIN DrLower), domain : Seq(DOMAIN DrLower)]
        /\ Fold(address.domain) = address.domain
ASSUME OptionsAssumption == \A d \in DOMAIN DrNormal : \A a, b \in DrNormal[d] : a = b
ASSUME PasswordsAssumption == DrCodeLen \in Nat /\ \A password \in DrPasswords : Len(password) \in Nat
ASSUME LoginsAssumption == \A login \in DrLogins : login.at => login.domain \in DOMAIN DrNormal

DrInit == \E config \in DrConfigs : dir = Build(config)
Replace(config) == dir' = Build(config)
DrNext == \E config \in DrConfigs : Replace(config)
DrSpec == DrInit /\ [][DrNext]_dir

----------------------------------------------------------------------------
\* Whoever may send as a local address receives what is sent to it, except
\* the senders an alias names; so an answer to any mail this server lets out
\* comes back to its author (owns_address against resolve).
SendersReceive ==
    \A address \in DrAddresses : \A account \in DrNames :
        /\ address.domain \in dir.domains
        /\ OwnsAddress(dir, account, address)
        /\ AddressKey(address) \in DOMAIN dir.accounts
           \/ ~\E spec \in Get(dir.aliases, AddressKey(address)) : spec.senders # <<>>
        => account \in Resolve(dir, address).to

\* An address means the same in every case it is spelled in and at every
\* alias of its domain, and an address of an account is the account's whatever
\* aliases, masks and catch-alls say (resolve, "lookups are case-insensitive").
ResolutionBlind ==
    \A address \in DrAddresses :
        /\ Resolve(dir, [address EXCEPT !.local = Fold(address.local)]) = Resolve(dir, address)
        /\ \A target \in Get(dir.domainAliases, address.domain) :
              Resolve(dir, [address EXCEPT !.domain = target]) = Resolve(dir, address)
        /\ address.domain \in dir.domains /\ AddressKey(address) \in DOMAIN dir.accounts =>
              Resolve(dir, address) = Account(dir.accounts[AddressKey(address)])

\* The password and code of the account, or one of its app passwords.
OwnSecret(d, account, password, ip, now) ==
    \/ account \in DOMAIN d.hashes
       /\ IF account \in DOMAIN d.totp
          THEN \E n \in 1 .. Len(password) :
                  /\ SubSeq(password, 1, n) = d.hashes[account] /\ n + DrCodeLen = Len(password)
                  /\ TotpVerify(d.totp[account], SubSeq(password, n + 1, Len(password)), now)
          ELSE password = d.hashes[account]
    \/ account \in DOMAIN d.apps /\ \E app \in d.apps[account] : Admits(app, password, ip, now)

\* What authenticates is one account, through a protocol it may use, by its
\* own password and current code, an app password in force, or a bind at the
\* LDAP server; no account the store disabled gets in by a local secret
\* (authenticate_with_ip).
AuthenticationSound ==
    \A login \in DrLogins, password \in DrPasswords, ip \in DrIps, protocol \in DrProtocols,
       now \in DrTimes :
        LET found == Authenticate(dir, login, password, ip, protocol, now)
        IN /\ \A a, b \in found : a = b
           /\ \A account \in found :
                /\ ProtocolAllowed(dir, account, protocol)
                /\ \/ /\ account \in Named(dir, login) /\ account \notin dir.disabled
                      /\ OwnSecret(dir, account, password, ip, now)
                   \/ \E ldap \in dir.ldap : \E i \in 1 .. Len(ldap.entries) :
                         /\ ldap.up /\ ldap.entries[i].login = login /\ password # <<>>
                         /\ ldap.entries[i].password = password
                         /\ account \in EntryAccount(ldap.entries[i])

\* A limit an account takes from a domain is that of a domain it has an
\* address in, it takes one if there is one, and its own quota comes first
\* (quota_for, submission_limit_for: "so the resolved domain is the one the
\* address actually lives under").
LimitsOwn ==
    \A account \in DrNames :
        LET Domains == {key.domain : key \in {k \in DOMAIN dir.accounts : dir.accounts[k] = account}}
            Found(map) == {map[domain] : domain \in Domains \cap DOMAIN map}
        IN /\ UNION SubmissionLimitFor(dir, account) = Found(dir.domainLimits)
           /\ Fold(account) \notin DOMAIN dir.accountQuotas =>
                 UNION QuotaFor(dir, account) = Found(dir.domainQuotas)
           /\ \A quota \in Get(dir.accountQuotas, Fold(account)) : QuotaFor(dir, account) = {{quota}}
           /\ {} \in QuotaFor(dir, account) => QuotaFor(dir, account) = {{}}

\* Whatever configuration the directory was last built from, its answers agree
\* with each other and with who may do what (directory.rs, the lookups of one
\* published table).
DirectoryCorrect == SendersReceive /\ ResolutionBlind /\ AuthenticationSound /\ LimitsOwn

\* "Account names administratively disabled (kept on disk, cannot
\* authenticate)" (directory.rs): neither by a password nor by SCRAM, whose
\* sessions ask for the credentials and the protocol (session/scram.rs).
DisabledKeptOut ==
    \A login \in DrLogins, protocol \in DrProtocols :
        ScramAccount(dir, login, protocol) \cap dir.disabled = {}
=============================================================================

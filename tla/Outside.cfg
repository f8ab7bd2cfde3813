SPECIFICATION OutSpec
CONSTANTS
    Accounts = {"ann", "bob"}
    Addresses = {"annAddr", "bobAddr", "ghost", "foreign"}
    Local = {"annAddr", "bobAddr"}
    Unknown = {"ghost"}
    Owns <- MCOwns
    Nobody = "nobody"
    NullPath = "<>"
    Listeners = {"plain", "starttls", "implicit"}
    Mechanisms = {"EXTERNAL", "SCRAM-PLUS", "SCRAM", "PLAIN", "LOGIN", "OAUTH"}
    MaxMessageSize = 3
    MaxRecipients = 2
    MaxErrorStreak = 3
    MaxAuthFailures = 3
    DkInterval = 3
    DkOverlap = 2
    DkHorizon = 6
    DkPlan <- MCPlan
    AcDomains <- MCCertDomains
    AcMethods = {"http-01", "dns-01", "tls-alpn-01"}
    AcPoll = 2
    AcLifetime = 3
    AcBefore = 1
    AcHorizon = 4
    AcMaxCerts = 2
    AcClientCa = TRUE
    AcTlsa = TRUE
    TpDomains <- MCDomains
    TpSenders = {"", "relayed", "login", "nomail"}
    TpRules <- MCRules
    TpMode = "Opportunistic"
    TpDocuments <- MCDocuments
    TpExchangers <- MCExchangers
    TpTlsa <- MCTlsa
    TpPeers <- MCPeers
    TpRecipients = 2
    TpMaxCache = 2
    TpNegativeTtl = 1
    TpHorizon = 4
INVARIANTS
    TypeOK
    AuthorisedThroughout
    NothingFromCleartext
    DeliveredFaithfully
    DnsCorrect
    DkimCorrect
    CertificatesCorrect
    SenderChecksCorrect
    TransportCorrect
    DavCorrect
    ApiCorrect
PROPERTIES
    RecipientsFinal
CHECK_DEADLOCK FALSE

SPECIFICATION Spec
CONSTANTS
    r1 = r1
    r2 = r2
    r3 = r3
    r4 = r4
    alice = alice
    NullSender = NullSender
    Recipients = {r1, r2, r3, r4}
    Senders = {alice, NullSender}
    Domains = {1, 2, 3}
    DomainOf <- MCDomainOf
    Unparseable = {r4}
    FailDomains = {3}
    RelayDomains = {2}
    BackoffBase = 1
    BackoffCap = 1
    Ids = {1}
    Messages <- MCMessages
    MaxAge = 2
    WarnAge = 0
    Removable = {1}
    Clearable = {r1}
    MaxFaults = 1
    MaxBirth = 0
    MaxTime = 2
CHECK_DEADLOCK FALSE
INVARIANTS
    TypeOK
    NoSilentLoss
    FailureHandled
    CopiesBounded
PROPERTIES
    KeepsCustody

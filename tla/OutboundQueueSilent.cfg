SPECIFICATION SilentRemoteSpec
CONSTANTS
    r1 = r1
    r2 = r2
    r3 = r3
    r4 = r4
    alice = alice
    NullSender = NullSender
    Recipients = {r1, r2, r3, r4}
    Senders = {alice, NullSender}
    Domains = {1, 2, 3}
    DomainOf <- MCDomainOf
    Unparseable = {r4}
    FailDomains = {3}
    RelayDomains = {2}
    BackoffBase = 1
    BackoffCap = 2
    Ids = {1, 2}
    Messages <- MCPair
    MaxAge = 1
    WarnAge = 1
    Removable = {}
    Clearable = {}
    MaxFaults = 0
    MaxBirth = 0
    MaxTime = 3
CHECK_DEADLOCK FALSE
PROPERTIES
    Drained

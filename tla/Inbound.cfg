SPECIFICATION Spec
CONSTANTS
    Conns = {1, 2}
    Mails <- MCMails
    NullSender = "null"
    Accounts = {1, 2}
    Members <- MCMembers
    Aliases = {"team"}
    Lists = {"team"}
    Remote = {"out"}
    SrsReturns = {"srs"}
    Scripts <- MCScripts
    NoFilter <- MCNoFilter
    Forwarding <- MCForwarding
    SafeNames = {"Rejects", "Rule", "Filed"}
    HopLimit = 2
    MaxForwardHops = 1
    GreylistDelay = 1
    GreylistAge = 2
    VacationDays = 1
    MaxFaults = 1
    MaxAttempts <- MCMaxAttempts
    Removable = {2}
    MaxTime = 2
INVARIANTS TypeOK NothingDropped OneCopyEach QuarantineContained 
CHECK_DEADLOCK FALSE

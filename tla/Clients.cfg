SPECIFICATION Spec
CONSTANTS
    PopConns = {1, 2}
    PopUids = {1, 2}
    PopUndecodable = {}
    PopErrorStreak = 1
    PopBodies <- MCBodies
    MsConns = {1, 2}
    MsNames <- MCNames
    MsTrim <- MCTrim
    MsTexts = {"x", "y", "bad"}
    MsParsing = {"x", "y"}
    MsPrefix <- MCPrefix
    MsMaxFailures = 2
    GrCodes = {1}
    GrAccounts = {"a", "b"}
    GrVerifiers = {"v", "w"}
    GrApprovers = {"p1", "p2"}
    GrTtl = 3
    GrInterval = 2
    GrHorizon = 6
    ImInbox = "INBOX"
    ImFolders = {"A", "B"}
    ImUses = {"bad", "search", "append", "uidonly", "notify"}
    ImMechanisms = {"Plain", "LoginUser", "ScramFirst"}
    ImMaxFailures = 3
    ImErrorStreak = 2
    ImMaxUid = 4
    ImMaxMailboxOps = 2
INVARIANTS
    Pop3Correct
    
    GrantsCorrect
    
    ClientDataCorrect
CHECK_DEADLOCK FALSE

SPECIFICATION Spec
CONSTANTS
    DrLower <- MCLower
    DrDigits = {"0", "1"}
    DrAtom = {"a", "A", "b", "d", "e", "m", "p", "q", "t", "v", "+", "0", "1"}
    DrNormal <- MCNormal
    DrMaxLocal = 3
    DrCodeLen = 2
    DrStep = 30
    DrHotp <- MCHotp
    DrConfigs <- MCConfigs
    DrAddresses <- MCAddresses
    DrNames <- MCNames
    DrLogins <- MCLogins
    DrPasswords <- MCPasswords
    DrIps <- MCIps
    DrProtocols <- MCProtocols
    DrTimes <- MCTimes
    ScExchanges <- MCExchanges
    ScNonce <- MCNonce
    ScBinding <- MCBinding
    ScStored <- MCStored
    ScFirsts <- MCFirsts
    ScFinals <- MCFinals
    ScUndecodable <- MCUndecodable
    ScChars = {"0", "1", "2", "x"}
    SrLower <- MCSrLower
    SrAlphabet <- MCAlphabet
    SrModulus = 1024
    SrMaxAge = 14
    SrHost <- MCHost
    SrSecret = "#"
    SrSenders <- MCSenders
    SrDays <- MCDays
    SrMaxCopies = 1
INVARIANTS
    
    ScramCorrect
    SrsCorrect
CHECK_DEADLOCK FALSE

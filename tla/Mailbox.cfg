SPECIFICATION Spec
CONSTANTS
    s1 = s1
    s2 = s2
    Messages = {1, 2}
    Sessions = {s1, s2}
    Retention = 0
    Encrypted = FALSE
    SessionSpan = 1
    Commands = {"deliver", "select", "store", "expunge"}
    Mishaps = {}
    MaxTime = 0
    MaxModseq = 4
SYMMETRY Connections
CHECK_DEADLOCK FALSE
INVARIANT
    MailboxCorrect

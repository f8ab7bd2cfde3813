SPECIFICATION Spec
CONSTANTS
    s1 = s1
    s2 = s2
    Messages = {1, 2, 3}
    Sessions = {s1, s2}
    Retention = 1
    Encrypted = FALSE
    SessionSpan = 1
    Commands = {"deliver", "select"}
    Mishaps = {"overlap"}
    MaxTime = 0
    MaxModseq = 3
SYMMETRY Connections
CHECK_DEADLOCK FALSE
INVARIANT
    UidsNeverReused

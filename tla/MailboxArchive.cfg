SPECIFICATION Spec
CONSTANTS
    s1 = s1
    s2 = s2
    Messages = {1, 2}
    Sessions = {s1}
    Retention = 1
    Encrypted = FALSE
    SessionSpan = 1
    Commands = {"deliver", "select", "idle", "store", "expunge", "destroy", "append", "replace", "restore"}
    Mishaps = {"pop3", "crash", "fault"}
    MaxTime = 2
    MaxModseq = 3
CONSTRAINT NotCutShort
CHECK_DEADLOCK FALSE
INVARIANT
    MailboxCorrect
    RetentionKept

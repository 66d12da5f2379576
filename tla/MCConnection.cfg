SPECIFICATION FairSpec
CONSTANTS
    Users = {u1, u2}
    Pausers = {u1}
    Sizes = {1, 2}
    MaxWriteBuffer = 2
    MaxBytes = 3
    MaxCalls = 3
    MaxReads = 1
CHECK_DEADLOCK FALSE
INVARIANTS StreamIntact NoLostWriteInterest CloseIsLast ReadingFollowsPause
PROPERTY AcceptedIsSent

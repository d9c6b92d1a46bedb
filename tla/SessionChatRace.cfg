SPECIFICATION TurnsSpec
CONSTANTS
    Keys = {k1}
    Calls = {c1}
    NoCall = NoCall
    Chats = {r1}
    NoArray = NoArray
    HardCap = 20
    KeepTail = 2
    Resets = {FALSE}
    MaxToolCalls = 1
    MaxRounds = 1
INVARIANT NoReplyLost
CHECK_DEADLOCK FALSE

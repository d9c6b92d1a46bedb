\* Two scenes over two sessions: three agent turns and a /chat request, or one
\* agent turn and two /chat requests, with two rounds of one tool call each;
\* three messages of a channel, or two overlapping turns of another entry
\* point, with one checkpoint and one resume; three outcomes of one scope with
\* a window of two, one restart and one cooldown that ends; three log calls of
\* two sessions that share a file, one midnight.
SPECIFICATION SessionsSpec
SYMMETRY MCSymmetry
CONSTANTS
    Keys = {k1, k2}
    Calls = {c1, c2, c3}
    NoCall = NoCall
    Chats = {r1, r2}
    NoArray = NoArray
    HardCap = 4
    KeepTail = 2
    Resets = {FALSE, TRUE}
    MaxToolCalls = 1
    MaxRounds = 2
    Exchanges = {x1, x2, x3}
    MaxDirect = 2
    Checkpoints = {p1}
    Resumes = {u1}
    NoExchange = NoExchange
    NoList = NoList
    HistoryCap = 4
    HistoryTail = 2
    MaxLoops <- MCLoops
    MaxAsked = 1
    Scopes = {g1}
    MaxTurns = 3
    rollingWindowSize = 2
    minSamples = 1
    minRate = 70
    alertMinSamples = 1
    alertRate = 55
    Outcomes = {"failed", "success"}
    MaxRestarts = 1
    MaxCooldowns = 1
    LogCalls = {l1, l2, l3}
    NoLogCall = NoLogCall
    LogSessions = {y1, y2}
    LogNames = {f}
    NameOf <- MCNameOf
    MaxDays = 1
INVARIANTS LockedTurnsKept HistoryBounded ConversationInv ReportsOwnResults AdaptiveInv SuccessRestores SessionLogInv
CHECK_DEADLOCK FALSE

\* One path beside a protected one is enough to show it.
SPECIFICATION OversightSpec
CONSTANTS
    Paths = {home, secret}
    Protected = {secret}
    Around <- MCAround
    Below <- MCBelow
    Configs <- MCConfigs
    MaxTurns = 1
    MaxRounds = 2
    MaxCalls = 2
    Requests = {r1, r2, r3}
    Senders = {s1, s2}
    Codes = {c1, c2}
    NoSender = NoSender
    NoCode = NoCode
    PairingCalls = {o1, o2}
    maxPending = 1
    Members = {a}
    Authors = {b}
    Feed = {p}
    Author <- MCAuthor
    Emojis = {e}
    Sessions = {x1}
    NoMember = NoMember
    NoPost = NoPost
    maxActions <- MCActions
    maxHighSignalPerAuthor = 1
    maxCommentStimuli = 1
    maxCreatePostStimuli = 1
    MaxActions = 1
    MaxExpired = 1
    Stimuli = {q1}
    maxPostsPerHour = 1
CHECK_DEADLOCK FALSE
INVARIANT ProtectedStayClosed

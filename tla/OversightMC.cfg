\* Two paths, one of them protected, two rounds of two calls; three requests
\* for authorization; two senders, two overlapping calls, one request at most;
\* two browsing sessions of one agent, one decision each, every limit
\* one; three stimuli at a limit of one post an hour.
SPECIFICATION OversightSpec
CONSTANTS
    Paths = {home, secret}
    Protected = {secret}
    Around <- MCAround
    Below <- MCBelow
    Configs <- MCConfigs
    MaxTurns = 1
    MaxRounds = 2
    MaxCalls = 2
    Requests = {r1, r2, r3}
    Senders = {s1, s2}
    Codes = {c1, c2}
    NoSender = NoSender
    NoCode = NoCode
    PairingCalls = {o1, o2}
    maxPending = 1
    Members = {a}
    Authors = {b}
    Feed = {p}
    Author <- MCAuthor
    Emojis = {e}
    Sessions = {x1, x2}
    NoMember = NoMember
    NoPost = NoPost
    maxActions <- MCActions
    maxHighSignalPerAuthor = 1
    maxCommentStimuli = 1
    maxCreatePostStimuli = 1
    MaxActions = 1
    MaxExpired = 1
    Stimuli = {q1, q2, q3}
    maxPostsPerHour = 1
CHECK_DEADLOCK FALSE
INVARIANTS ToolTurnInv OnlyConsentedCallsRun GrantsMatchConsent AuthorizationInv PairingInv BrowsingInv NewsroomInv

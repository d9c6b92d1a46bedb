\* One citizen, two turns, one registration; two serves, one stop, one restart
\* for each watchdog, health checks that may fail once.
SPECIFICATION RecoverySpec
CONSTANTS
    Agents = {a1}
    Slots = {t1, t2}
    Registrars = {r1}
    MaxGen = 1
    Timers = {h1, h2}
    NoAgent = NoAgent
    NoTimer = NoTimer
    FailureThreshold = 2
    SuccessThreshold = 1
    RepeatThreshold = 2
    CostCap = 1
    Costs = {0, 1}
    s1 = s1
    Serves = {s1, s2}
    Stops = {c1}
    NoDog = NoDog
    maxRestarts = 1
    MaxAgents = 3
    CONSECUTIVE_FAILURES_THRESHOLD = 2
INVARIANTS DaemonsInv
PROPERTIES StuckAgentRecovers DeadAgentHandled
CHECK_DEADLOCK FALSE

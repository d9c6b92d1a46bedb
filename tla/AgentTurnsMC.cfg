\* One citizen, two turns, two registrations; two citizens of the enclaves, two
\* overlapping initializations, one proposal or decision.
SPECIFICATION NetworkSpec
CONSTANTS
    Agents = {a1}
    Slots = {t1, t2}
    Registrars = {r1, r2}
    MaxGen = 2
    Timers = {h1, h2}
    NoAgent = NoAgent
    NoTimer = NoTimer
    FailureThreshold = 2
    SuccessThreshold = 1
    RepeatThreshold = 2
    CostCap = 1
    Costs = {0, 1}
    c1 = c1
    intro = intro
    own = own
    Residents = {c1, c2}
    Curator = curator
    EnclaveNames = {intro, own}
    Defaults = {intro}
    Introductions = intro
    Interests <- MCInterests
    Alike <- MCAlike
    Stored <- MCStored
    maxEnclaves = 2
    Inits = {i1, i2}
    NoInit = NoInit
    MaxChanges = 1
INVARIANTS AgentsInv SpendBounded EnclaveInv CitizensIntroduced
PROPERTIES StoppedForGood
SYMMETRY SlotsAlike
CHECK_DEADLOCK FALSE

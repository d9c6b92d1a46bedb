SPECIFICATION Spec
CONSTANTS
    Agents = {a1}
    Slots = {t1, t2}
    Registrars = {r1}
    MaxGen = 1
    Timers = {h1, h2}
    NoAgent = NoAgent
    NoTimer = NoTimer
    FailureThreshold = 2
    SuccessThreshold = 1
    RepeatThreshold = 2
    CostCap = 1
    Costs = {0, 1}
PROPERTY RecoveryLiftsOnlyStuckPauses
CHECK_DEADLOCK FALSE

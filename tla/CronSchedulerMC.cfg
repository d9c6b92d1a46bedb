SPECIFICATION CronFairSpec
CONSTANTS
    Ids = {j1, j2}
    Incarnations = 2
    Schedules <- MCSchedules
    Consulted <- MCConsulted
    Persisted <- MCPersisted
    Tick = Tick
    Manual = {m1}
    SearchWindow = 4
    NoJob = NoJob
    Undefined = Undefined
    MaxInserted = 2
    MaxTime = 1
INVARIANTS CronInv NoOccurrenceTwice NextRunIsFirst
PROPERTIES TickFiresOnlyDueJobs DueJobFires

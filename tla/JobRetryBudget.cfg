\* One job, executed by the loop and then directly.
SPECIFICATION ExecutorFairSpec
CONSTANTS
    Jobs = {1}
    Polls = {p1}
    Executions = {e1}
    Triggerable = {1}
    maxConcurrent = 1
    maxRetries = 2
PROPERTY GivesUpOnlyAfterAllAttempts

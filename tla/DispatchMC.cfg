\* Four calls over two keys: a chain of four on one key, two chains side by
\* side, a key that drains and is used again.  Two jobs, one slot, two
\* overlapping polls, two executions, two attempts.
SPECIFICATION DispatchSpec
CONSTANTS
    Keys = {"k1", "k2"}
    Calls = {1, 2, 3, 4}
    NoCall = 0
    Jobs = {1, 2}
    Polls = {p1, p2}
    Executions = {e1, e2}
    Triggerable = {1}
    maxConcurrent = 1
    maxRetries = 2
INVARIANTS MutexInv MutualExclusion ExecutorInv
PROPERTIES ImplementsFairLock EveryCallServed WaitingJobStarts
CHECK_DEADLOCK FALSE

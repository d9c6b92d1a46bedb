---------------------------- MODULE JobExecutor -----------------------------
(***************************************************************************)
(* autonomy/jobs/JobExecutor.ts: polls the backend for the jobs assigned   *)
(* to an agent and executes them, with a concurrency limit and retries.    *)
(* Polls overlap (the interval does not wait for the last one), executions *)
(* overlap, and an operator can have a job executed directly.  Each action *)
(* is what runs between two awaits that matter to the shared state.        *)
(***************************************************************************)
EXTENDS Naturals, FiniteSets

CONSTANTS
    Jobs,               \* the jobs assigned to the agent, numbered by age
    Polls,              \* the polls that can be under way at once
    Executions,         \* the executions that can be under way at once
    Triggerable,        \* the jobs an operator has executed directly, once each: a bound
    maxConcurrent,
    maxRetries

ASSUME JobExecutorAssumption ==
    /\ Jobs \subseteq Nat /\ IsFiniteSet(Jobs) /\ Triggerable \subseteq Jobs
    /\ IsFiniteSet(Executions)
    /\ maxConcurrent \in Nat \ {0} /\ maxRetries \in Nat \ {0}

VARIABLES
    running,            \* intervalId is set
    poll,               \* the polls
    activeExecutions,   \* the ids of jobs a poll had executed
    execution,          \* the executions
    retryCounts,        \* 0 for a job without an entry
    marked,             \* the jobs the backend knows to have been started
    triggered           \* the jobs an operator had executed directly

executorVars == <<running, poll, activeExecutions, execution, retryCounts, marked, triggered>>

IdlePoll == [at |-> "idle", limit |-> 0, jobs |-> {}]
NoExecution == [at |-> "idle", job |-> 0, polled |-> FALSE, attempt |-> 0, success |-> FALSE]

ExecutorInit ==
    /\ running = FALSE
    /\ poll = [p \in Polls |-> IdlePoll]
    /\ activeExecutions = {}
    /\ execution = [e \in Executions |-> NoExecution]
    /\ retryCounts = [j \in Jobs |-> 0]
    /\ marked = {}
    /\ triggered = {}

-----------------------------------------------------------------------------
(* The first n jobs of a list that is ordered by age.                      *)
IsOldest(S, T, n) ==
    /\ S \subseteq T
    /\ Cardinality(S) = IF n < Cardinality(T) THEN n ELSE Cardinality(T)
    /\ \A j \in S, k \in T \ S : j < k

Room == IF Cardinality(activeExecutions) < maxConcurrent
        THEN maxConcurrent - Cardinality(activeExecutions) ELSE 0

(* pollAndExecute up to its await; with no room it returns.                *)
AfterPollCall(p) ==
    IF Room = 0 THEN poll ELSE [poll EXCEPT ![p] = [at |-> "asked", limit |-> Room, jobs |-> {}]]

StartExecutor(p) ==
    /\ ~running /\ poll[p].at = "idle"
    /\ running' = TRUE
    /\ poll' = AfterPollCall(p)
    /\ UNCHANGED <<activeExecutions, execution, retryCounts, marked, triggered>>

(* Polls and executions under way go on.                                   *)
StopExecutor ==
    /\ running' = FALSE
    /\ UNCHANGED <<poll, activeExecutions, execution, retryCounts, marked, triggered>>

IntervalFires(p) ==
    /\ running /\ poll[p].at = "idle" /\ Room > 0
    /\ poll' = AfterPollCall(p)
    /\ UNCHANGED <<running, activeExecutions, execution, retryCounts, marked, triggered>>

(* The backend selects jobs that have not been started, or fails; the      *)
(* executor gets the list some time later.                                 *)
PollAnswered(p) ==
    /\ poll[p].at = "asked"
    /\ \E S \in SUBSET (Jobs \ marked) :
         /\ IsOldest(S, Jobs \ marked, poll[p].limit)
         /\ poll' = [poll EXCEPT ![p].at = "answered", ![p].jobs = S]
    /\ UNCHANGED <<running, activeExecutions, execution, retryCounts, marked, triggered>>

PollFails(p) ==
    /\ poll[p].at = "asked"
    /\ poll' = [poll EXCEPT ![p] = IdlePoll]
    /\ UNCHANGED <<running, activeExecutions, execution, retryCounts, marked, triggered>>

Begun(j, polled) ==
    [at |-> "starting", job |-> j, polled |-> polled, attempt |-> 1, success |-> FALSE]

(* Executes the jobs of S, each in an execution of its own.                *)
Execute(S, p) ==
    /\ \E slot \in [S -> {e \in Executions : execution[e].at = "idle"}] :
         /\ \A j, k \in S : slot[j] = slot[k] => j = k
         /\ execution' = [e \in Executions |->
                            IF \E j \in S : slot[j] = e
                            THEN Begun(CHOOSE j \in S : slot[j] = e, TRUE) ELSE execution[e]]
    /\ activeExecutions' = activeExecutions \cup S
    /\ poll' = [poll EXCEPT ![p] = IdlePoll]
    /\ UNCHANGED <<running, retryCounts, marked, triggered>>

(* Mutant: the limit is not looked at again after the await.               *)
PollDeliveredUnlimited(p) ==
    /\ poll[p].at = "answered"
    /\ Execute(poll[p].jobs \ activeExecutions, p)

(* The loop over the list: jobs under execution are skipped, and it ends   *)
(* when there is no room left.                                             *)
PollDelivered(p) ==
    LET fresh == poll[p].jobs \ activeExecutions IN
    /\ poll[p].at = "answered"
    /\ \E S \in SUBSET fresh : IsOldest(S, fresh, Room) /\ Execute(S, p)

(* executeJob: no limit, and no entry in activeExecutions.                 *)
ExecuteDirectly(e, j) ==
    /\ execution[e].at = "idle" /\ j \in Triggerable \ triggered
    /\ execution' = [execution EXCEPT ![e] = Begun(j, FALSE)]
    /\ triggered' = triggered \cup {j}
    /\ UNCHANGED <<running, poll, activeExecutions, retryCounts, marked>>

-----------------------------------------------------------------------------
(* runExecution.                                                           *)

(* onExecutionStart marks the job in the backend.                          *)
StartRecorded(e) ==
    /\ execution[e].at = "starting"
    /\ execution' = [execution EXCEPT ![e].at = "working"]
    /\ marked' = marked \cup {execution[e].job}
    /\ UNCHANGED <<running, poll, activeExecutions, retryCounts, triggered>>

(* onExecutionStart, the execution or the quality check throws.  The retry *)
(* count of the job stays what it is.                                      *)
ExecutionThrows(e) ==
    /\ execution[e].at \in {"starting", "working"}
    /\ execution' = [execution EXCEPT ![e].at = "reporting", ![e].success = FALSE]
    /\ UNCHANGED <<running, poll, activeExecutions, retryCounts, marked, triggered>>

QualityPasses(e) ==
    /\ execution[e].at = "working"
    /\ execution' = [execution EXCEPT ![e].at = "submitting"]
    /\ UNCHANGED <<running, poll, activeExecutions, retryCounts, marked, triggered>>

(* Mutant: one attempt too many.                                           *)
QualityFailsOnceMore(e) ==
    LET j == execution[e].job
        retryCount == retryCounts[j] + 1
        givesUp == retryCount > maxRetries
    IN  /\ execution[e].at = "working"
        /\ retryCounts' = [retryCounts EXCEPT ![j] = IF givesUp THEN 0 ELSE retryCount]
        /\ execution' = [execution EXCEPT ![e].at = IF givesUp THEN "reporting" ELSE "backoff"]
        /\ UNCHANGED <<running, poll, activeExecutions, marked, triggered>>

(* handleQualityFailure: counts, and gives up or sleeps.                   *)
QualityFails(e) ==
    LET j == execution[e].job
        retryCount == retryCounts[j] + 1
        givesUp == retryCount >= maxRetries
    IN  /\ execution[e].at = "working"
        /\ retryCounts' = [retryCounts EXCEPT ![j] = IF givesUp THEN 0 ELSE retryCount]
        /\ execution' = [execution EXCEPT ![e].at = IF givesUp THEN "reporting" ELSE "backoff"]
        /\ UNCHANGED <<running, poll, activeExecutions, marked, triggered>>

(* The sleep is over and runExecution begins again.                        *)
BackoffOver(e) ==
    /\ execution[e].at = "backoff"
    /\ execution' = [execution EXCEPT ![e].at = "starting", ![e].attempt = @ + 1]
    /\ UNCHANGED <<running, poll, activeExecutions, retryCounts, marked, triggered>>

(* The deliverable is stored and submitted, or the submission fails.       *)
Submitted(e) ==
    /\ execution[e].at = "submitting"
    /\ \E success \in BOOLEAN :
         execution' = [execution EXCEPT ![e].at = "reporting", ![e].success = success]
    /\ UNCHANGED <<running, poll, activeExecutions, retryCounts, marked, triggered>>

(* notifyComplete has returned; only a success clears the retry count.     *)
Reported(e) ==
    LET x == execution[e] IN
    /\ x.at = "reporting"
    /\ execution' = [execution EXCEPT
         ![e] = IF x.polled THEN [x EXCEPT !.at = "done"] ELSE NoExecution]
    /\ retryCounts' = IF x.success THEN [retryCounts EXCEPT ![x.job] = 0] ELSE retryCounts
    /\ UNCHANGED <<running, poll, activeExecutions, marked, triggered>>

(* Mutant: the slot is given back only after a success.                    *)
SlotFreedOnSuccess(e) ==
    /\ execution[e].at = "done"
    /\ activeExecutions' = IF execution[e].success THEN activeExecutions \ {execution[e].job}
                           ELSE activeExecutions
    /\ execution' = [execution EXCEPT ![e] = NoExecution]
    /\ UNCHANGED <<running, poll, retryCounts, marked, triggered>>

(* The finally of an execution that a poll began.                          *)
SlotFreed(e) ==
    /\ execution[e].at = "done"
    /\ activeExecutions' = activeExecutions \ {execution[e].job}
    /\ execution' = [execution EXCEPT ![e] = NoExecution]
    /\ UNCHANGED <<running, poll, retryCounts, marked, triggered>>

-----------------------------------------------------------------------------
ExecutorNext ==
    \/ StopExecutor
    \/ \E p \in Polls : \/ StartExecutor(p) \/ IntervalFires(p)
                        \/ PollAnswered(p) \/ PollFails(p) \/ PollDelivered(p)
    \/ \E e \in Executions :
         \/ \E j \in Jobs : ExecuteDirectly(e, j)
         \/ StartRecorded(e) \/ ExecutionThrows(e)
         \/ QualityPasses(e) \/ QualityFails(e) \/ BackoffOver(e)
         \/ Submitted(e) \/ Reported(e) \/ SlotFreed(e)

ExecutorSpec == ExecutorInit /\ [][ExecutorNext]_executorVars

(* Every callback settles and every sleep ends; the interval keeps firing; *)
(* the backend, asked and told again and again, does its part in the end.  *)
ExecutorFairness ==
    /\ \A p \in Polls : /\ WF_executorVars(IntervalFires(p))
                        /\ WF_executorVars(PollAnswered(p) \/ PollFails(p) \/ PollDelivered(p))
                        /\ SF_executorVars(PollAnswered(p))
    /\ \A e \in Executions :
         /\ SF_executorVars(StartRecorded(e))
         /\ WF_executorVars(\/ StartRecorded(e) \/ ExecutionThrows(e)
                            \/ QualityPasses(e) \/ QualityFails(e) \/ BackoffOver(e)
                            \/ Submitted(e) \/ Reported(e) \/ SlotFreed(e))
ExecutorFairSpec == ExecutorSpec /\ ExecutorFairness

-----------------------------------------------------------------------------
PollStates == [at : {"idle", "asked", "answered"}, limit : 0..maxConcurrent, jobs : SUBSET Jobs]
ExecutionStates ==
    [at : {"idle", "starting", "working", "backoff", "submitting", "reporting", "done"},
     job : Nat, polled : BOOLEAN, attempt : Nat, success : BOOLEAN]

ExecutorTypeOK ==
    /\ running \in BOOLEAN
    /\ poll \in [Polls -> PollStates]
    /\ activeExecutions \subseteq Jobs
    /\ execution \in [Executions -> ExecutionStates]
    /\ \A e \in Executions : /\ execution[e].at # "idle" => execution[e].job \in Jobs
                             /\ execution[e].at = "done" => execution[e].polled
    /\ retryCounts \in [Jobs -> 0..(maxRetries - 1)]
    /\ marked \subseteq Jobs /\ triggered \subseteq Jobs

Under(e) == execution[e].at # "idle"
Polled == {e \in Executions : Under(e) /\ execution[e].polled}

(* activeExecutions names exactly the jobs that polls are having executed, *)
(* each by one execution: the limit and the skipping of jobs rest on it.   *)
ActiveExact ==
    /\ activeExecutions = {execution[e].job : e \in Polled}
    /\ \A d, e \in Polled : execution[d].job = execution[e].job => d = e

(* "Maximum concurrent job executions per agent" (JobExecutor.ts:81): a    *)
(* limit read before an await holds for overlapping polls too.             *)
ConcurrencyLimit == Cardinality(Polled) <= maxConcurrent

(* "Maximum retry attempts per job" (JobExecutor.ts:86): failures are      *)
(* counted per job, across the executions of it, and no order of errors,   *)
(* stale polls and restarts gives a polled execution more attempts.        *)
AttemptsBounded ==
    \A e \in Executions :
        Under(e) /\ execution[e].job \notin triggered => execution[e].attempt <= maxRetries

(* The inductive invariant: besides the above, the limit in terms of the   *)
(* set the code consults, that direct executions are of triggered jobs,    *)
(* and that an attempt is a failure counted before and not yet forgotten.  *)
AttemptsCounted ==
    \A e \in Executions :
        Under(e) /\ execution[e].job \notin triggered =>
            LET x == execution[e] IN
            /\ x.polled
            /\ x.attempt <= IF x.at \in {"starting", "working"} THEN retryCounts[x.job] + 1
                            ELSE IF x.at = "backoff" THEN retryCounts[x.job] ELSE maxRetries

ExecutorInv ==
    /\ ExecutorTypeOK /\ ActiveExact
    /\ Cardinality(activeExecutions) <= maxConcurrent
    /\ AttemptsCounted

(* A job that waits in the backend is started, unless the loop is stopped: *)
(* no failure of a poll or an execution wedges the loop.                   *)
WaitingJobStarts == \A j \in Jobs : running /\ j \notin marked ~> ~running \/ j \in marked

(* docs/features/JOBS.md:157-159: quality failures are retried until the   *)
(* attempts are used up, "Attempt 3: ... give up, return error".           *)
GivesUpOnlyAfterAllAttempts ==
    [][\A e \in Executions :
         QualityFails(e) /\ execution'[e].at = "reporting"
           => execution[e].attempt = maxRetries]_executorVars
=============================================================================

------------------------- MODULE JobExecutorProofs --------------------------
(***************************************************************************)
(* JobExecutor for any jobs, polls, executions, limit and retries: its     *)
(* types, that activeExecutions is exact, the concurrency limit and the    *)
(* bound on attempts.                                                      *)
(***************************************************************************)
EXTENDS JobExecutor, FiniteSetTheorems, TLAPS

-----------------------------------------------------------------------------
(* What an execution's attempts are bounded by, given its job's count.     *)
Allowed(x, count) ==
    IF x.at \in {"starting", "working"} THEN count + 1
    ELSE IF x.at = "backoff" THEN count ELSE maxRetries

LEMMA AllowedIsEnough ==
    ASSUME NEW x \in ExecutionStates, NEW count \in 0..(maxRetries - 1)
    PROVE  Allowed(x, count) \in Nat /\ Allowed(x, count) <= maxRetries
BY JobExecutorAssumption DEF Allowed

LEMMA InvParts ==
    ASSUME ExecutorInv
    PROVE  /\ running \in BOOLEAN
           /\ poll \in [Polls -> PollStates]
           /\ activeExecutions \subseteq Jobs /\ IsFiniteSet(activeExecutions)
           /\ Cardinality(activeExecutions) \in Nat
           /\ Cardinality(activeExecutions) <= maxConcurrent
           /\ execution \in [Executions -> ExecutionStates]
           /\ \A e \in Executions : /\ execution[e].at # "idle" => execution[e].job \in Jobs
                                    /\ execution[e].at = "done" => execution[e].polled
           /\ retryCounts \in [Jobs -> 0..(maxRetries - 1)]
           /\ marked \subseteq Jobs /\ triggered \subseteq Jobs
           /\ \A e \in Executions : Under(e) /\ execution[e].job \notin triggered
                => /\ execution[e].polled
                   /\ execution[e].attempt <= Allowed(execution[e], retryCounts[execution[e].job])
<1>1. IsFiniteSet(activeExecutions) /\ Cardinality(activeExecutions) \in Nat
  BY JobExecutorAssumption, FS_Subset, FS_CardinalityType DEF ExecutorInv, ExecutorTypeOK
<1> QED BY <1>1 DEF ExecutorInv, ExecutorTypeOK, AttemptsCounted, Allowed

(* A job no operator triggered has one execution at most.                  *)
LEMMA OnlyExecution ==
    ASSUME ExecutorInv, NEW d \in Executions, NEW e \in Executions, Under(d), Under(e),
           execution[d].job = execution[e].job, execution[d].job \notin triggered
    PROVE  d = e
BY InvParts DEF ExecutorInv, ActiveExact, Polled

-----------------------------------------------------------------------------
(* Steps of polls alone.                                                   *)
LEMMA PollsMove ==
    ASSUME ExecutorInv, running' \in BOOLEAN, poll' \in [Polls -> PollStates],
           UNCHANGED <<activeExecutions, execution, retryCounts, marked, triggered>>
    PROVE  ExecutorInv'
<1>1. ExecutorTypeOK'
  BY InvParts DEF ExecutorTypeOK
<1>2. ActiveExact' /\ AttemptsCounted' /\ Cardinality(activeExecutions') <= maxConcurrent
  BY InvParts DEF ExecutorInv, ActiveExact, Polled, Under, AttemptsCounted
<1> QED BY <1>1, <1>2 DEF ExecutorInv

LEMMA PollStepsHold ==
    ASSUME ExecutorInv, NEW p \in Polls,
           StartExecutor(p) \/ IntervalFires(p) \/ PollAnswered(p) \/ PollFails(p)
    PROVE  ExecutorInv'
<1>1. UNCHANGED <<activeExecutions, execution, retryCounts, marked, triggered>> /\ running' \in BOOLEAN
  BY InvParts DEF StartExecutor, IntervalFires, PollAnswered, PollFails
<1>2. Room \in 0..maxConcurrent
  BY InvParts, JobExecutorAssumption DEF Room
<1>3. AfterPollCall(p) \in [Polls -> PollStates]
  BY <1>2, InvParts DEF AfterPollCall, PollStates
<1>4. poll' \in [Polls -> PollStates]
  <2>1. CASE StartExecutor(p) \/ IntervalFires(p)
    BY <1>3, <2>1 DEF StartExecutor, IntervalFires
  <2>2. CASE PollAnswered(p)
    <3>1. PICK S \in SUBSET Jobs : poll' = [poll EXCEPT ![p].at = "answered", ![p].jobs = S]
      BY <2>2 DEF PollAnswered
    <3> QED BY <3>1, InvParts DEF PollStates
  <2>3. CASE PollFails(p)
    <3>1. IdlePoll \in PollStates
      BY JobExecutorAssumption DEF IdlePoll, PollStates
    <3> QED BY <2>3, <3>1, InvParts DEF PollFails
  <2> QED BY <2>1, <2>2, <2>3
<1> QED BY <1>1, <1>4, PollsMove

LEMMA StopHolds == ASSUME ExecutorInv, StopExecutor PROVE ExecutorInv'
BY InvParts, PollsMove DEF StopExecutor

-----------------------------------------------------------------------------
(* Steps of one execution.                                                 *)
LEMMA ExecutionMoves ==
    ASSUME ExecutorInv, NEW e \in Executions, NEW x \in ExecutionStates,
           Under(e), x.at # "idle", x.job = execution[e].job, x.polled = execution[e].polled,
           x.at = "done" => x.polled,
           execution' = [execution EXCEPT ![e] = x],
           UNCHANGED <<running, poll, activeExecutions, triggered>>,
           marked' \subseteq Jobs, retryCounts' \in [Jobs -> 0..(maxRetries - 1)],
           \A j \in Jobs : j # x.job => retryCounts'[j] = retryCounts[j],
           x.job \notin triggered => x.attempt <= Allowed(x, retryCounts'[x.job])
    PROVE  ExecutorInv'
<1>1. ExecutorTypeOK'
  BY InvParts DEF ExecutorTypeOK, Under
<1>2. \A d \in Executions : /\ Under(d)' = Under(d)
                            /\ execution'[d].job = execution[d].job
                            /\ execution'[d].polled = execution[d].polled
  BY InvParts DEF Under
<1>3. ActiveExact'
  BY <1>2 DEF ExecutorInv, ActiveExact, Polled
<1>4. AttemptsCounted'
  <2> SUFFICES ASSUME NEW d \in Executions, Under(d)', execution'[d].job \notin triggered
               PROVE  /\ execution'[d].polled
                      /\ execution'[d].attempt <= Allowed(execution'[d], retryCounts'[execution'[d].job])
    BY DEF AttemptsCounted, Allowed
  <2>1. execution'[d].polled
    BY <1>2, InvParts
  <2>2. CASE d = e
    BY <1>2, <2>1, <2>2, InvParts
  <2>3. CASE d # e
    <3>1. execution'[d] = execution[d] /\ execution[d].job \in Jobs
      BY <1>2, <2>3, InvParts DEF Under
    <3>2. execution[d].job # x.job
      BY <1>2, <2>3, <3>1, OnlyExecution
    <3> QED BY <1>2, <2>1, <3>1, <3>2, InvParts
  <2> QED BY <2>2, <2>3
<1> QED BY <1>1, <1>3, <1>4, InvParts DEF ExecutorInv

LEMMA StartStepsHold ==
    ASSUME ExecutorInv, NEW e \in Executions, StartRecorded(e) \/ ExecutionThrows(e) \/ QualityPasses(e)
    PROVE  ExecutorInv'
<1> DEFINE y == execution[e]
<1>1. y \in ExecutionStates /\ Under(e) /\ y.job \in Jobs /\ y.at \in {"starting", "working"}
  BY InvParts DEF StartRecorded, ExecutionThrows, QualityPasses, Under
<1>2. PICK x \in {[y EXCEPT !.at = "working"], [y EXCEPT !.at = "submitting"],
                  [y EXCEPT !.at = "reporting", !.success = FALSE]} :
        execution' = [execution EXCEPT ![e] = x]
  BY <1>1, InvParts DEF StartRecorded, ExecutionThrows, QualityPasses, ExecutionStates
<1>3. /\ x \in ExecutionStates /\ x.job = y.job /\ x.polled = y.polled /\ x.attempt = y.attempt
      /\ x.at \in {"working", "submitting", "reporting"}
  BY <1>1, <1>2 DEF ExecutionStates
<1>4. UNCHANGED <<running, poll, activeExecutions, retryCounts, triggered>> /\ marked' \subseteq Jobs
  BY <1>1, InvParts DEF StartRecorded, ExecutionThrows, QualityPasses
<1>5. retryCounts[y.job] \in 0..(maxRetries - 1)
  BY <1>1, InvParts
<1>6. x.job \notin triggered => x.attempt <= Allowed(x, retryCounts'[x.job])
  <2> SUFFICES ASSUME y.job \notin triggered
               PROVE  y.attempt <= Allowed(x, retryCounts[y.job])
    BY <1>3, <1>4
  <2>1. y.attempt <= retryCounts[y.job] + 1 /\ y.attempt \in Nat
    BY <1>1, InvParts DEF Allowed, ExecutionStates
  <2> QED BY <1>3, <1>5, <2>1, JobExecutorAssumption DEF Allowed
<1> HIDE DEF y
<1>7. x.job = execution[e].job /\ x.polled = execution[e].polled /\ x.at # "idle"
  BY <1>3 DEF y
<1> QED BY <1>1, <1>2, <1>3, <1>4, <1>6, <1>7, InvParts, ExecutionMoves

LEMMA QualityFailsHolds ==
    ASSUME ExecutorInv, NEW e \in Executions, QualityFails(e)
    PROVE  ExecutorInv'
<1>1. PICK y \in ExecutionStates : y = execution[e]
  BY InvParts
<1>2. Under(e) /\ y.job \in Jobs /\ y.at = "working"
  BY <1>1, InvParts DEF QualityFails, Under
<1>3. PICK count \in 0..(maxRetries - 1) : count = retryCounts[y.job]
  BY <1>2, InvParts
<1>4. PICK newCount \in 0..(maxRetries - 1), newAt \in {"reporting", "backoff"} :
        /\ newAt = IF count + 1 >= maxRetries THEN "reporting" ELSE "backoff"
        /\ newCount = IF count + 1 >= maxRetries THEN 0 ELSE count + 1
  <2>1. CASE count + 1 >= maxRetries
    BY <2>1, JobExecutorAssumption
  <2>2. CASE ~(count + 1 >= maxRetries)
    BY <2>2, JobExecutorAssumption
  <2> QED BY <2>1, <2>2
<1>5. PICK x : x = [y EXCEPT !.at = newAt]
  OBVIOUS
<1>6. /\ x \in ExecutionStates /\ x.at = newAt
      /\ x.job = y.job /\ x.polled = y.polled /\ x.attempt = y.attempt
  BY <1>5 DEF ExecutionStates
<1>7. /\ execution' = [execution EXCEPT ![e] = x]
      /\ retryCounts' = [retryCounts EXCEPT ![y.job] = newCount]
      /\ UNCHANGED <<running, poll, activeExecutions, marked, triggered>>
  BY <1>1, <1>3, <1>4, <1>5, InvParts DEF QualityFails, ExecutionStates
<1>8. /\ retryCounts' \in [Jobs -> 0..(maxRetries - 1)]
      /\ \A j \in Jobs : j # x.job => retryCounts'[j] = retryCounts[j]
      /\ retryCounts'[x.job] = newCount
  BY <1>2, <1>6, <1>7, InvParts
<1>9. x.job \notin triggered => x.attempt <= Allowed(x, retryCounts'[x.job])
  <2> SUFFICES ASSUME y.job \notin triggered
               PROVE  y.attempt <= Allowed(x, newCount)
    BY <1>6, <1>8
  <2>1. y.attempt <= count + 1 /\ y.attempt \in Nat
    BY <1>1, <1>2, <1>3, InvParts DEF Allowed, ExecutionStates
  <2>2. CASE count + 1 >= maxRetries
    BY <1>3, <1>4, <1>6, <2>1, <2>2, JobExecutorAssumption DEF Allowed
  <2>3. CASE ~(count + 1 >= maxRetries)
    BY <1>3, <1>4, <1>6, <2>1, <2>3, JobExecutorAssumption DEF Allowed
  <2> QED BY <2>2, <2>3
<1>10. x.job = execution[e].job /\ x.polled = execution[e].polled /\ x.at # "idle" /\ x.at # "done"
  BY <1>1, <1>4, <1>6
<1> QED BY <1>2, <1>6, <1>7, <1>8, <1>9, <1>10, InvParts, ExecutionMoves

LEMMA LaterStepsHold ==
    ASSUME ExecutorInv, NEW e \in Executions,
           BackoffOver(e) \/ Submitted(e) \/ (Reported(e) /\ execution[e].polled)
    PROVE  ExecutorInv'
<1>1. PICK y \in ExecutionStates : y = execution[e]
  BY InvParts
<1>2. Under(e) /\ y.job \in Jobs /\ y.at \in {"backoff", "submitting", "reporting"}
  BY <1>1, InvParts DEF BackoffOver, Submitted, Reported, Under
<1>3. retryCounts[y.job] \in 0..(maxRetries - 1) /\ y.attempt \in Nat
  BY <1>1, <1>2, InvParts DEF ExecutionStates
<1>4. y.job \notin triggered => y.attempt <= Allowed(y, retryCounts[y.job])
  BY <1>1, <1>2, InvParts
<1>5. CASE BackoffOver(e)
  <2>0. PICK n \in Nat : n = y.attempt + 1
    BY <1>3
  <2>1. PICK x : x = [y EXCEPT !.at = "starting", !.attempt = n]
    OBVIOUS
  <2>2. /\ execution' = [execution EXCEPT ![e] = x]
        /\ UNCHANGED <<running, poll, activeExecutions, retryCounts, marked, triggered>>
    BY <1>1, <1>5, <2>0, <2>1, InvParts DEF BackoffOver, ExecutionStates
  <2>3. /\ x \in ExecutionStates /\ x.at = "starting"
        /\ x.job = y.job /\ x.polled = y.polled /\ x.attempt = n
    BY <2>1 DEF ExecutionStates
  <2>4. x.job \notin triggered => x.attempt <= Allowed(x, retryCounts[x.job])
    BY <1>1, <1>3, <1>4, <1>5, <2>0, <2>3 DEF Allowed, BackoffOver
  <2> QED BY <1>1, <1>2, <2>2, <2>3, <2>4, InvParts, ExecutionMoves
<1>6. CASE Submitted(e) \/ (Reported(e) /\ execution[e].polled)
  <2>1. PICK x \in ExecutionStates :
          /\ execution' = [execution EXCEPT ![e] = x]
          /\ x.at \in {"reporting", "done"} /\ (x.at = "done" => y.polled)
          /\ x.job = y.job /\ x.polled = y.polled /\ x.attempt = y.attempt
    <3>1. CASE Submitted(e)
      <4>1. PICK success \in BOOLEAN :
              execution' = [execution EXCEPT ![e].at = "reporting", ![e].success = success]
        BY <3>1 DEF Submitted
      <4>2. PICK x : x = [y EXCEPT !.at = "reporting", !.success = success]
        OBVIOUS
      <4>3. x \in ExecutionStates /\ x.at = "reporting" /\ x.job = y.job
            /\ x.polled = y.polled /\ x.attempt = y.attempt
        BY <4>2 DEF ExecutionStates
      <4>4. execution' = [execution EXCEPT ![e] = x]
        BY <1>1, <4>1, <4>2, InvParts DEF ExecutionStates
      <4> QED BY <4>3, <4>4
    <3>2. CASE Reported(e) /\ execution[e].polled
      <4>1. PICK x : x = [y EXCEPT !.at = "done"]
        OBVIOUS
      <4>2. x \in ExecutionStates /\ x.at = "done" /\ x.job = y.job
            /\ x.polled = y.polled /\ x.attempt = y.attempt
        BY <4>1 DEF ExecutionStates
      <4>3. execution' = [execution EXCEPT ![e] = x]
        BY <1>1, <3>2, <4>1 DEF Reported
      <4> QED BY <1>1, <3>2, <4>2, <4>3
    <3> QED BY <1>6, <3>1, <3>2
  <2>2. x.at # "idle" /\ (x.at = "done" => x.polled)
    BY <2>1
  <2>3. /\ UNCHANGED <<running, poll, activeExecutions, marked, triggered>>
        /\ retryCounts' = retryCounts \/ retryCounts' = [retryCounts EXCEPT ![y.job] = 0]
    BY <1>1, <1>6 DEF Submitted, Reported
  <2>4. /\ retryCounts' \in [Jobs -> 0..(maxRetries - 1)]
        /\ \A j \in Jobs : j # x.job => retryCounts'[j] = retryCounts[j]
    BY <2>1, <2>3, InvParts, JobExecutorAssumption
  <2>5. x.job \notin triggered => x.attempt <= Allowed(x, retryCounts'[x.job])
    <3>1. y.job \notin triggered => y.attempt <= maxRetries
      BY <1>1, <1>2, <1>3, <1>4, <1>6 DEF Allowed, Submitted, Reported
    <3> QED BY <2>1, <3>1 DEF Allowed
  <2> QED BY <1>1, <1>2, <2>1, <2>2, <2>3, <2>4, <2>5, InvParts, ExecutionMoves
<1> QED BY <1>5, <1>6

(* An execution ends: directly, without an entry in activeExecutions, ...  *)
LEMMA DirectEndHolds ==
    ASSUME ExecutorInv, NEW e \in Executions, Reported(e), ~execution[e].polled
    PROVE  ExecutorInv'
<1>1. /\ execution' = [execution EXCEPT ![e] = NoExecution]
      /\ UNCHANGED <<running, poll, activeExecutions, marked, triggered>>
      /\ retryCounts' = retryCounts \/ retryCounts' = [retryCounts EXCEPT ![execution[e].job] = 0]
  BY DEF Reported
<1>2. Under(e) /\ execution[e].job \in Jobs /\ execution[e].job \in triggered
  BY InvParts DEF Reported, Under
<1>3. NoExecution \in ExecutionStates /\ NoExecution.at = "idle" /\ NoExecution.polled = FALSE
  BY DEF NoExecution, ExecutionStates
<1>4. retryCounts' \in [Jobs -> 0..(maxRetries - 1)]
  BY <1>1, <1>2, InvParts, JobExecutorAssumption
<1>5. ExecutorTypeOK'
  BY <1>1, <1>3, <1>4, InvParts DEF ExecutorTypeOK
<1>6. Polled' = Polled /\ \A d \in Polled : execution'[d] = execution[d]
  BY <1>1, <1>3, InvParts DEF Polled, Under
<1>7. ActiveExact'
  BY <1>1, <1>6 DEF ExecutorInv, ActiveExact
<1>8. AttemptsCounted'
  <2> SUFFICES ASSUME NEW d \in Executions, Under(d)', execution'[d].job \notin triggered
               PROVE  /\ execution'[d].polled
                      /\ execution'[d].attempt <= Allowed(execution'[d], retryCounts'[execution'[d].job])
    BY <1>1 DEF AttemptsCounted, Allowed
  <2>1. d # e /\ execution'[d] = execution[d] /\ Under(d)
    BY <1>1, <1>3, InvParts DEF Under
  <2>2. execution[d].job \in Jobs /\ execution[d].job # execution[e].job
    BY <1>2, <2>1, InvParts DEF Under
  <2>3. retryCounts'[execution[d].job] = retryCounts[execution[d].job]
    BY <1>1, <2>2, InvParts
  <2> QED BY <2>1, <2>3, InvParts
<1> QED BY <1>1, <1>5, <1>7, <1>8, InvParts DEF ExecutorInv

(* ... or, begun by a poll, giving its slot back.                          *)
LEMMA SlotFreedHolds ==
    ASSUME ExecutorInv, NEW e \in Executions, SlotFreed(e)
    PROVE  ExecutorInv'
<1>1. /\ execution' = [execution EXCEPT ![e] = NoExecution]
      /\ activeExecutions' = activeExecutions \ {execution[e].job}
      /\ UNCHANGED <<running, poll, retryCounts, marked, triggered>>
  BY DEF SlotFreed
<1>2. Under(e) /\ execution[e].job \in Jobs
  BY InvParts DEF SlotFreed, Under
<1>3. NoExecution \in ExecutionStates /\ NoExecution.at = "idle"
  BY DEF NoExecution, ExecutionStates
<1>4. ExecutorTypeOK'
  BY <1>1, <1>3, InvParts DEF ExecutorTypeOK
<1>5. ActiveExact'
  <2>1. Polled' = Polled \ {e} /\ \A d \in Polled' : execution'[d] = execution[d]
    BY <1>1, <1>3, InvParts DEF Polled, Under
  <2>2. e \in Polled
    BY <1>2, InvParts DEF SlotFreed, Polled
  <2> QED BY <1>1, <2>1, <2>2 DEF ExecutorInv, ActiveExact
<1>6. Cardinality(activeExecutions') <= maxConcurrent
  BY <1>1, InvParts, FS_Subset, FS_CardinalityType, JobExecutorAssumption
<1>7. AttemptsCounted'
  <2> SUFFICES ASSUME NEW d \in Executions, Under(d)', execution'[d].job \notin triggered
               PROVE  /\ execution'[d].polled
                      /\ execution'[d].attempt <= Allowed(execution'[d], retryCounts[execution'[d].job])
    BY <1>1 DEF AttemptsCounted, Allowed
  <2>1. execution'[d] = execution[d] /\ Under(d)
    BY <1>1, <1>3, InvParts DEF Under
  <2> QED BY <2>1, InvParts
<1> QED BY <1>4, <1>5, <1>6, <1>7 DEF ExecutorInv

-----------------------------------------------------------------------------
(* Executions begin: directly, ...                                         *)
LEMMA DirectBeginHolds ==
    ASSUME ExecutorInv, NEW e \in Executions, NEW j \in Jobs, ExecuteDirectly(e, j)
    PROVE  ExecutorInv'
<1>0. PICK x : x = Begun(j, FALSE)
  OBVIOUS
<1>1. /\ execution' = [execution EXCEPT ![e] = x]
      /\ triggered' = triggered \cup {j}
      /\ UNCHANGED <<running, poll, activeExecutions, retryCounts, marked>>
      /\ ~Under(e)
  BY <1>0 DEF ExecuteDirectly, Under
<1>2. x \in ExecutionStates /\ x.at = "starting" /\ x.job = j /\ x.polled = FALSE
  BY <1>0, JobExecutorAssumption DEF Begun, ExecutionStates
<1>3. ExecutorTypeOK'
  BY <1>1, <1>2, InvParts DEF ExecutorTypeOK
<1>4. Polled' = Polled /\ \A d \in Polled : execution'[d] = execution[d]
  BY <1>1, <1>2, InvParts DEF Polled, Under
<1>5. ActiveExact'
  BY <1>1, <1>4 DEF ExecutorInv, ActiveExact
<1>6. AttemptsCounted'
  <2> SUFFICES ASSUME NEW d \in Executions, Under(d)', execution'[d].job \notin triggered'
               PROVE  /\ execution'[d].polled
                      /\ execution'[d].attempt <= Allowed(execution'[d], retryCounts[execution'[d].job])
    BY <1>1 DEF AttemptsCounted, Allowed
  <2>1. d # e /\ execution'[d] = execution[d] /\ Under(d) /\ execution[d].job \notin triggered
    BY <1>1, <1>2, InvParts DEF Under
  <2> QED BY <2>1, InvParts
<1> QED BY <1>1, <1>3, <1>5, <1>6, InvParts DEF ExecutorInv

(* ... or by a poll that found room for them.                              *)
LEMMA RoomForThem ==
    ASSUME ExecutorInv, NEW T \in SUBSET Jobs, NEW S, IsOldest(S, T, Room)
    PROVE  Cardinality(activeExecutions \cup S) <= maxConcurrent
<1>1. IsFiniteSet(T) /\ IsFiniteSet(S) /\ S \subseteq T
  BY JobExecutorAssumption, FS_Subset DEF IsOldest
<1>2. /\ Cardinality(T) \in Nat /\ Cardinality(S) \in Nat
      /\ Cardinality(activeExecutions) \in Nat /\ maxConcurrent \in Nat
  BY <1>1, InvParts, FS_CardinalityType, JobExecutorAssumption
<1>3. Room \in Nat /\ Room + Cardinality(activeExecutions) <= maxConcurrent
  BY InvParts, JobExecutorAssumption DEF Room
<1>4. Cardinality(S) <= Room
  BY <1>2, <1>3 DEF IsOldest
<1>5. /\ IsFiniteSet(activeExecutions \cap S)
      /\ Cardinality(activeExecutions \cap S) \in Nat
  BY <1>1, FS_Subset, FS_CardinalityType
<1>6. Cardinality(activeExecutions \cup S)
        = Cardinality(activeExecutions) + Cardinality(S) - Cardinality(activeExecutions \cap S)
  BY <1>1, InvParts, FS_Union
<1> QED BY <1>2, <1>3, <1>4, <1>5, <1>6

LEMMA PollBeginsHolds ==
    ASSUME ExecutorInv, NEW p \in Polls, PollDelivered(p)
    PROVE  ExecutorInv'
<1>1. PICK S \in SUBSET (poll[p].jobs \ activeExecutions) :
        IsOldest(S, poll[p].jobs \ activeExecutions, Room) /\ Execute(S, p)
  BY DEF PollDelivered
<1>2. poll[p] \in PollStates /\ poll[p].jobs \subseteq Jobs
  BY InvParts DEF PollStates
<1>3. S \subseteq Jobs /\ S \cap activeExecutions = {}
  BY <1>1, <1>2
<1>4. PICK slot \in [S -> {e \in Executions : execution[e].at = "idle"}] :
        /\ \A j, k \in S : slot[j] = slot[k] => j = k
        /\ execution' = [e \in Executions |->
                           IF \E j \in S : slot[j] = e
                           THEN Begun(CHOOSE j \in S : slot[j] = e, TRUE) ELSE execution[e]]
  BY <1>1 DEF Execute
<1>5. /\ activeExecutions' = activeExecutions \cup S
      /\ poll' = [poll EXCEPT ![p] = IdlePoll]
      /\ UNCHANGED <<running, retryCounts, marked, triggered>>
  BY <1>1 DEF Execute
<1>5a. PICK begun : begun = [j \in S |-> Begun(j, TRUE)]
  OBVIOUS
<1> DEFINE New == {e \in Executions : \E j \in S : slot[j] = e}
<1>6. \A j \in S : /\ slot[j] \in New /\ ~Under(slot[j])
                    /\ execution'[slot[j]] = begun[j]
  <2> SUFFICES ASSUME NEW j \in S
               PROVE  /\ slot[j] \in New /\ ~Under(slot[j])
                      /\ execution'[slot[j]] = begun[j]
    OBVIOUS
  <2>1. slot[j] \in Executions /\ ~Under(slot[j])
    BY <1>4 DEF Under
  <2>2. (CHOOSE k \in S : slot[k] = slot[j]) = j
    BY <1>4
  <2> QED BY <1>4, <1>5a, <2>1, <2>2
<1>7. \A e \in Executions \ New : execution'[e] = execution[e]
  BY <1>4
<1>8. \A j \in S : /\ begun[j] \in ExecutionStates /\ begun[j].at = "starting"
                    /\ begun[j].job = j /\ begun[j].polled = TRUE /\ begun[j].attempt = 1
  BY <1>3, <1>5a, JobExecutorAssumption DEF Begun, ExecutionStates
<1>9. \A e \in New : \E j \in S : e = slot[j]
  OBVIOUS
<1> HIDE DEF New
<1>10. New \subseteq Executions
  BY DEF New
<1>11. ExecutorTypeOK'
  <2>1. ASSUME NEW e \in Executions PROVE execution'[e] \in ExecutionStates
    BY <1>6, <1>7, <1>8, <1>9, InvParts
  <2>2. execution' \in [Executions -> ExecutionStates]
    <3>1. execution' = [e \in Executions |-> execution'[e]]
      BY <1>4
    <3> QED BY <2>1, <3>1
  <2>3. IdlePoll \in PollStates
    BY JobExecutorAssumption DEF IdlePoll, PollStates
  <2>4. poll' \in [Polls -> PollStates]
    BY <1>5, <2>3, InvParts
  <2>5. /\ running' \in BOOLEAN /\ activeExecutions' \subseteq Jobs
        /\ retryCounts' \in [Jobs -> 0..(maxRetries - 1)]
        /\ marked' \subseteq Jobs /\ triggered' \subseteq Jobs
    BY <1>3, <1>5, InvParts
  <2>6. ASSUME NEW e \in Executions
        PROVE  /\ execution'[e].at # "idle" => execution'[e].job \in Jobs
               /\ execution'[e].at = "done" => execution'[e].polled
    BY <1>3, <1>6, <1>7, <1>8, <1>9, InvParts
  <2> QED BY <2>2, <2>4, <2>5, <2>6 DEF ExecutorTypeOK
<1>12. Polled' = Polled \cup New /\ Polled \cap New = {}
  <2>1. \A e \in New : ~Under(e) /\ Under(e)' /\ execution'[e].polled
    BY <1>6, <1>8, <1>9 DEF Under
  <2>2. \A e \in Executions \ New : Under(e)' = Under(e) /\ execution'[e].polled = execution[e].polled
    BY <1>7 DEF Under
  <2> QED BY <1>10, <2>1, <2>2 DEF Polled
<1>13. ActiveExact'
  <2>1. \A e \in Polled : execution'[e] = execution[e]
    BY <1>7, <1>12 DEF Polled
  <2>2. {execution'[e].job : e \in New} = S
    BY <1>6, <1>8, <1>9
  <2>3. activeExecutions = {execution[e].job : e \in Polled}
    BY DEF ExecutorInv, ActiveExact
  <2>4. activeExecutions' = {execution'[e].job : e \in Polled'}
    BY <1>5, <1>12, <2>1, <2>2, <2>3
  <2>5. ASSUME NEW d \in Polled', NEW e \in Polled', execution'[d].job = execution'[e].job
        PROVE  d = e
    <3>1. CASE d \in Polled /\ e \in Polled
      BY <2>1, <2>5, <3>1 DEF ExecutorInv, ActiveExact
    <3>2. CASE d \in New /\ e \in New
      BY <1>6, <1>8, <1>9, <2>5, <3>2
    <3>3. CASE (d \in Polled /\ e \in New) \/ (d \in New /\ e \in Polled)
      BY <1>3, <2>1, <2>2, <2>3, <2>5, <3>3
    <3> QED BY <1>12, <3>1, <3>2, <3>3
  <2> QED BY <2>4, <2>5 DEF ActiveExact
<1>14. Cardinality(activeExecutions') <= maxConcurrent
  BY <1>1, <1>2, <1>5, RoomForThem
<1>15. AttemptsCounted'
  <2> SUFFICES ASSUME NEW e \in Executions, Under(e)', execution'[e].job \notin triggered
               PROVE  /\ execution'[e].polled
                      /\ execution'[e].attempt <= Allowed(execution'[e], retryCounts[execution'[e].job])
    BY <1>5 DEF AttemptsCounted, Allowed
  <2>1. CASE e \in New
    <3>1. PICK j \in S : execution'[e] = begun[j]
      BY <1>6, <1>9, <2>1
    <3>2. retryCounts[j] \in 0..(maxRetries - 1)
      BY <1>3, InvParts
    <3>3. execution'[e].attempt = 1 /\ execution'[e].job = j /\ execution'[e].polled
          /\ execution'[e].at = "starting"
      BY <1>8, <3>1
    <3>4. 1 <= retryCounts[j] + 1
      BY <3>2, JobExecutorAssumption
    <3> QED BY <3>3, <3>4 DEF Allowed
  <2>2. CASE e \notin New
    BY <1>7, <2>2, InvParts DEF Under
  <2> QED BY <2>1, <2>2
<1> QED BY <1>11, <1>13, <1>14, <1>15 DEF ExecutorInv

-----------------------------------------------------------------------------
LEMMA InitHolds == ExecutorInit => ExecutorInv
<1> SUFFICES ASSUME ExecutorInit PROVE ExecutorInv
  OBVIOUS
<1>1. IdlePoll \in PollStates /\ NoExecution \in ExecutionStates /\ NoExecution.at = "idle"
  BY JobExecutorAssumption DEF IdlePoll, PollStates, NoExecution, ExecutionStates
<1>2. ExecutorTypeOK
  <2>1. 0 \in 0..(maxRetries - 1)
    BY JobExecutorAssumption
  <2>2. retryCounts \in [Jobs -> 0..(maxRetries - 1)]
    BY <2>1 DEF ExecutorInit
  <2> QED BY <1>1, <2>2 DEF ExecutorInit, ExecutorTypeOK
<1>3. Polled = {} /\ \A e \in Executions : ~Under(e)
  BY <1>1 DEF ExecutorInit, Polled, Under
<1>4. ActiveExact /\ AttemptsCounted
  BY <1>3 DEF ExecutorInit, ActiveExact, AttemptsCounted
<1>5. Cardinality(activeExecutions) <= maxConcurrent
  BY FS_EmptySet, JobExecutorAssumption DEF ExecutorInit
<1> QED BY <1>2, <1>4, <1>5 DEF ExecutorInv

LEMMA StepHolds == ExecutorInv /\ [ExecutorNext]_executorVars => ExecutorInv'
<1> SUFFICES ASSUME ExecutorInv, [ExecutorNext]_executorVars PROVE ExecutorInv'
  OBVIOUS
<1>1. CASE UNCHANGED executorVars
  BY <1>1, InvParts, PollsMove DEF executorVars
<1>2. CASE StopExecutor
  BY <1>2, StopHolds
<1>3. ASSUME NEW p \in Polls,
             StartExecutor(p) \/ IntervalFires(p) \/ PollAnswered(p) \/ PollFails(p) \/ PollDelivered(p)
      PROVE  ExecutorInv'
  BY <1>3, PollStepsHold, PollBeginsHolds
<1>4. ASSUME NEW e \in Executions, NEW j \in Jobs, ExecuteDirectly(e, j)
      PROVE  ExecutorInv'
  BY <1>4, DirectBeginHolds
<1>5. ASSUME NEW e \in Executions,
             \/ StartRecorded(e) \/ ExecutionThrows(e)
             \/ QualityPasses(e) \/ QualityFails(e) \/ BackoffOver(e)
             \/ Submitted(e) \/ Reported(e) \/ SlotFreed(e)
      PROVE  ExecutorInv'
  <2>1. CASE StartRecorded(e) \/ ExecutionThrows(e) \/ QualityPasses(e)
    BY <2>1, StartStepsHold
  <2>2. CASE QualityFails(e)
    BY <2>2, QualityFailsHolds
  <2>3. CASE BackoffOver(e) \/ Submitted(e)
    BY <2>3, LaterStepsHold
  <2>4. CASE Reported(e)
    <3>1. execution[e].polled \in BOOLEAN
      BY InvParts DEF ExecutionStates
    <3> QED BY <2>4, <3>1, LaterStepsHold, DirectEndHolds
  <2>5. CASE SlotFreed(e)
    BY <2>5, SlotFreedHolds
  <2> QED BY <1>5, <2>1, <2>2, <2>3, <2>4, <2>5
<1> QED BY <1>1, <1>2, <1>3, <1>4, <1>5 DEF ExecutorNext

(* The types, the exactness of activeExecutions, its bound and the         *)
(* counting of failures, in every state of the executor.                   *)
THEOREM ExecutorInvariant == ExecutorSpec => []ExecutorInv
<1>1. ExecutorInit => ExecutorInv
  BY InitHolds
<1>2. ExecutorInv /\ [ExecutorNext]_executorVars => ExecutorInv'
  BY StepHolds
<1> QED BY <1>1, <1>2, PTL DEF ExecutorSpec

(* activeExecutions names the jobs that polls are having executed, each by *)
(* one execution, whatever the overlap of polls and executions.            *)
THEOREM ActiveStaysExact == ExecutorSpec => []ActiveExact
<1>1. ExecutorInv => ActiveExact
  BY DEF ExecutorInv
<1> QED BY <1>1, ExecutorInvariant, PTL

(* The loop never has more than maxConcurrent executions of its own under  *)
(* way, although the limit is read before the await of a poll.             *)
THEOREM LimitHolds == ExecutorSpec => []ConcurrencyLimit
<1>1. ExecutorInv => ConcurrencyLimit
  <2> SUFFICES ASSUME ExecutorInv PROVE ConcurrencyLimit
    OBVIOUS
  <2> DEFINE f == [e \in Polled |-> execution[e].job]
  <2>1. activeExecutions = {execution[e].job : e \in Polled}
        /\ \A d, e \in Polled : execution[d].job = execution[e].job => d = e
    BY DEF ExecutorInv, ActiveExact
  <2>2. f \in Injection(Polled, activeExecutions)
    BY <2>1 DEF Injection, IsInjective
  <2>3. IsFiniteSet(Polled) /\ Cardinality(Polled) \in Nat
    BY JobExecutorAssumption, FS_Subset, FS_CardinalityType DEF Polled
  <2>4. Cardinality(Polled) <= Cardinality(activeExecutions)
    BY <2>2, InvParts, FS_Injection
  <2> QED BY <2>3, <2>4, InvParts, JobExecutorAssumption DEF ConcurrencyLimit
<1> QED BY <1>1, ExecutorInvariant, PTL

(* No order of errors, stale polls and retries gives a job that no         *)
(* operator triggered more than maxRetries attempts in one execution.      *)
THEOREM AttemptsStayBounded == ExecutorSpec => []AttemptsBounded
<1>1. ExecutorInv => AttemptsBounded
  <2> SUFFICES ASSUME ExecutorInv, NEW e \in Executions,
                      Under(e), execution[e].job \notin triggered
               PROVE  execution[e].attempt <= maxRetries
    BY DEF AttemptsBounded
  <2>1. /\ execution[e] \in ExecutionStates /\ execution[e].attempt \in Nat
        /\ execution[e].job \in Jobs
    BY InvParts DEF ExecutionStates, Under
  <2>2. retryCounts[execution[e].job] \in 0..(maxRetries - 1)
    BY <2>1, InvParts
  <2>3. execution[e].attempt <= Allowed(execution[e], retryCounts[execution[e].job])
    BY InvParts
  <2> QED BY <2>1, <2>2, <2>3, AllowedIsEnough, JobExecutorAssumption
<1> QED BY <1>1, ExecutorInvariant, PTL
=============================================================================

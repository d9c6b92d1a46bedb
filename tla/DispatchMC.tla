----------------------------- MODULE DispatchMC -----------------------------
(* What decides when work may run: the mutex of the session keys and the   *)
(* job executor.  They share no state, so an instance runs one of them,    *)
(* `part`, and the other stands still.                                     *)
EXTENDS KeyedMutex, JobExecutor

VARIABLE part

(* How many of the four calls share the first key.  Calls and keys are     *)
(* interchangeable, so these stand for every assignment of keys to calls.  *)
Sharing(n) == [c \in Calls |-> IF c <= n THEN "k1" ELSE "k2"]
Assignments(p) == IF p = "mutex" THEN {Sharing(n) : n \in 2..4} ELSE {Sharing(4)}

DispatchInit ==
    /\ part \in {"mutex", "executor"}
    /\ Init /\ ExecutorInit
    /\ keyOf \in Assignments(part)

DispatchNext ==
    /\ UNCHANGED part
    /\ \/ part = "mutex" /\ Next /\ UNCHANGED executorVars
       \/ part = "executor" /\ ExecutorNext /\ UNCHANGED mutexVars

DispatchSpec ==
    /\ DispatchInit
    /\ [][DispatchNext]_<<mutexVars, executorVars, part>>
    /\ MutexFairness /\ ExecutorFairness
=============================================================================

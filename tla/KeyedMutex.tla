----------------------------- MODULE KeyedMutex -----------------------------
(***************************************************************************)
(* runtime/execution/keyed-mutex.ts: a mutex per key built from a chain of *)
(* promises.  A call takes the promise at the tail of its key's chain as   *)
(* its `prior`, becomes the new tail, and runs its task once `prior` has   *)
(* settled.  A tail promise (prior.then(() => gate)) is named after the    *)
(* call that made it: it settles when that call has left its finally       *)
(* block.  Every action below is one uninterrupted stretch of the event    *)
(* loop; between two of them any other call may take a step.               *)
(***************************************************************************)
EXTENDS Naturals

CONSTANTS
    Keys,           \* session keys
    Calls,          \* the calls of runExclusive, each made at most once
    NoCall          \* the promise that is already resolved; an absent entry

ASSUME NoCallAssumption == NoCall \notin Calls

VARIABLES
    pc,             \* how far each call has come
    keyOf,          \* the key each call is made on
    prior,          \* the promise each call awaits
    tails,          \* the Map key -> tail promise; NoCall where it has no entry
    stamp,          \* history: the position of the call among all calls made
    arrivals        \* history: how many calls were made

mutexVars == <<pc, keyOf, prior, tails, stamp, arrivals>>

Stages == {"idle", "waiting", "running", "done"}

Init ==
    /\ pc = [c \in Calls |-> "idle"]
    /\ keyOf \in [Calls -> Keys]
    /\ prior = [c \in Calls |-> NoCall]
    /\ tails = [k \in Keys |-> NoCall]
    /\ stamp = [c \in Calls |-> 0]
    /\ arrivals = 0

(* Mutant: the new tail is stored before the old one is read.              *)
EnqueueTailFirst(c) ==
    /\ pc[c] = "idle"
    /\ pc' = [pc EXCEPT ![c] = "waiting"]
    /\ tails' = [tails EXCEPT ![keyOf[c]] = c]
    /\ prior' = [prior EXCEPT ![c] = c]
    /\ stamp' = [stamp EXCEPT ![c] = arrivals]
    /\ arrivals' = arrivals + 1
    /\ UNCHANGED keyOf

(* The synchronous head of runExclusive, up to `await prior`.              *)
Enqueue(c) ==
    /\ pc[c] = "idle"
    /\ pc' = [pc EXCEPT ![c] = "waiting"]
    /\ prior' = [prior EXCEPT ![c] = tails[keyOf[c]]]
    /\ tails' = [tails EXCEPT ![keyOf[c]] = c]
    /\ stamp' = [stamp EXCEPT ![c] = arrivals]
    /\ arrivals' = arrivals + 1
    /\ UNCHANGED keyOf

(* The settled promises: the resolved one, and those of calls that left.   *)
Settled == {NoCall} \cup {c \in Calls : pc[c] = "done"}

(* Mutant: the task is entered without awaiting `prior`.                   *)
StartUnawaited(c) ==
    /\ pc[c] = "waiting"
    /\ pc' = [pc EXCEPT ![c] = "running"]
    /\ UNCHANGED <<keyOf, prior, tails, stamp, arrivals>>

(* `await prior` resumes and the task is entered.                          *)
Start(c) ==
    /\ pc[c] = "waiting"
    /\ prior[c] \in Settled
    /\ pc' = [pc EXCEPT ![c] = "running"]
    /\ UNCHANGED <<keyOf, prior, tails, stamp, arrivals>>

(* Mutants: the entry is dropped by whoever leaves, or by nobody.          *)
ReleaseDropsAny(c) ==
    /\ pc[c] = "running"
    /\ pc' = [pc EXCEPT ![c] = "done"]
    /\ tails' = [tails EXCEPT ![keyOf[c]] = NoCall]
    /\ UNCHANGED <<keyOf, prior, stamp, arrivals>>

ReleaseDropsNone(c) ==
    /\ pc[c] = "running"
    /\ pc' = [pc EXCEPT ![c] = "done"]
    /\ UNCHANGED <<keyOf, prior, tails, stamp, arrivals>>

(* The finally block, after the task returned or threw: the gate opens and *)
(* the entry goes if this call is still its key's tail.                    *)
Release(c) ==
    /\ pc[c] = "running"
    /\ pc' = [pc EXCEPT ![c] = "done"]
    /\ tails' = IF tails[keyOf[c]] = c
                THEN [tails EXCEPT ![keyOf[c]] = NoCall]
                ELSE tails
    /\ UNCHANGED <<keyOf, prior, stamp, arrivals>>

Next == \E c \in Calls : Enqueue(c) \/ Start(c) \/ Release(c)

Spec == Init /\ [][Next]_mutexVars

(* A microtask that is ready does run, and the tasks handed to the mutex   *)
(* settle: agent turns catch their own errors and are bounded in rounds.   *)
MutexFairness == \A c \in Calls : WF_mutexVars(Start(c)) /\ WF_mutexVars(Release(c))
FairSpec == Spec /\ MutexFairness

-----------------------------------------------------------------------------
TypeOK ==
    /\ pc \in [Calls -> Stages]
    /\ keyOf \in [Calls -> Keys]
    /\ prior \in [Calls -> Calls \cup {NoCall}]
    /\ tails \in [Keys -> Calls \cup {NoCall}]
    /\ stamp \in [Calls -> Nat]
    /\ arrivals \in Nat

Pending(c) == pc[c] \in {"waiting", "running"}
Made(c) == pc[c] # "idle"
Ahead(d, c) == Made(d) /\ Made(c) /\ keyOf[d] = keyOf[c] /\ stamp[d] < stamp[c]

(* Tasks on the same key run one at a time.                                *)
MutualExclusion ==
    \A c, d \in Calls :
        /\ pc[c] = "running" /\ pc[d] = "running"
        /\ keyOf[c] = keyOf[d]
        => c = d

(* A task is entered only after every task queued before it on its key has *)
(* finished: they run in call order.                                       *)
CallOrder ==
    \A c, d \in Calls :
        Ahead(d, c) /\ pc[c] \in {"running", "done"} => pc[d] = "done"

(* The chain entry of a key is there while a call on it is queued or       *)
(* running, and dropped once the key has drained.                          *)
EntryIffPending ==
    \A k \in Keys : tails[k] # NoCall <=> \E c \in Calls : keyOf[c] = k /\ Pending(c)

(* The inductive invariant.  A key's tail is its youngest call; a call's   *)
(* prior is the call just ahead of it on its key, and a call that found no *)
(* entry had everything ahead of it done already.                          *)
StampsTellApart ==
    \A c, d \in Calls : Made(c) => /\ stamp[c] < arrivals
                                   /\ Made(d) /\ stamp[c] = stamp[d] => c = d

TailIsYoungest ==
    \A k \in Keys : LET t == tails[k] IN
        IF t = NoCall
        THEN \A c \in Calls : keyOf[c] = k => ~Pending(c)
        ELSE /\ keyOf[t] = k
             /\ Pending(t)
             /\ \A c \in Calls : keyOf[c] = k /\ Made(c) => stamp[c] <= stamp[t]

PriorIsJustAhead ==
    \A c \in Calls : Made(c) =>
        IF prior[c] = NoCall
        THEN \A d \in Calls : Ahead(d, c) => pc[d] = "done"
        ELSE /\ Ahead(prior[c], c)
             /\ \A d \in Calls : Ahead(d, c) => stamp[d] <= stamp[prior[c]]

MutexInv == TypeOK /\ StampsTellApart /\ TailIsYoungest /\ PriorIsJustAhead /\ CallOrder

(* The promise chain implements the first-come first-served lock.          *)
Lock == INSTANCE FifoLock WITH
    stage <- [c \in Calls |-> IF pc[c] = "waiting" THEN "queued" ELSE pc[c]],
    on <- keyOf,
    active <- {k \in Keys : tails[k] # NoCall}

ImplementsLock == Lock!Spec
ImplementsFairLock == Lock!FairSpec

(* Whoever asks for the lock gets to run and leaves, whichever calls are   *)
(* queued before or after it.                                              *)
EveryCallServed == \A c \in Calls : pc[c] = "waiting" ~> pc[c] = "done"
=============================================================================

------------------------------ MODULE FifoLock ------------------------------
(***************************************************************************)
(* What KeyedMutex promises its callers, with nothing of how it does it:   *)
(* calls on one key are served one at a time and in the order they were    *)
(* made, calls on different keys do not wait for each other, and a key is  *)
(* remembered exactly as long as a call on it is queued or running.        *)
(***************************************************************************)
EXTENDS Naturals

CONSTANTS
    Keys,       \* the keys callers serialise on (session keys)
    Calls       \* the calls of runExclusive, each made at most once

VARIABLES
    stage,      \* [Calls -> {"idle", "queued", "running", "done"}]
    on,         \* the key a call was made on, once it was made
    stamp,      \* the position of a call among all the calls made
    arrivals,   \* how many calls have been made
    active      \* the keys with queued or running work

vars == <<stage, on, stamp, arrivals, active>>

Made(c) == stage[c] # "idle"
Pending(c) == stage[c] \in {"queued", "running"}

Init ==
    /\ stage = [c \in Calls |-> "idle"]
    /\ on \in [Calls -> Keys]
    /\ stamp = [c \in Calls |-> 0]
    /\ arrivals = 0
    /\ active = {}

(* A caller asks for exclusive access to its key.                          *)
Ask(c) ==
    /\ stage[c] = "idle"
    /\ stage' = [stage EXCEPT ![c] = "queued"]
    /\ stamp' = [stamp EXCEPT ![c] = arrivals]
    /\ arrivals' = arrivals + 1
    /\ active' = active \cup {on[c]}
    /\ UNCHANGED on

(* The lock is granted to the oldest call on its key that is not finished. *)
Grant(c) ==
    /\ stage[c] = "queued"
    /\ \A d \in Calls :
         /\ Pending(d)
         /\ on[d] = on[c]
         => stamp[c] <= stamp[d]
    /\ stage' = [stage EXCEPT ![c] = "running"]
    /\ UNCHANGED <<on, stamp, arrivals, active>>

(* The task settles; the key is forgotten if nobody else is behind it.     *)
Leave(c) ==
    /\ stage[c] = "running"
    /\ stage' = [stage EXCEPT ![c] = "done"]
    /\ active' = IF \E d \in Calls \ {c} : Pending(d) /\ on[d] = on[c]
                 THEN active
                 ELSE active \ {on[c]}
    /\ UNCHANGED <<on, stamp, arrivals>>

Next == \E c \in Calls : Ask(c) \/ Grant(c) \/ Leave(c)

Spec == Init /\ [][Next]_vars
FairSpec == Spec /\ \A c \in Calls : WF_vars(Grant(c)) /\ WF_vars(Leave(c))
=============================================================================

---------------------------- MODULE RecoveryMC -----------------------------
(* What comes back by itself: a citizen paused because it got stuck, and   *)
(* the daemon of an agent that crashed, with a watchdog, a stop and a      *)
(* serve after it, or with two watchdogs and no stop.  They share no       *)
(* state, so an instance runs one of them, `part`, and the others stand    *)
(* still.                                                                  *)
EXTENDS AgentTurns, Daemons

CONSTANTS s1

VARIABLE part

RecoveryInit ==
    /\ part \in {"citizens", "daemon", "watchdogs"}
    /\ Init /\ DaemonsInit
    /\ \A s \in Serves : serve[s].restart = (s = s1 \/ part = "watchdogs")

RecoveryNext ==
    /\ UNCHANGED part
    /\ \/ part = "citizens" /\ Next /\ UNCHANGED daemonVars
       \/ /\ part = "daemon" /\ DaemonsNext /\ UNCHANGED vars
          /\ \A s \in Serves \ {s1} : serve[s].at = "idle" /\ serve'[s].at # "idle" =>
                                     \A c \in Stops : stop[c].at = "done"
       \/ /\ part = "watchdogs" /\ DaemonsNext /\ UNCHANGED vars
          /\ UNCHANGED stop

RecoverySpec ==
    /\ RecoveryInit
    /\ [][RecoveryNext]_<<vars, daemonVars, part>>
    /\ Fairness /\ DaemonsFairness
=============================================================================

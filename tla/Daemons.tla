------------------------------ MODULE Daemons ------------------------------
(***************************************************************************)
(* The daemon of one agent, cli/daemon and the commands around it: `serve` *)
(* spawns the agent and, with --restart, a watchdog process that restarts  *)
(* it when it dies; `stop` ends both; every listing of the daemons removes *)
(* the state of those that look dead.  They share nothing but the files of *)
(* one directory and signals, and any of them can run beside any other.    *)
(*                                                                         *)
(* A process of the agent is its place in `procs`, in the order of birth.  *)
(* A serve command and the watchdog it spawns have the same name.  Process *)
(* ids are not reused; a file operation is one step.                       *)
(***************************************************************************)
EXTENDS Naturals, Sequences, FiniteSets

CONSTANTS
    Serves, Stops,      \* the serve and stop commands that are run
    NoDog,              \* no watchdog; the parent of an agent serve spawned
    maxRestarts,
    CONSECUTIVE_FAILURES_THRESHOLD,
    MaxAgents           \* bound on the processes of the agent

ASSUME DaemonsAssumption ==
    /\ NoDog \notin Serves
    /\ maxRestarts \in Nat /\ CONSECUTIVE_FAILURES_THRESHOLD \in Nat \ {0}
    /\ MaxAgents \in Nat

NoPid == 0
NoInfo == [pid |-> NoPid, watchdogPid |-> NoDog, restartCount |-> 0]

VARIABLES
    procs,              \* each process of the agent: its state, the watchdog it is from
    daemonDir,          \* whether the directory exists
    daemonJson,         \* daemon.json, NoInfo when it is missing
    daemonPid,          \* daemon.pid, NoPid when it is missing
    dog, serve, stop    \* where each watchdog and each command is, and its locals

daemonVars == <<procs, daemonDir, daemonJson, daemonPid, dog, serve, stop>>
files == <<daemonDir, daemonJson, daemonPid>>

isDaemonAlive(pid) == pid \in DOMAIN procs /\ procs[pid].state \in {"up", "ending"}
Alive == {pid \in DOMAIN procs : isDaemonAlive(pid)}
DogAlive(w) == dog[w].at \notin {"none", "exited"}

NewPid == Len(procs) + 1
Spawned(parent) == Append(procs, [state |-> "up", parent |-> parent])
Ending(pid) == [procs EXCEPT ![pid].state = "ending"]
Killed(pid) == [procs EXCEPT ![pid].state = "dead"]

removeDaemonInfo == daemonDir' = FALSE /\ daemonJson' = NoInfo /\ daemonPid' = NoPid

DaemonsInit ==
    /\ procs = <<>>
    /\ daemonDir = FALSE /\ daemonJson = NoInfo /\ daemonPid = NoPid
    /\ dog = [w \in Serves |-> [at |-> "none", stopping |-> FALSE, restartCount |-> 0,
                                consecutiveFailures |-> 0, pid |-> NoPid, info |-> NoInfo]]
    /\ serve \in [Serves -> [at : {"idle"}, restart : BOOLEAN, pid : {NoPid}, blind : {FALSE}]]
    /\ stop = [c \in Stops |-> [at |-> "idle", mode |-> "graceful", info |-> NoInfo, signalled |-> FALSE]]

-----------------------------------------------------------------------------
(* The serve command.                                                      *)

(* Not part of the command: what it cannot see when it starts, a watchdog, *)
(* a process of the agent that the files do not name or another serve.     *)
Unseen(s) ==
    \/ Alive # {}
    \/ \E w \in Serves : DogAlive(w)
    \/ \E t \in Serves \ {s} : serve[t].at \notin {"idle", "done"}

(* Already running, by the pid of daemon.json, or on with the directory.   *)
ServeChecks(s) ==
    /\ serve[s].at = "idle"
    /\ IF isDaemonAlive(daemonJson.pid)
       THEN serve' = [serve EXCEPT ![s].at = "done"] /\ UNCHANGED daemonDir
       ELSE /\ daemonDir' = TRUE
            /\ serve' = [serve EXCEPT ![s].at = "spawning", ![s].blind = Unseen(s)]
    /\ UNCHANGED <<procs, daemonJson, daemonPid, dog, stop>>

(* Opens the logs, which fails when the directory has gone, and spawns.    *)
ServeSpawns(s) ==
    /\ serve[s].at = "spawning"
    /\ \/ /\ daemonDir /\ Len(procs) < MaxAgents
          /\ procs' = Spawned(NoDog)
          /\ serve' = [serve EXCEPT ![s].at = "writing", ![s].pid = NewPid]
       \/ /\ ~daemonDir
          /\ serve' = [serve EXCEPT ![s].at = "done"]
          /\ UNCHANGED procs
    /\ UNCHANGED <<files, dog, stop>>

(* writeDaemonInfo: the directory and daemon.json, then daemon.pid.        *)
ServeWritesInfo(s) ==
    /\ serve[s].at = "writing"
    /\ daemonDir' = TRUE
    /\ daemonJson' = [NoInfo EXCEPT !.pid = serve[s].pid]
    /\ serve' = [serve EXCEPT ![s].at = "recording"]
    /\ UNCHANGED <<procs, daemonPid, dog, stop>>

ServeWritesPid(s) ==
    /\ serve[s].at = "recording"
    /\ daemonPid' = IF daemonDir THEN serve[s].pid ELSE NoPid
    /\ serve' = [serve EXCEPT ![s].at = IF daemonDir THEN "polling" ELSE "done"]
    /\ UNCHANGED <<procs, daemonDir, daemonJson, dog, stop>>

(* The agent became healthy, or did not in time but lives; any agent may   *)
(* have answered on the port.  With --restart a watchdog is spawned, and   *)
(* its pid put in daemon.json, at once: its first interval is ten seconds. *)
(* But there is none when its module is not where spawnWatchdog looks, or  *)
(* when the spawn yields no pid.                                           *)
ServeStarted(s) ==
    /\ serve[s].at = "polling" /\ Alive # {}
    /\ serve' = [serve EXCEPT ![s].at = "done"]
    /\ \/ UNCHANGED <<dog, daemonJson>>
       \/ /\ serve[s].restart
          /\ dog' = [dog EXCEPT ![s].at = "sleeping"]
          /\ daemonJson' = IF daemonJson = NoInfo THEN NoInfo
                           ELSE [daemonJson EXCEPT !.watchdogPid = s]
    /\ UNCHANGED <<procs, daemonDir, daemonPid, stop>>

ServeFoundCrash(s) ==
    /\ serve[s].at = "polling" /\ ~isDaemonAlive(serve[s].pid)
    /\ serve' = [serve EXCEPT ![s].at = "done"]
    /\ UNCHANGED <<procs, files, dog, stop>>

-----------------------------------------------------------------------------
(* The watchdog.                                                           *)
Dog(w, record) == dog' = [dog EXCEPT ![w] = record]

(* The process is dead: back off, or exit when the restarts are used up.   *)
Restarting(d) ==
    [d EXCEPT !.at = IF d.restartCount >= maxRestarts THEN "exited" ELSE "backoff"]

(* Mutant: a failed restart is not counted.                                *)
NotRestartedUncounted(d) == [d EXCEPT !.at = "sleeping", !.pid = NoPid]

(* A restart that failed counts, whatever was counted before it failed.    *)
NotRestarted(d) == [d EXCEPT !.at = "sleeping", !.pid = NoPid, !.restartCount = @ + 1]

(* The interval is over: the pid file is read, a missing one as no process.*)
DogPolls(w) ==
    /\ dog[w].at = "sleeping"
    /\ Dog(w, IF dog[w].stopping THEN [dog[w] EXCEPT !.at = "exited"]
              ELSE IF isDaemonAlive(daemonPid) THEN [dog[w] EXCEPT !.at = "probing", !.pid = daemonPid]
              ELSE Restarting(dog[w]))
    /\ UNCHANGED <<procs, files, serve, stop>>

(* The health check asks the port and not the process.                     *)
DogFindsHealthy(w) ==
    /\ dog[w].at = "probing" /\ Alive # {}
    /\ Dog(w, [dog[w] EXCEPT !.at = "sleeping", !.consecutiveFailures = 0, !.pid = NoPid])
    /\ UNCHANGED <<procs, files, serve, stop>>

(* The failures count on after the kill, until a restart succeeds; counted *)
(* up to the threshold, beyond which nothing tells them apart.             *)
DogFindsUnhealthy(w) ==
    /\ dog[w].at = "probing"
    /\ LET failures == dog[w].consecutiveFailures + 1 IN
       IF failures < CONSECUTIVE_FAILURES_THRESHOLD
       THEN /\ Dog(w, [dog[w] EXCEPT !.at = "sleeping", !.pid = NoPid,
                                    !.consecutiveFailures = failures])
            /\ UNCHANGED procs
       ELSE /\ procs' = Killed(dog[w].pid)
            /\ Dog(w, [dog[w] EXCEPT !.at = "killed", !.pid = NoPid,
                           !.consecutiveFailures = CONSECUTIVE_FAILURES_THRESHOLD - 1])
    /\ UNCHANGED <<files, serve, stop>>

DogWaited(w) ==
    /\ dog[w].at = "killed"
    /\ Dog(w, Restarting(dog[w]))
    /\ UNCHANGED <<procs, files, serve, stop>>

(* Mutant: the watchdog does not look at `stopping` after the backoff.     *)
DogBackedOffHeedless(w) ==
    /\ dog[w].at = "backoff"
    /\ Dog(w, IF daemonDir THEN [dog[w] EXCEPT !.at = "spawning"] ELSE NotRestarted(dog[w]))
    /\ UNCHANGED <<procs, files, serve, stop>>

(* The backoff is over: the logs are opened, in a directory that may have  *)
(* been removed.                                                           *)
DogBackedOff(w) ==
    /\ dog[w].at = "backoff"
    /\ Dog(w, IF dog[w].stopping THEN [dog[w] EXCEPT !.at = "exited"]
              ELSE IF daemonDir THEN [dog[w] EXCEPT !.at = "spawning"]
              ELSE NotRestarted(dog[w]))
    /\ UNCHANGED <<procs, files, serve, stop>>

(* spawn may fail or give no pid.                                          *)
DogSpawns(w) ==
    /\ dog[w].at = "spawning"
    /\ \/ /\ Len(procs) < MaxAgents
          /\ procs' = Spawned(w)
          /\ Dog(w, [dog[w] EXCEPT !.at = "recording", !.pid = NewPid,
                         !.restartCount = @ + 1, !.consecutiveFailures = 0])
       \/ Dog(w, NotRestarted(dog[w])) /\ UNCHANGED procs
    /\ UNCHANGED <<files, serve, stop>>

DogWritesPid(w) ==
    /\ dog[w].at = "recording"
    /\ IF daemonDir
       THEN daemonPid' = dog[w].pid /\ Dog(w, [dog[w] EXCEPT !.at = "reading"])
       ELSE UNCHANGED daemonPid /\ Dog(w, NotRestarted(dog[w]))
    /\ UNCHANGED <<procs, daemonDir, daemonJson, serve, stop>>

(* updateDaemonJson: reads daemon.json, then writes it; best effort.       *)
DogReadsInfo(w) ==
    /\ dog[w].at = "reading"
    /\ Dog(w, IF daemonJson = NoInfo THEN [dog[w] EXCEPT !.at = "sleeping", !.pid = NoPid]
              ELSE [dog[w] EXCEPT !.at = "rewriting", !.info = daemonJson])
    /\ UNCHANGED <<procs, files, serve, stop>>

DogWritesInfo(w) ==
    /\ dog[w].at = "rewriting"
    /\ daemonJson' = IF daemonDir THEN [dog[w].info EXCEPT !.pid = dog[w].pid,
                                                           !.restartCount = dog[w].restartCount]
                     ELSE NoInfo
    /\ Dog(w, [dog[w] EXCEPT !.at = "sleeping", !.pid = NoPid, !.info = NoInfo])
    /\ UNCHANGED <<procs, daemonDir, daemonPid, serve, stop>>

DogSteps(w) ==
    \/ DogPolls(w) \/ DogFindsHealthy(w) \/ DogFindsUnhealthy(w) \/ DogWaited(w)
    \/ DogBackedOff(w) \/ DogSpawns(w) \/ DogWritesPid(w) \/ DogReadsInfo(w) \/ DogWritesInfo(w)

-----------------------------------------------------------------------------
(* The stop command and the dashboard's, which does not wait.              *)

(* resolveDaemon, or the targets of --all: the state of a dead daemon is   *)
(* removed, and its watchdog let be.                                       *)
StopResolves(c) ==
    /\ stop[c].at = "idle"
    /\ IF isDaemonAlive(daemonJson.pid)
       THEN /\ \E mode \in {"graceful", "force"} :
                   stop' = [stop EXCEPT ![c] = [@ EXCEPT !.at = "resolved", !.mode = mode,
                                                         !.info = daemonJson]]
            /\ UNCHANGED files
       ELSE /\ stop' = [stop EXCEPT ![c].at = "done"]
            /\ IF daemonJson = NoInfo THEN UNCHANGED files ELSE removeDaemonInfo
    /\ UNCHANGED <<procs, dog, serve>>

(* Mutant: the watchdog is not signalled.                                  *)
SignalledDogNot(info) == dog

(* The watchdog named by what was read is told to stop.                    *)
SignalledDog(info) ==
    [w \in Serves |-> [dog[w] EXCEPT !.stopping = @ \/ (w = info.watchdogPid /\ DogAlive(w))]]

(* With --all this comes after the stops of the daemons before it.         *)
StopSignals(c) ==
    /\ stop[c].at = "resolved"
    /\ LET info == stop[c].info IN
       /\ dog' = SignalledDog(info)
       /\ IF ~isDaemonAlive(info.pid)
          THEN /\ stop' = [stop EXCEPT ![c].at = "done"]
               /\ removeDaemonInfo /\ UNCHANGED procs
          ELSE \/ /\ stop[c].mode = "force"
                  /\ procs' = Killed(info.pid)
                  /\ stop' = [stop EXCEPT ![c].at = "done", ![c].signalled = TRUE]
                  /\ removeDaemonInfo
               \/ /\ stop[c].mode = "graceful"
                  /\ procs' = Ending(info.pid)
                  /\ stop' = [stop EXCEPT ![c].at = "waiting", ![c].signalled = TRUE]
                  /\ UNCHANGED files
    /\ UNCHANGED serve

(* The dashboard's stop does not wait for the process to exit.             *)
DashboardStops(c) ==
    /\ stop[c].at = "idle" /\ daemonJson # NoInfo
    /\ IF isDaemonAlive(daemonJson.pid)
       THEN /\ dog' = SignalledDog(daemonJson)
            /\ procs' = Ending(daemonJson.pid)
            /\ stop' = [stop EXCEPT ![c] = [at |-> "done", mode |-> "dashboard",
                                            info |-> daemonJson, signalled |-> TRUE]]
       ELSE stop' = [stop EXCEPT ![c].at = "done"] /\ UNCHANGED <<procs, dog>>
    /\ removeDaemonInfo
    /\ UNCHANGED serve

StopSeesExit(c) ==
    /\ stop[c].at = "waiting" /\ ~isDaemonAlive(stop[c].info.pid)
    /\ stop' = [stop EXCEPT ![c].at = "done"]
    /\ removeDaemonInfo
    /\ UNCHANGED <<procs, dog, serve>>

(* Mutant: a graceful stop that runs out of time does not kill.            *)
StopGivesUp(c) ==
    /\ stop[c].at = "waiting"
    /\ stop' = [stop EXCEPT ![c].at = "killed"]
    /\ UNCHANGED <<procs, files, dog, serve>>

(* Ten seconds are over.                                                   *)
StopEscalates(c) ==
    /\ stop[c].at = "waiting"
    /\ procs' = Killed(stop[c].info.pid)
    /\ stop' = [stop EXCEPT ![c].at = "killed"]
    /\ UNCHANGED <<files, dog, serve>>

StopCleansUp(c) ==
    /\ stop[c].at = "killed"
    /\ stop' = [stop EXCEPT ![c].at = "done"]
    /\ removeDaemonInfo
    /\ UNCHANGED <<procs, dog, serve>>

-----------------------------------------------------------------------------
(* ps, monitor, agents, logs, the terminal interface: cleanStaleDaemons.   *)
cleanStaleDaemons ==
    /\ daemonJson # NoInfo /\ ~isDaemonAlive(daemonJson.pid)
    /\ removeDaemonInfo
    /\ UNCHANGED <<procs, dog, serve, stop>>

(* The agent crashes, or ends when it was asked to.                        *)
AgentExits ==
    \E pid \in Alive : procs' = Killed(pid) /\ UNCHANGED <<files, dog, serve, stop>>

DaemonsNext ==
    \/ \E s \in Serves : \/ ServeChecks(s) \/ ServeSpawns(s) \/ ServeWritesInfo(s)
                         \/ ServeWritesPid(s) \/ ServeStarted(s) \/ ServeFoundCrash(s)
    \/ \E w \in Serves : DogSteps(w)
    \/ \E c \in Stops : \/ StopResolves(c) \/ StopSignals(c) \/ DashboardStops(c)
                        \/ StopSeesExit(c) \/ StopEscalates(c) \/ StopCleansUp(c)
    \/ cleanStaleDaemons
    \/ AgentExits

(* The timers of a watchdog fire and its file operations end.              *)
DaemonsFairness == \A w \in Serves : WF_daemonVars(DogSteps(w))

DaemonsSpec == DaemonsInit /\ [][DaemonsNext]_daemonVars /\ DaemonsFairness

-----------------------------------------------------------------------------
DaemonsTypeOK ==
    /\ procs \in Seq([state : {"up", "ending", "dead"}, parent : Serves \cup {NoDog}])
    /\ daemonDir \in BOOLEAN
    /\ {daemonJson, NoInfo} \subseteq [pid : Nat, watchdogPid : Serves \cup {NoDog}, restartCount : Nat]
    /\ daemonPid \in Nat
    /\ \A w \in Serves : dog[w].consecutiveFailures < CONSECUTIVE_FAILURES_THRESHOLD

(* A watchdog restarts the agent no more often than it may, although an    *)
(* attempt that fails late counts twice (watchdog.ts:149, 187 and 197).    *)
RestartBudget ==
    \A w \in Serves :
        /\ Cardinality({pid \in DOMAIN procs : procs[pid].parent = w}) <= maxRestarts
        /\ dog[w].restartCount <= maxRestarts + 1

(* There is one process of the agent at a time, unless a serve could not   *)
(* see that it was under way: the only check is serve's, of the pid in     *)
(* daemon.json (serve.ts:83-91).                                          *)
OneAgent == (\A s \in Serves : ~serve[s].blind) => Cardinality(Alive) <= 1

(* A stop that found the process running has ended it when it is done,     *)
(* except the dashboard's, and the watchdog it signalled has started none  *)
(* since, nor will (stop.ts:65: it is signalled first for that).           *)
StopIsFinal ==
    \A c \in Stops : stop[c].signalled =>
        /\ stop[c].at = "done" /\ stop[c].mode # "dashboard" => ~isDaemonAlive(stop[c].info.pid)
        /\ (\A s \in Serves : ~serve[s].blind) =>
               \A pid \in DOMAIN procs : pid > stop[c].info.pid =>
                   procs[pid].parent = NoDog \/ procs[pid].parent # stop[c].info.watchdogPid

DaemonsInv == DaemonsTypeOK /\ RestartBudget /\ OneAgent /\ StopIsFinal

(* While a watchdog is up a dead agent is started again, or the watchdogs  *)
(* exit: none goes on for ever without an agent, also when the directory   *)
(* is removed under it and every attempt fails (watchdog.ts:149-198).      *)
DeadAgentHandled ==
    (\E w \in Serves : DogAlive(w)) /\ Alive = {} ~> Alive # {} \/ (\A w \in Serves : ~DogAlive(w))
=============================================================================

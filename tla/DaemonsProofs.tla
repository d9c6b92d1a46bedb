--------------------------- MODULE DaemonsProofs ---------------------------
(***************************************************************************)
(* The safety of Daemons for any number of serve and stop commands, any    *)
(* restart limit and any number of processes.                              *)
(***************************************************************************)
EXTENDS Daemons, FiniteSetTheorems, SequenceTheorems, TLAPS

Parents == Serves \cup {NoDog}
ProcType == [state : {"up", "ending", "dead"}, parent : Parents]
InfoType == [pid : Nat, watchdogPid : Parents, restartCount : Nat]
Failures == 0..(CONSECUTIVE_FAILURES_THRESHOLD - 1)
DogType ==
    [at : {"none", "sleeping", "probing", "killed", "backoff", "spawning", "recording",
           "reading", "rewriting", "exited"},
     stopping : BOOLEAN, restartCount : Nat,
     consecutiveFailures : Failures, pid : Nat, info : InfoType]
ServeType == [at : {"idle", "spawning", "writing", "recording", "polling", "done"},
              restart : BOOLEAN, pid : Nat, blind : BOOLEAN]
StopType == [at : {"idle", "resolved", "waiting", "killed", "done"},
             mode : {"graceful", "force", "dashboard"}, info : InfoType, signalled : BOOLEAN]

Types ==
    /\ procs \in Seq(ProcType)
    /\ daemonDir \in BOOLEAN /\ daemonJson \in InfoType /\ daemonPid \in Nat
    /\ dog \in [Serves -> DogType]
    /\ serve \in [Serves -> ServeType]
    /\ stop \in [Stops -> StopType]

-----------------------------------------------------------------------------
(* The processes: one is born, dies or is asked to end.                    *)
LEMMA AliveIsKnown ==
    ASSUME Types
    PROVE  /\ Alive \subseteq 1..Len(procs) /\ DOMAIN procs = 1..Len(procs) /\ Len(procs) \in Nat
           /\ \A pid : isDaemonAlive(pid) <=> pid \in Alive
BY DEF Types, Alive, isDaemonAlive

LEMMA BirthAdds ==
    ASSUME Types, NEW parent \in Parents, procs' = Spawned(parent)
    PROVE  /\ procs' \in Seq(ProcType) /\ DOMAIN procs' = 1..(Len(procs) + 1)
           /\ Len(procs') = Len(procs) + 1
           /\ Alive' = Alive \cup {NewPid} /\ NewPid = Len(procs) + 1 /\ Alive \subseteq 1..Len(procs)
           /\ procs'[Len(procs) + 1].parent = parent
           /\ \A pid \in DOMAIN procs : procs'[pid].parent = procs[pid].parent
<1>1. procs \in Seq(ProcType) /\ [state |-> "up", parent |-> parent] \in ProcType
  BY DEF Types, ProcType
<1>2. /\ procs' \in Seq(ProcType) /\ Len(procs') = Len(procs) + 1
      /\ procs'[Len(procs) + 1] = [state |-> "up", parent |-> parent]
      /\ \A pid \in 1..Len(procs) : procs'[pid] = procs[pid]
  BY <1>1 DEF Spawned
<1>3. DOMAIN procs = 1..Len(procs) /\ DOMAIN procs' = 1..(Len(procs) + 1) /\ Len(procs) \in Nat
  BY <1>1, <1>2
<1>4. Alive' = Alive \cup {Len(procs) + 1} /\ Alive \subseteq 1..Len(procs)
  BY <1>2, <1>3 DEF Alive, isDaemonAlive
<1> QED BY <1>2, <1>3, <1>4 DEF NewPid

LEMMA DeathRemoves ==
    ASSUME Types, NEW pid, procs' = Killed(pid)
    PROVE  /\ procs' \in Seq(ProcType) /\ DOMAIN procs' = DOMAIN procs /\ Len(procs') = Len(procs)
           /\ Alive' = Alive \ {pid}
           /\ \A q \in DOMAIN procs : procs'[q].parent = procs[q].parent
<1>1. procs \in Seq(ProcType) /\ DOMAIN procs = 1..Len(procs)
  BY DEF Types
<1>2. \A q \in DOMAIN procs : procs[q] \in ProcType
  BY <1>1
<1>3. /\ DOMAIN procs' = DOMAIN procs
      /\ \A q \in DOMAIN procs : procs'[q] = IF q = pid THEN [procs[q] EXCEPT !.state = "dead"] ELSE procs[q]
  BY DEF Killed
<1>4. \A q \in DOMAIN procs :
          procs'[q] \in ProcType /\ procs'[q].parent = procs[q].parent /\ (q = pid => procs'[q].state = "dead")
  BY <1>2, <1>3 DEF ProcType
<1>5. procs' \in [1..Len(procs) -> ProcType]
  BY <1>1, <1>3, <1>4 DEF Killed
<1>6. procs' \in Seq(ProcType) /\ Len(procs') = Len(procs)
  BY <1>1, <1>5
<1>7. Alive' = Alive \ {pid}
  BY <1>3, <1>4 DEF Alive, isDaemonAlive
<1> QED BY <1>3, <1>4, <1>6, <1>7

LEMMA EndingKeeps ==
    ASSUME Types, NEW pid, isDaemonAlive(pid), procs' = Ending(pid)
    PROVE  /\ procs' \in Seq(ProcType) /\ DOMAIN procs' = DOMAIN procs /\ Len(procs') = Len(procs)
           /\ Alive' = Alive
           /\ \A q \in DOMAIN procs : procs'[q].parent = procs[q].parent
<1>1. procs \in Seq(ProcType) /\ DOMAIN procs = 1..Len(procs)
  BY DEF Types
<1>2. \A q \in DOMAIN procs : procs[q] \in ProcType
  BY <1>1
<1>3. /\ DOMAIN procs' = DOMAIN procs
      /\ \A q \in DOMAIN procs : procs'[q] = IF q = pid THEN [procs[q] EXCEPT !.state = "ending"] ELSE procs[q]
  BY DEF Ending
<1>4. \A q \in DOMAIN procs :
          procs'[q] \in ProcType /\ procs'[q].parent = procs[q].parent /\ (q = pid => procs'[q].state = "ending")
  BY <1>2, <1>3 DEF ProcType
<1>5. procs' \in [1..Len(procs) -> ProcType]
  BY <1>1, <1>3, <1>4 DEF Ending
<1>6. procs' \in Seq(ProcType) /\ Len(procs') = Len(procs)
  BY <1>1, <1>5
<1>7. Alive' = Alive
  BY <1>3, <1>4 DEF Alive, isDaemonAlive
<1> QED BY <1>3, <1>4, <1>6, <1>7

-----------------------------------------------------------------------------
(* The types.                                                              *)
LEMMA FailuresAreCounted ==
    /\ 0 \in Failures /\ CONSECUTIVE_FAILURES_THRESHOLD - 1 \in Failures
    /\ \A n \in Failures : n + 1 < CONSECUTIVE_FAILURES_THRESHOLD => n + 1 \in Failures
BY DaemonsAssumption DEF Failures

LEMMA RecordsAreTyped ==
    /\ NoInfo \in InfoType
    /\ \A d \in DogType : Restarting(d) \in DogType /\ NotRestarted(d) \in DogType
<1>1. NoInfo \in InfoType
  BY DEF NoInfo, NoPid, InfoType, Parents
<1>2. ASSUME NEW d \in DogType PROVE Restarting(d) \in DogType
  BY DEF DogType, Restarting
<1>3. ASSUME NEW d \in DogType PROVE NotRestarted(d) \in DogType
  <2>1. d.restartCount + 1 \in Nat
    BY DEF DogType
  <2> QED BY <2>1 DEF DogType, NotRestarted, NoPid
<1> QED BY <1>1, <1>2, <1>3

(* What a step of a watchdog may do to it.                                 *)
LEMMA DogStepsAreTyped ==
    ASSUME Types, NEW w \in Serves, DogSteps(w)
    PROVE  Types'
<1>1. dog[w] \in DogType /\ daemonJson \in InfoType /\ daemonPid \in Nat /\ dog \in [Serves -> DogType]
  BY DEF Types
<1>2. /\ Restarting(dog[w]) \in DogType /\ NotRestarted(dog[w]) \in DogType
      /\ [dog[w] EXCEPT !.at = "exited"] \in DogType
  BY <1>1, RecordsAreTyped DEF DogType
<1>3. ASSUME NEW d \in DogType, Dog(w, d) PROVE dog' \in [Serves -> DogType]
  BY <1>1, <1>3 DEF Dog
<1>4. CASE DogPolls(w)
  <2>1. [dog[w] EXCEPT !.at = "probing", !.pid = daemonPid] \in DogType
    BY <1>1 DEF DogType
  <2>2. dog' \in [Serves -> DogType]
    BY <1>2, <1>3, <1>4, <2>1 DEF DogPolls
  <2> QED BY <1>4, <2>2 DEF DogPolls, Types, files
<1>5. CASE DogFindsHealthy(w)
  <2>1. [dog[w] EXCEPT !.at = "sleeping", !.consecutiveFailures = 0, !.pid = NoPid] \in DogType
    BY <1>1, FailuresAreCounted DEF DogType, NoPid
  <2>2. dog' \in [Serves -> DogType]
    BY <1>3, <1>5, <2>1 DEF DogFindsHealthy
  <2> QED BY <1>5, <2>2 DEF DogFindsHealthy, Types, files
<1>6. CASE DogFindsUnhealthy(w)
  <2> DEFINE failures == dog[w].consecutiveFailures + 1
  <2>1. CASE failures < CONSECUTIVE_FAILURES_THRESHOLD
    <3> failures \in Failures
      BY <1>1, <2>1, FailuresAreCounted DEF DogType
    <3> HIDE DEF failures
    <3>1. [dog[w] EXCEPT !.at = "sleeping", !.pid = NoPid, !.consecutiveFailures = failures] \in DogType
      BY <1>1 DEF DogType, NoPid
    <3>2. dog' \in [Serves -> DogType] /\ UNCHANGED procs
      BY <1>3, <1>6, <2>1, <3>1 DEF DogFindsUnhealthy, failures
    <3> QED BY <1>6, <3>2 DEF DogFindsUnhealthy, Types, files
  <2>2. CASE ~(failures < CONSECUTIVE_FAILURES_THRESHOLD)
    <3>1. [dog[w] EXCEPT !.at = "killed", !.pid = NoPid,
               !.consecutiveFailures = CONSECUTIVE_FAILURES_THRESHOLD - 1] \in DogType
      BY <1>1, FailuresAreCounted DEF DogType, NoPid
    <3>2. dog' \in [Serves -> DogType] /\ procs' = Killed(dog[w].pid)
      BY <1>3, <1>6, <2>2, <3>1 DEF DogFindsUnhealthy
    <3>3. procs' \in Seq(ProcType)
      BY <3>2, DeathRemoves
    <3> QED BY <1>6, <3>2, <3>3 DEF DogFindsUnhealthy, Types, files
  <2> QED BY <2>1, <2>2
<1>7. CASE DogWaited(w)
  <2>1. dog' \in [Serves -> DogType]
    BY <1>2, <1>3, <1>7 DEF DogWaited
  <2> QED BY <1>7, <2>1 DEF DogWaited, Types, files
<1>8. CASE DogBackedOff(w)
  <2>1. [dog[w] EXCEPT !.at = "spawning"] \in DogType
    BY <1>1 DEF DogType
  <2>2. dog' \in [Serves -> DogType]
    BY <1>2, <1>3, <1>8, <2>1 DEF DogBackedOff
  <2> QED BY <1>8, <2>2 DEF DogBackedOff, Types, files
<1>9. CASE DogSpawns(w)
  <2>1. CASE Dog(w, NotRestarted(dog[w])) /\ UNCHANGED procs
    <3>1. dog' \in [Serves -> DogType]
      BY <1>2, <1>3, <2>1
    <3> QED BY <1>9, <2>1, <3>1 DEF DogSpawns, Types, files
  <2>2. CASE /\ procs' = Spawned(w)
             /\ Dog(w, [dog[w] EXCEPT !.at = "recording", !.pid = NewPid,
                            !.restartCount = @ + 1, !.consecutiveFailures = 0])
    <3>1. NewPid \in Nat /\ procs' \in Seq(ProcType) /\ dog[w].restartCount + 1 \in Nat
      BY <1>1, <2>2, BirthAdds, AliveIsKnown DEF Parents, NewPid, DogType
    <3>2. [dog[w] EXCEPT !.at = "recording", !.pid = NewPid,
               !.restartCount = @ + 1, !.consecutiveFailures = 0] \in DogType
      BY <1>1, <3>1, FailuresAreCounted DEF DogType
    <3>3. dog' \in [Serves -> DogType]
      BY <1>3, <2>2, <3>2
    <3> QED BY <1>9, <3>1, <3>3 DEF DogSpawns, Types, files
  <2> QED BY <1>9, <2>1, <2>2 DEF DogSpawns
<1>10. CASE DogWritesPid(w)
  <2>1. [dog[w] EXCEPT !.at = "reading"] \in DogType
    BY <1>1 DEF DogType
  <2>2. dog' \in [Serves -> DogType] /\ daemonPid' \in Nat
    BY <1>1, <1>2, <1>3, <1>10, <2>1 DEF DogWritesPid, DogType
  <2> QED BY <1>10, <2>2 DEF DogWritesPid, Types
<1>11. CASE DogReadsInfo(w)
  <2>1. /\ [dog[w] EXCEPT !.at = "sleeping", !.pid = NoPid] \in DogType
        /\ [dog[w] EXCEPT !.at = "rewriting", !.info = daemonJson] \in DogType
    BY <1>1 DEF DogType, NoPid
  <2>2. dog' \in [Serves -> DogType]
    BY <1>3, <1>11, <2>1 DEF DogReadsInfo
  <2> QED BY <1>11, <2>2 DEF DogReadsInfo, Types, files
<1>12. CASE DogWritesInfo(w)
  <2>1. [dog[w] EXCEPT !.at = "sleeping", !.pid = NoPid, !.info = NoInfo] \in DogType
    BY <1>1, RecordsAreTyped DEF DogType, NoPid
  <2>2. [dog[w].info EXCEPT !.pid = dog[w].pid, !.restartCount = dog[w].restartCount] \in InfoType
    BY <1>1 DEF DogType, InfoType
  <2>3. dog' \in [Serves -> DogType] /\ daemonJson' \in InfoType
    BY <1>3, <1>12, <2>1, <2>2, RecordsAreTyped DEF DogWritesInfo
  <2> QED BY <1>12, <2>3 DEF DogWritesInfo, Types
<1> QED BY <1>4, <1>5, <1>6, <1>7, <1>8, <1>9, <1>10, <1>11, <1>12 DEF DogSteps

LEMMA ServeStepsAreTyped ==
    ASSUME Types, NEW s \in Serves,
           \/ ServeChecks(s) \/ ServeSpawns(s) \/ ServeWritesInfo(s)
           \/ ServeWritesPid(s) \/ ServeStarted(s) \/ ServeFoundCrash(s)
    PROVE  Types'
<1>1. /\ serve[s] \in ServeType /\ dog[s] \in DogType /\ daemonJson \in InfoType
      /\ serve \in [Serves -> ServeType] /\ dog \in [Serves -> DogType]
      /\ NoInfo \in InfoType /\ s \in Parents /\ NoDog \in Parents
  BY RecordsAreTyped DEF Types, Parents
<1>2. CASE ServeChecks(s)
  <2>1. Unseen(s) \in BOOLEAN
    BY DEF Unseen
  <2>2. serve' \in [Serves -> ServeType] /\ daemonDir' \in BOOLEAN
    <3>1. /\ [serve[s] EXCEPT !.at = "done"] \in ServeType
          /\ [serve[s] EXCEPT !.at = "spawning", !.blind = Unseen(s)] \in ServeType
      BY <1>1, <2>1 DEF ServeType
    <3>2. \/ serve' = [serve EXCEPT ![s] = [serve[s] EXCEPT !.at = "done"]]
          \/ serve' = [serve EXCEPT ![s] = [serve[s] EXCEPT !.at = "spawning", !.blind = Unseen(s)]]
      BY <1>2 DEF ServeChecks
    <3>3. daemonDir' \in BOOLEAN
      BY <1>2 DEF ServeChecks, Types
    <3> QED BY <1>1, <3>1, <3>2, <3>3
  <2> QED BY <1>2, <2>2 DEF ServeChecks, Types
<1>3. CASE ServeSpawns(s)
  <2>1. procs' = Spawned(NoDog) => procs' \in Seq(ProcType)
    BY <1>1, BirthAdds
  <2>2. NewPid \in Nat
    BY AliveIsKnown DEF NewPid
  <2>3. serve' \in [Serves -> ServeType] /\ procs' \in Seq(ProcType)
    <3>1. /\ [serve[s] EXCEPT !.at = "done"] \in ServeType
          /\ [serve[s] EXCEPT !.at = "writing", !.pid = NewPid] \in ServeType
      BY <1>1, <2>2 DEF ServeType
    <3>2. \/ serve' = [serve EXCEPT ![s] = [serve[s] EXCEPT !.at = "done"]]
          \/ serve' = [serve EXCEPT ![s] = [serve[s] EXCEPT !.at = "writing", !.pid = NewPid]]
      BY <1>3 DEF ServeSpawns
    <3>3. procs' \in Seq(ProcType)
      BY <1>3, <2>1 DEF ServeSpawns, Types
    <3> QED BY <1>1, <3>1, <3>2, <3>3
  <2> QED BY <1>3, <2>3 DEF ServeSpawns, Types, files
<1>4. CASE ServeWritesInfo(s)
  <2>1. serve' \in [Serves -> ServeType] /\ daemonJson' \in InfoType
    BY <1>1, <1>4 DEF ServeWritesInfo, ServeType, InfoType
  <2> QED BY <1>4, <2>1 DEF ServeWritesInfo, Types
<1>5. CASE ServeWritesPid(s)
  <2>1. serve' \in [Serves -> ServeType] /\ daemonPid' \in Nat
    BY <1>1, <1>5 DEF ServeWritesPid, ServeType, NoPid
  <2> QED BY <1>5, <2>1 DEF ServeWritesPid, Types
<1>6. CASE ServeStarted(s)
  <2>1. serve' \in [Serves -> ServeType]
    BY <1>1, <1>6 DEF ServeStarted, ServeType
  <2>2. [dog[s] EXCEPT !.at = "sleeping"] \in DogType
    BY <1>1 DEF DogType
  <2>3. dog' \in [Serves -> DogType] /\ daemonJson' \in InfoType
    BY <1>1, <1>6, <2>2 DEF ServeStarted, InfoType
  <2> QED BY <1>6, <2>1, <2>3 DEF ServeStarted, Types
<1>7. CASE ServeFoundCrash(s)
  <2>1. serve' \in [Serves -> ServeType]
    BY <1>1, <1>7 DEF ServeFoundCrash, ServeType
  <2> QED BY <1>7, <2>1 DEF ServeFoundCrash, Types, files
<1> QED BY <1>2, <1>3, <1>4, <1>5, <1>6, <1>7

LEMMA RemovalIsTyped ==
    ASSUME removeDaemonInfo
    PROVE  daemonDir' \in BOOLEAN /\ daemonJson' \in InfoType /\ daemonPid' \in Nat
BY RecordsAreTyped DEF removeDaemonInfo, NoPid

LEMMA SignalsAreTyped ==
    ASSUME Types, NEW info PROVE SignalledDog(info) \in [Serves -> DogType]
<1> SUFFICES ASSUME NEW w \in Serves
             PROVE  [dog[w] EXCEPT !.stopping = @ \/ (w = info.watchdogPid /\ DogAlive(w))] \in DogType
  BY DEF SignalledDog
<1>1. dog[w] \in DogType
  BY DEF Types
<1>2. (dog[w].stopping \/ (w = info.watchdogPid /\ DogAlive(w))) \in BOOLEAN
  OBVIOUS
<1> QED BY <1>1, <1>2 DEF DogType

LEMMA StopStepsAreTyped ==
    ASSUME Types, NEW c \in Stops,
           \/ StopResolves(c) \/ StopSignals(c) \/ DashboardStops(c)
           \/ StopSeesExit(c) \/ StopEscalates(c) \/ StopCleansUp(c)
    PROVE  Types'
<1>1. stop[c] \in StopType /\ daemonJson \in InfoType /\ stop \in [Stops -> StopType]
      /\ daemonDir \in BOOLEAN /\ daemonPid \in Nat /\ procs \in Seq(ProcType)
  BY DEF Types
<1>2. CASE StopResolves(c)
  <2>1. stop' \in [Stops -> StopType]
    <3>1. [stop[c] EXCEPT !.at = "done"] \in StopType
      BY <1>1 DEF StopType
    <3>2. ASSUME NEW mode \in {"graceful", "force"}
          PROVE  [stop[c] EXCEPT !.at = "resolved", !.mode = mode, !.info = daemonJson] \in StopType
      BY <1>1 DEF StopType
    <3> QED BY <1>1, <1>2, <3>1, <3>2 DEF StopResolves
  <2>2. daemonDir' \in BOOLEAN /\ daemonJson' \in InfoType /\ daemonPid' \in Nat
    BY <1>1, <1>2, RemovalIsTyped DEF StopResolves, files
  <2> QED BY <1>2, <2>1, <2>2 DEF StopResolves, Types
<1>3. CASE StopSignals(c)
  <2>1. stop' \in [Stops -> StopType]
    BY <1>1, <1>3 DEF StopSignals, StopType
  <2>2. daemonDir' \in BOOLEAN /\ daemonJson' \in InfoType /\ daemonPid' \in Nat
    BY <1>1, <1>3, RemovalIsTyped DEF StopSignals, files
  <2>3. dog' \in [Serves -> DogType]
    BY <1>3, SignalsAreTyped DEF StopSignals
  <2>4. procs' \in Seq(ProcType)
    BY <1>1, <1>3, DeathRemoves, EndingKeeps DEF StopSignals
  <2> QED BY <1>3, <2>1, <2>2, <2>3, <2>4 DEF StopSignals, Types
<1>4. CASE DashboardStops(c)
  <2>1. stop' \in [Stops -> StopType]
    <3>1. /\ [stop[c] EXCEPT !.at = "done"] \in StopType
          /\ [at |-> "done", mode |-> "dashboard", info |-> daemonJson, signalled |-> TRUE] \in StopType
      BY <1>1 DEF StopType
    <3> QED BY <1>1, <1>4, <3>1 DEF DashboardStops
  <2>2. daemonDir' \in BOOLEAN /\ daemonJson' \in InfoType /\ daemonPid' \in Nat
    BY <1>1, <1>4, RemovalIsTyped DEF DashboardStops
  <2>3. dog' \in [Serves -> DogType]
    BY <1>4, SignalsAreTyped DEF DashboardStops, Types
  <2>4. procs' \in Seq(ProcType)
    BY <1>1, <1>4, EndingKeeps DEF DashboardStops
  <2> QED BY <1>4, <2>1, <2>2, <2>3, <2>4 DEF DashboardStops, Types
<1>5. CASE StopSeesExit(c)
  <2>1. stop' \in [Stops -> StopType]
    BY <1>1, <1>5 DEF StopSeesExit, StopType
  <2> QED BY <1>5, <2>1, RemovalIsTyped DEF StopSeesExit, Types
<1>6. CASE StopEscalates(c)
  <2>1. stop' \in [Stops -> StopType]
    BY <1>1, <1>6 DEF StopEscalates, StopType
  <2>2. procs' \in Seq(ProcType)
    BY <1>6, DeathRemoves DEF StopEscalates
  <2> QED BY <1>6, <2>1, <2>2 DEF StopEscalates, Types, files
<1>7. CASE StopCleansUp(c)
  <2>1. stop' \in [Stops -> StopType]
    BY <1>1, <1>7 DEF StopCleansUp, StopType
  <2> QED BY <1>7, <2>1, RemovalIsTyped DEF StopCleansUp, Types
<1> QED BY <1>2, <1>3, <1>4, <1>5, <1>6, <1>7

LEMMA TypesKept == ASSUME Types, [DaemonsNext]_daemonVars PROVE Types'
<1>1. CASE cleanStaleDaemons
  BY <1>1, RemovalIsTyped DEF cleanStaleDaemons, Types
<1>2. CASE AgentExits
  <2>1. procs' \in Seq(ProcType)
    BY <1>2, DeathRemoves DEF AgentExits
  <2> QED BY <1>2, <2>1 DEF AgentExits, Types, files
<1>3. CASE UNCHANGED daemonVars
  BY <1>3 DEF Types, daemonVars
<1> QED BY <1>1, <1>2, <1>3, DogStepsAreTyped, ServeStepsAreTyped, StopStepsAreTyped DEF DaemonsNext

LEMMA TypesHoldInitially == ASSUME DaemonsInit PROVE Types
<1>1. [at |-> "none", stopping |-> FALSE, restartCount |-> 0, consecutiveFailures |-> 0,
       pid |-> NoPid, info |-> NoInfo] \in DogType
  BY RecordsAreTyped, FailuresAreCounted DEF DogType, NoPid
<1>2. [at |-> "idle", mode |-> "graceful", info |-> NoInfo, signalled |-> FALSE] \in StopType
  BY RecordsAreTyped DEF StopType
<1>3. serve \in [Serves -> ServeType]
  <2> DEFINE Fresh == [at : {"idle"}, restart : BOOLEAN, pid : {NoPid}, blind : {FALSE}]
  <2>1. ASSUME NEW r \in Fresh PROVE r \in ServeType
    <3>1. /\ r = [at |-> r.at, restart |-> r.restart, pid |-> r.pid, blind |-> r.blind]
          /\ r.at = "idle" /\ r.restart \in BOOLEAN /\ r.pid = NoPid /\ r.blind = FALSE
      BY <2>1
    <3>2. r.pid \in Nat
      BY <3>1 DEF NoPid
    <3> HIDE DEF Fresh
    <3> QED BY <3>1, <3>2 DEF ServeType
  <2>2. serve \in [Serves -> Fresh]
    BY DEF DaemonsInit
  <2> HIDE DEF Fresh
  <2>3. \A s \in Serves : serve[s] \in ServeType
    BY <2>1, <2>2
  <2> QED BY <2>2, <2>3
<1>4. procs \in Seq(ProcType)
  BY DEF DaemonsInit
<1> QED BY <1>1, <1>2, <1>3, <1>4, RecordsAreTyped DEF DaemonsInit, Types, NoPid

-----------------------------------------------------------------------------
(* What a step of a watchdog does to it, action by action.                 *)
LEMMA DogMoves ==
    ASSUME Types, NEW w \in Serves, DogSteps(w)
    PROVE  /\ \A u \in Serves \ {w} : dog'[u] = dog[u]
           /\ dog'[w].stopping = dog[w].stopping
           /\ DogPolls(w) =>
                  /\ dog'[w].restartCount = dog[w].restartCount /\ dog'[w].info = dog[w].info
                  /\ \/ dog'[w].at = "exited"
                     \/ dog'[w].at = "probing" /\ dog'[w].pid = daemonPid /\ isDaemonAlive(daemonPid)
                     \/ /\ dog'[w].at = "backoff" /\ dog[w].restartCount < maxRestarts
                        /\ ~isDaemonAlive(daemonPid)
           /\ DogFindsHealthy(w) =>
                  /\ dog'[w].restartCount = dog[w].restartCount /\ dog'[w].info = dog[w].info
                  /\ dog'[w].at = "sleeping"
           /\ DogFindsUnhealthy(w) =>
                  /\ dog'[w].restartCount = dog[w].restartCount /\ dog'[w].info = dog[w].info
                  /\ \/ dog'[w].at = "sleeping" /\ UNCHANGED procs
                     \/ dog'[w].at = "killed" /\ procs' = Killed(dog[w].pid)
           /\ DogWaited(w) =>
                  /\ dog'[w].restartCount = dog[w].restartCount /\ dog'[w].info = dog[w].info
                  /\ \/ dog'[w].at = "exited"
                     \/ dog'[w].at = "backoff" /\ dog[w].restartCount < maxRestarts
           /\ DogBackedOff(w) =>
                  /\ dog'[w].info = dog[w].info
                  /\ \/ dog'[w].at = "exited" /\ dog'[w].restartCount = dog[w].restartCount
                     \/ /\ dog'[w].at = "spawning" /\ dog'[w].restartCount = dog[w].restartCount
                        /\ daemonDir /\ ~dog[w].stopping
                     \/ /\ dog'[w].at = "sleeping" /\ dog'[w].restartCount = dog[w].restartCount + 1
                        /\ ~daemonDir
           /\ DogSpawns(w) =>
                  /\ dog'[w].restartCount = dog[w].restartCount + 1 /\ dog'[w].info = dog[w].info
                  /\ \/ dog'[w].at = "recording" /\ dog'[w].pid = NewPid /\ procs' = Spawned(w)
                     \/ dog'[w].at = "sleeping" /\ UNCHANGED procs
           /\ DogWritesPid(w) =>
                  /\ dog'[w].info = dog[w].info
                  /\ \/ /\ dog'[w].at = "reading" /\ dog'[w].restartCount = dog[w].restartCount
                        /\ dog'[w].pid = dog[w].pid /\ daemonDir /\ daemonPid' = dog[w].pid
                     \/ /\ dog'[w].at = "sleeping" /\ dog'[w].restartCount = dog[w].restartCount + 1
                        /\ ~daemonDir /\ UNCHANGED daemonPid
           /\ DogReadsInfo(w) =>
                  /\ dog'[w].restartCount = dog[w].restartCount
                  /\ \/ dog'[w].at = "sleeping" /\ dog'[w].info = dog[w].info
                     \/ dog'[w].at = "rewriting" /\ dog'[w].info = daemonJson
           /\ DogWritesInfo(w) =>
                  /\ dog'[w].restartCount = dog[w].restartCount
                  /\ dog'[w].at = "sleeping" /\ dog'[w].info = NoInfo
<1>1. dog[w] \in DogType /\ dog \in [Serves -> DogType]
  BY DEF Types
<1>2. ASSUME NEW d, Dog(w, d) PROVE dog'[w] = d /\ \A u \in Serves \ {w} : dog'[u] = dog[u]
  BY <1>1, <1>2 DEF Dog
<1>3. \E d : Dog(w, d)
  BY DEF DogSteps, DogPolls, DogFindsHealthy, DogFindsUnhealthy, DogWaited, DogBackedOff,
         DogSpawns, DogWritesPid, DogReadsInfo, DogWritesInfo
<1>4. \A u \in Serves \ {w} : dog'[u] = dog[u]
  BY <1>2, <1>3
<1>5. /\ Restarting(dog[w]).restartCount = dog[w].restartCount
      /\ Restarting(dog[w]).info = dog[w].info /\ Restarting(dog[w]).stopping = dog[w].stopping
      /\ \/ Restarting(dog[w]).at = "exited"
         \/ Restarting(dog[w]).at = "backoff" /\ dog[w].restartCount < maxRestarts
  BY <1>1, DaemonsAssumption DEF DogType, Restarting
<1>6. /\ NotRestarted(dog[w]).restartCount = dog[w].restartCount + 1
      /\ NotRestarted(dog[w]).info = dog[w].info /\ NotRestarted(dog[w]).at = "sleeping"
      /\ NotRestarted(dog[w]).stopping = dog[w].stopping
  BY <1>1 DEF DogType, NotRestarted
<1>7. ASSUME DogPolls(w)
      PROVE  /\ dog'[w].stopping = dog[w].stopping
             /\ dog'[w].restartCount = dog[w].restartCount /\ dog'[w].info = dog[w].info
             /\ \/ dog'[w].at = "exited"
                \/ dog'[w].at = "probing" /\ dog'[w].pid = daemonPid /\ isDaemonAlive(daemonPid)
                \/ /\ dog'[w].at = "backoff" /\ dog[w].restartCount < maxRestarts
                   /\ ~isDaemonAlive(daemonPid)
  <2>1. CASE dog[w].stopping
    <3>1. dog'[w] = [dog[w] EXCEPT !.at = "exited"]
      BY <1>2, <1>7, <2>1 DEF DogPolls
    <3> QED BY <1>1, <3>1 DEF DogType
  <2>2. CASE ~dog[w].stopping /\ isDaemonAlive(daemonPid)
    <3>1. dog'[w] = [dog[w] EXCEPT !.at = "probing", !.pid = daemonPid]
      BY <1>2, <1>7, <2>2 DEF DogPolls
    <3> QED BY <1>1, <2>2, <3>1 DEF DogType
  <2>3. CASE ~dog[w].stopping /\ ~isDaemonAlive(daemonPid)
    <3>1. dog'[w] = Restarting(dog[w])
      BY <1>2, <1>7, <2>3 DEF DogPolls
    <3> QED BY <1>5, <2>3, <3>1
  <2> QED BY <2>1, <2>2, <2>3
<1>8. ASSUME DogFindsHealthy(w)
      PROVE  /\ dog'[w].stopping = dog[w].stopping
             /\ dog'[w].restartCount = dog[w].restartCount /\ dog'[w].info = dog[w].info
             /\ dog'[w].at = "sleeping"
  <2>1. dog'[w] = [dog[w] EXCEPT !.at = "sleeping", !.consecutiveFailures = 0, !.pid = NoPid]
    BY <1>2, <1>8 DEF DogFindsHealthy
  <2> QED BY <1>1, <2>1 DEF DogType
<1>9. ASSUME DogFindsUnhealthy(w)
      PROVE  /\ dog'[w].stopping = dog[w].stopping
             /\ dog'[w].restartCount = dog[w].restartCount /\ dog'[w].info = dog[w].info
             /\ \/ dog'[w].at = "sleeping" /\ UNCHANGED procs
                \/ dog'[w].at = "killed" /\ procs' = Killed(dog[w].pid)
  <2> DEFINE failures == dog[w].consecutiveFailures + 1
  <2>1. CASE failures < CONSECUTIVE_FAILURES_THRESHOLD
    <3>1. UNCHANGED procs
          /\ dog'[w] = [dog[w] EXCEPT !.at = "sleeping", !.pid = NoPid, !.consecutiveFailures = failures]
      BY <1>2, <1>9, <2>1 DEF DogFindsUnhealthy
    <3> QED BY <1>1, <3>1 DEF DogType
  <2>2. CASE ~(failures < CONSECUTIVE_FAILURES_THRESHOLD)
    <3>1. procs' = Killed(dog[w].pid)
          /\ dog'[w] = [dog[w] EXCEPT !.at = "killed", !.pid = NoPid,
                            !.consecutiveFailures = CONSECUTIVE_FAILURES_THRESHOLD - 1]
      BY <1>2, <1>9, <2>2 DEF DogFindsUnhealthy
    <3> QED BY <1>1, <3>1 DEF DogType
  <2> QED BY <2>1, <2>2
<1>10. ASSUME DogWaited(w)
       PROVE  /\ dog'[w].stopping = dog[w].stopping
              /\ dog'[w].restartCount = dog[w].restartCount /\ dog'[w].info = dog[w].info
              /\ \/ dog'[w].at = "exited"
                 \/ dog'[w].at = "backoff" /\ dog[w].restartCount < maxRestarts
  BY <1>2, <1>5, <1>10 DEF DogWaited
<1>11. ASSUME DogBackedOff(w)
       PROVE  /\ dog'[w].stopping = dog[w].stopping
              /\ dog'[w].info = dog[w].info
              /\ \/ dog'[w].at = "exited" /\ dog'[w].restartCount = dog[w].restartCount
                 \/ /\ dog'[w].at = "spawning" /\ dog'[w].restartCount = dog[w].restartCount
                    /\ daemonDir /\ ~dog[w].stopping
                 \/ /\ dog'[w].at = "sleeping" /\ dog'[w].restartCount = dog[w].restartCount + 1
                    /\ ~daemonDir
  <2>1. CASE dog[w].stopping
    <3>1. dog'[w] = [dog[w] EXCEPT !.at = "exited"]
      BY <1>2, <1>11, <2>1 DEF DogBackedOff
    <3> QED BY <1>1, <3>1 DEF DogType
  <2>2. CASE ~dog[w].stopping /\ daemonDir
    <3>1. dog'[w] = [dog[w] EXCEPT !.at = "spawning"]
      BY <1>2, <1>11, <2>2 DEF DogBackedOff
    <3> QED BY <1>1, <2>2, <3>1 DEF DogType
  <2>3. CASE ~dog[w].stopping /\ ~daemonDir
    <3>1. dog'[w] = NotRestarted(dog[w])
      BY <1>2, <1>11, <2>3 DEF DogBackedOff
    <3> QED BY <1>6, <2>3, <3>1
  <2> QED BY <2>1, <2>2, <2>3
<1>12. ASSUME DogSpawns(w)
       PROVE  /\ dog'[w].stopping = dog[w].stopping
              /\ dog'[w].restartCount = dog[w].restartCount + 1 /\ dog'[w].info = dog[w].info
              /\ \/ dog'[w].at = "recording" /\ dog'[w].pid = NewPid /\ procs' = Spawned(w)
                 \/ dog'[w].at = "sleeping" /\ UNCHANGED procs
  <2> DEFINE count == dog[w].restartCount + 1
  <2>1. \/ procs' = Spawned(w) /\ Dog(w, [dog[w] EXCEPT !.at = "recording", !.pid = NewPid,
                                             !.restartCount = count, !.consecutiveFailures = 0])
        \/ Dog(w, NotRestarted(dog[w])) /\ UNCHANGED procs
    BY <1>12 DEF DogSpawns
  <2>2. CASE procs' = Spawned(w) /\ Dog(w, [dog[w] EXCEPT !.at = "recording", !.pid = NewPid,
                                             !.restartCount = count, !.consecutiveFailures = 0])
    <3>1. dog'[w] = [dog[w] EXCEPT !.at = "recording", !.pid = NewPid,
                         !.restartCount = count, !.consecutiveFailures = 0]
      BY <1>2, <2>2
    <3> HIDE DEF count
    <3>2. dog'[w].restartCount = count /\ dog'[w].info = dog[w].info /\ dog'[w].at = "recording"
          /\ dog'[w].stopping = dog[w].stopping /\ dog'[w].pid = NewPid
      BY <1>1, <3>1 DEF DogType
    <3> QED BY <2>2, <3>2 DEF count
  <2>3. CASE Dog(w, NotRestarted(dog[w])) /\ UNCHANGED procs
    BY <1>2, <1>6, <2>3
  <2> QED BY <2>1, <2>2, <2>3
<1>13. ASSUME DogWritesPid(w)
       PROVE  /\ dog'[w].stopping = dog[w].stopping
              /\ dog'[w].info = dog[w].info
              /\ \/ /\ dog'[w].at = "reading" /\ dog'[w].restartCount = dog[w].restartCount
                    /\ dog'[w].pid = dog[w].pid /\ daemonDir /\ daemonPid' = dog[w].pid
                 \/ /\ dog'[w].at = "sleeping" /\ dog'[w].restartCount = dog[w].restartCount + 1
                    /\ ~daemonDir /\ UNCHANGED daemonPid
  <2>1. CASE daemonDir
    <3>1. dog'[w] = [dog[w] EXCEPT !.at = "reading"] /\ daemonPid' = dog[w].pid
      BY <1>2, <1>13, <2>1 DEF DogWritesPid
    <3> QED BY <1>1, <2>1, <3>1 DEF DogType
  <2>2. CASE ~daemonDir
    BY <1>2, <1>6, <1>13, <2>2 DEF DogWritesPid
  <2> QED BY <2>1, <2>2
<1>14. ASSUME DogReadsInfo(w)
       PROVE  /\ dog'[w].stopping = dog[w].stopping
              /\ dog'[w].restartCount = dog[w].restartCount
              /\ \/ dog'[w].at = "sleeping" /\ dog'[w].info = dog[w].info
                 \/ dog'[w].at = "rewriting" /\ dog'[w].info = daemonJson
  <2>1. \/ dog'[w] = [dog[w] EXCEPT !.at = "sleeping", !.pid = NoPid]
        \/ dog'[w] = [dog[w] EXCEPT !.at = "rewriting", !.info = daemonJson]
    BY <1>2, <1>14 DEF DogReadsInfo
  <2> QED BY <1>1, <2>1 DEF DogType
<1>15. ASSUME DogWritesInfo(w)
       PROVE  /\ dog'[w].stopping = dog[w].stopping
              /\ dog'[w].restartCount = dog[w].restartCount
              /\ dog'[w].at = "sleeping" /\ dog'[w].info = NoInfo
  <2>1. dog'[w] = [dog[w] EXCEPT !.at = "sleeping", !.pid = NoPid, !.info = NoInfo]
    BY <1>2, <1>15 DEF DogWritesInfo
  <2> QED BY <1>1, <2>1 DEF DogType
<1> QED BY <1>4, <1>7, <1>8, <1>9, <1>10, <1>11, <1>12, <1>13, <1>14, <1>15 DEF DogSteps

-----------------------------------------------------------------------------
(* The restarts.                                                           *)
Children(w) == {pid \in DOMAIN procs : procs[pid].parent = w}

(* A watchdog has started no more processes than it has counted; it counts *)
(* up to one more than its limit, and is below it while it restarts.       *)
Budget(w) ==
    /\ IsFiniteSet(Children(w)) /\ Cardinality(Children(w)) <= maxRestarts
    /\ Cardinality(Children(w)) <= dog[w].restartCount
    /\ dog[w].restartCount <= maxRestarts + 1
    /\ dog[w].at \in {"backoff", "spawning"} => dog[w].restartCount < maxRestarts
    /\ dog[w].at = "recording" => dog[w].restartCount <= maxRestarts

Budgets == \A w \in Serves : Budget(w)

LEMMA ChildrenKept ==
    ASSUME Types, NEW w,
           DOMAIN procs' = DOMAIN procs, \A q \in DOMAIN procs : procs'[q].parent = procs[q].parent
    PROVE  Children(w)' = Children(w)
BY DEF Children

(* Whatever else changes, nothing is spent while a watchdog neither counts *)
(* nor goes on to restart.                                                 *)
LEMMA BudgetKept ==
    ASSUME Types, NEW w \in Serves, Budget(w), Children(w)' = Children(w),
           dog'[w].restartCount = dog[w].restartCount,
           dog'[w].at \in {"backoff", "spawning"} =>
               dog[w].at \in {"backoff", "spawning"} \/ dog[w].restartCount < maxRestarts,
           dog'[w].at = "recording" => dog[w].at = "recording"
    PROVE  Budget(w)'
BY DEF Budget

LEMMA BudgetOfCounted ==
    ASSUME Types, NEW w \in Serves, Budget(w), Children(w)' = Children(w),
           dog'[w] = NotRestarted(dog[w]), dog[w].at \in {"backoff", "spawning", "recording"}
    PROVE  Budget(w)'
<1>1. dog[w].restartCount \in Nat /\ maxRestarts \in Nat /\ dog[w].restartCount <= maxRestarts
  BY DaemonsAssumption DEF Types, DogType, Budget
<1>2. dog'[w].restartCount = dog[w].restartCount + 1 /\ dog'[w].at = "sleeping"
  BY DEF NotRestarted, Types, DogType
<1>3. Cardinality(Children(w)) \in Nat
  BY FS_CardinalityType DEF Budget
<1> QED BY <1>1, <1>2, <1>3 DEF Budget

LEMMA ChildrenBorn ==
    ASSUME Types, NEW parent \in Parents, procs' = Spawned(parent), NEW w
    PROVE  /\ w = parent => Children(w)' = Children(w) \cup {NewPid} /\ NewPid \notin Children(w)
           /\ w # parent => Children(w)' = Children(w)
<1>1. DOMAIN procs = 1..Len(procs) /\ Len(procs) \in Nat
  BY DEF Types
<1>2. DOMAIN procs' = DOMAIN procs \cup {NewPid} /\ NewPid \notin DOMAIN procs
  <2>1. DOMAIN procs' = 1..(Len(procs) + 1)
    BY BirthAdds
  <2> QED BY <1>1, <2>1 DEF NewPid
<1>3. procs'[NewPid].parent = parent /\ \A q \in DOMAIN procs : procs'[q].parent = procs[q].parent
  BY BirthAdds
<1> QED BY <1>2, <1>3 DEF Children

LEMMA DogStepsKeepBudgets ==
    ASSUME Types, Budgets, NEW v \in Serves, DogSteps(v)
    PROVE  Budgets'
<1> SUFFICES ASSUME NEW w \in Serves PROVE Budget(w)'
  BY DEF Budgets
<1>1. Budget(w) /\ dog[w] \in DogType /\ dog[v] \in DogType /\ dog \in [Serves -> DogType]
  BY DEF Types, Budgets
<1>2. ASSUME NEW d, Dog(v, d) PROVE dog'[v] = d /\ (w # v => dog'[w] = dog[w])
  BY <1>1, <1>2 DEF Dog
<1>3. /\ maxRestarts \in Nat /\ dog[w].restartCount \in Nat
      /\ Restarting(dog[w]).restartCount = dog[w].restartCount
      /\ Restarting(dog[w]).at \in {"exited", "backoff"}
      /\ Restarting(dog[w]).at = "backoff" => dog[w].restartCount < maxRestarts
  BY <1>1, DaemonsAssumption DEF DogType, Restarting
<1>4. UNCHANGED procs => Children(w)' = Children(w)
  BY DEF Children
<1>5. CASE w # v
  <2>1. dog'[w] = dog[w]
    BY <1>1, <1>5 DEF DogSteps, DogPolls, DogFindsHealthy, DogFindsUnhealthy, DogWaited, DogBackedOff,
                      DogSpawns, DogWritesPid, DogReadsInfo, DogWritesInfo, Dog
  <2>2. \/ UNCHANGED procs \/ procs' = Killed(dog[v].pid) \/ procs' = Spawned(v)
    BY DEF DogSteps, DogPolls, DogFindsHealthy, DogFindsUnhealthy, DogWaited, DogBackedOff,
           DogSpawns, DogWritesPid, DogReadsInfo, DogWritesInfo
  <2>3. Children(w)' = Children(w)
    BY <1>4, <1>5, <2>2, DeathRemoves, ChildrenKept, ChildrenBorn DEF Parents
  <2> QED BY <1>1, <2>1, <2>3, BudgetKept
<1>6. CASE w = v /\ (DogPolls(w) \/ DogWaited(w))
  <2>1. /\ UNCHANGED procs /\ dog'[w].restartCount = dog[w].restartCount
        /\ dog'[w].at \in {"exited", "probing", "backoff"}
        /\ dog'[w].at = "backoff" => dog[w].restartCount < maxRestarts
    BY <1>6, DogMoves DEF DogPolls, DogWaited
  <2> QED BY <1>1, <1>4, <2>1, BudgetKept
<1>7. CASE w = v /\ (DogFindsHealthy(w) \/ DogFindsUnhealthy(w) \/ DogReadsInfo(w) \/ DogWritesInfo(w))
  <2>1. /\ dog'[w].restartCount = dog[w].restartCount
        /\ dog'[w].at \in {"sleeping", "killed", "rewriting"}
    BY <1>7, DogMoves
  <2>2. UNCHANGED procs \/ procs' = Killed(dog[w].pid)
    BY <1>7 DEF DogFindsHealthy, DogFindsUnhealthy, DogReadsInfo, DogWritesInfo
  <2>3. Children(w)' = Children(w)
    BY <1>4, <2>2, DeathRemoves, ChildrenKept
  <2> QED BY <1>1, <2>1, <2>3, BudgetKept
<1>8. CASE w = v /\ DogBackedOff(w)
  <2>1. UNCHANGED procs /\ dog[w].at = "backoff"
    BY <1>8 DEF DogBackedOff
  <2>2. CASE dog'[w] = NotRestarted(dog[w])
    BY <1>1, <1>4, <2>1, <2>2, BudgetOfCounted
  <2>3. CASE dog'[w].restartCount = dog[w].restartCount /\ dog'[w].at \in {"exited", "spawning"}
    BY <1>1, <1>4, <2>1, <2>3, BudgetKept
  <2>4. \/ dog'[w] = NotRestarted(dog[w])
        \/ dog'[w].restartCount = dog[w].restartCount /\ dog'[w].at \in {"exited", "spawning"}
    <3>1. dog'[w] = NotRestarted(dog[w]) \/ dog[w].stopping \/ daemonDir
      BY <1>2, <1>8 DEF DogBackedOff
    <3>2. dog[w].stopping => dog'[w] = [dog[w] EXCEPT !.at = "exited"]
      BY <1>2, <1>8 DEF DogBackedOff
    <3>3. dog[w].stopping => dog'[w].restartCount = dog[w].restartCount /\ dog'[w].at = "exited"
      BY <1>1, <3>2 DEF DogType
    <3>4. /\ dog'[w].restartCount = dog[w].restartCount \/ ~daemonDir
          /\ dog'[w].at \in {"exited", "spawning"} \/ ~daemonDir
      BY <1>8, DogMoves
    <3> QED BY <3>1, <3>3, <3>4
  <2> QED BY <1>8, <2>2, <2>3, <2>4
<1>9. CASE w = v /\ DogWritesPid(w)
  <2>1. UNCHANGED procs /\ dog[w].at = "recording"
    BY <1>9 DEF DogWritesPid
  <2>2. CASE dog'[w] = NotRestarted(dog[w])
    BY <1>1, <1>4, <2>1, <2>2, BudgetOfCounted
  <2>3. CASE dog'[w].restartCount = dog[w].restartCount /\ dog'[w].at = "reading"
    BY <1>1, <1>4, <2>1, <2>3, BudgetKept
  <2>4. \/ dog'[w] = NotRestarted(dog[w])
        \/ dog'[w].restartCount = dog[w].restartCount /\ dog'[w].at = "reading"
    <3>1. ~daemonDir => dog'[w] = NotRestarted(dog[w])
      BY <1>2, <1>9 DEF DogWritesPid
    <3> QED BY <1>9, <3>1, DogMoves
  <2> QED BY <1>9, <2>2, <2>3, <2>4
<1>10. CASE w = v /\ DogSpawns(w)
  <2>1. dog[w].at = "spawning" /\ dog[w].restartCount < maxRestarts
    BY <1>1, <1>10 DEF DogSpawns, Budget
  <2>2. CASE UNCHANGED procs /\ dog'[w] = NotRestarted(dog[w])
    BY <1>1, <1>4, <2>1, <2>2, BudgetOfCounted
  <2>3. CASE procs' = Spawned(w) /\ dog'[w].restartCount = dog[w].restartCount + 1 /\ dog'[w].at = "recording"
    <3>1. Children(w)' = Children(w) \cup {NewPid} /\ NewPid \notin Children(w)
      BY <1>1, <2>3, ChildrenBorn DEF Parents
    <3>2. IsFiniteSet(Children(w)) /\ Cardinality(Children(w)) \in Nat
      BY <1>1, FS_CardinalityType DEF Budget
    <3>3. IsFiniteSet(Children(w)') /\ Cardinality(Children(w)') = Cardinality(Children(w)) + 1
      BY <3>1, <3>2, FS_AddElement
    <3>4. Cardinality(Children(w)) <= dog[w].restartCount
      BY <1>1 DEF Budget
    <3>5. /\ Cardinality(Children(w)') <= dog'[w].restartCount /\ dog'[w].restartCount <= maxRestarts
          /\ Cardinality(Children(w)') <= maxRestarts /\ dog'[w].restartCount <= maxRestarts + 1
      BY <1>3, <2>1, <2>3, <3>2, <3>3, <3>4
    <3> QED BY <2>3, <3>3, <3>5 DEF Budget
  <2>4. \/ UNCHANGED procs /\ dog'[w] = NotRestarted(dog[w])
        \/ procs' = Spawned(w) /\ dog'[w].restartCount = dog[w].restartCount + 1 /\ dog'[w].at = "recording"
    <3>1. CASE Dog(w, NotRestarted(dog[w])) /\ UNCHANGED procs
      BY <1>2, <1>10, <3>1
    <3>2. CASE procs' = Spawned(w)
      <4>1. procs' # procs
        BY <1>1, <3>2, BirthAdds, AliveIsKnown DEF Parents
      <4> QED BY <1>10, <3>2, <4>1, DogMoves
    <3> QED BY <1>10, <3>1, <3>2 DEF DogSpawns
  <2> QED BY <1>10, <2>2, <2>3, <2>4
<1> QED BY <1>5, <1>6, <1>7, <1>8, <1>9, <1>10 DEF DogSteps

(* No other step touches a watchdog's restarts.                            *)
LEMMA OtherStepsKeepBudgets ==
    ASSUME Types, Budgets, DaemonsNext, \A v \in Serves : ~DogSteps(v)
    PROVE  Budgets'
<1> SUFFICES ASSUME NEW w \in Serves PROVE Budget(w)'
  BY DEF Budgets
<1>1. Budget(w) /\ dog[w] \in DogType /\ dog \in [Serves -> DogType]
  BY DEF Types, Budgets
<1>2. ASSUME \/ UNCHANGED procs \/ (\E pid : procs' = Killed(pid)) \/ procs' = Spawned(NoDog)
             \/ \E pid : isDaemonAlive(pid) /\ procs' = Ending(pid)
      PROVE  Children(w)' = Children(w)
  <2>1. w # NoDog /\ NoDog \in Parents
    BY DaemonsAssumption DEF Parents
  <2> QED BY <1>2, <2>1, DeathRemoves, EndingKeeps, ChildrenKept, ChildrenBorn DEF Children
<1>3. ASSUME dog'[w] = dog[w] \/ dog'[w] = [dog[w] EXCEPT !.at = "sleeping"]
             \/ \E info : dog' = SignalledDog(info)
      PROVE  /\ dog'[w].restartCount = dog[w].restartCount
             /\ dog'[w].at = dog[w].at \/ dog'[w].at = "sleeping"
  BY <1>1, <1>3 DEF SignalledDog, DogType
<1>4. ASSUME \/ UNCHANGED procs \/ (\E pid : procs' = Killed(pid)) \/ procs' = Spawned(NoDog)
             \/ \E pid : isDaemonAlive(pid) /\ procs' = Ending(pid),
             dog'[w] = dog[w] \/ dog'[w] = [dog[w] EXCEPT !.at = "sleeping"]
             \/ \E info : dog' = SignalledDog(info)
      PROVE  Budget(w)'
  BY <1>1, <1>2, <1>3, <1>4, BudgetKept
<1>5. CASE \E s \in Serves : \/ ServeChecks(s) \/ ServeSpawns(s) \/ ServeWritesInfo(s)
                            \/ ServeWritesPid(s) \/ ServeStarted(s) \/ ServeFoundCrash(s)
  <2>1. UNCHANGED procs \/ procs' = Spawned(NoDog)
    BY <1>5 DEF ServeChecks, ServeSpawns, ServeWritesInfo, ServeWritesPid, ServeStarted, ServeFoundCrash
  <2>2. dog'[w] = dog[w] \/ dog'[w] = [dog[w] EXCEPT !.at = "sleeping"]
    BY <1>1, <1>5 DEF ServeChecks, ServeSpawns, ServeWritesInfo, ServeWritesPid, ServeStarted, ServeFoundCrash
  <2> QED BY <1>4, <2>1, <2>2
<1>6. CASE \E c \in Stops : StopResolves(c) \/ StopSeesExit(c) \/ StopCleansUp(c)
  <2>1. UNCHANGED <<procs, dog>>
    BY <1>6 DEF StopResolves, StopSeesExit, StopCleansUp
  <2> QED BY <1>4, <2>1
<1>7. CASE \E c \in Stops : StopEscalates(c)
  <2>1. UNCHANGED dog /\ \E pid : procs' = Killed(pid)
    BY <1>7 DEF StopEscalates
  <2> QED BY <1>4, <2>1
<1>8. CASE \E c \in Stops : StopSignals(c)
  <2>1. PICK c \in Stops : StopSignals(c)
    BY <1>8
  <2>2. dog' = SignalledDog(stop[c].info)
    BY <2>1 DEF StopSignals
  <2>3. \/ UNCHANGED procs \/ procs' = Killed(stop[c].info.pid)
        \/ isDaemonAlive(stop[c].info.pid) /\ procs' = Ending(stop[c].info.pid)
    BY <2>1 DEF StopSignals
  <2> QED BY <1>4, <2>2, <2>3
<1>9. CASE \E c \in Stops : DashboardStops(c)
  <2>1. \/ UNCHANGED <<procs, dog>>
        \/ /\ dog' = SignalledDog(daemonJson)
           /\ isDaemonAlive(daemonJson.pid) /\ procs' = Ending(daemonJson.pid)
    BY <1>9 DEF DashboardStops
  <2> QED BY <1>4, <2>1
<1>10. CASE cleanStaleDaemons \/ AgentExits
  <2>1. UNCHANGED dog /\ (UNCHANGED procs \/ \E pid : procs' = Killed(pid))
    BY <1>10 DEF cleanStaleDaemons, AgentExits
  <2> QED BY <1>4, <2>1
<1> QED BY <1>5, <1>6, <1>7, <1>8, <1>9, <1>10 DEF DaemonsNext

LEMMA BudgetsKept == ASSUME Types, Budgets, [DaemonsNext]_daemonVars PROVE Budgets'
<1>1. CASE UNCHANGED daemonVars
  BY <1>1 DEF daemonVars, Budgets, Budget, Children
<1> QED BY <1>1, DogStepsKeepBudgets, OtherStepsKeepBudgets

LEMMA BudgetsHoldInitially == ASSUME DaemonsInit PROVE Budgets
<1> SUFFICES ASSUME NEW w \in Serves PROVE Budget(w)
  BY DEF Budgets
<1>1. Children(w) = {} /\ dog[w].restartCount = 0 /\ dog[w].at = "none"
  BY DEF DaemonsInit, Children
<1>2. IsFiniteSet({}) /\ Cardinality({}) = 0
  BY FS_EmptySet
<1> QED BY <1>1, <1>2, DaemonsAssumption DEF Budget

-----------------------------------------------------------------------------
(* The sessions: what holds while every serve saw what ran before it.      *)
Quiet == \A s \in Serves : ~serve[s].blind
Busy(s) == serve[s].at \notin {"idle", "done"}

(* The agent is the youngest process, and whoever may start another knows  *)
(* that there is none, or knows of the one there is.                       *)
Undisturbed ==
    /\ Alive \subseteq {Len(procs)}
    /\ \A s, t \in Serves : Busy(s) /\ Busy(t) => s = t
    /\ \A v, w \in Serves : DogAlive(v) /\ DogAlive(w) => v = w
    /\ \A s, w \in Serves : ~(Busy(s) /\ DogAlive(w))

ServeKnows(s) ==
    /\ serve[s].at = "spawning" => Alive = {}
    /\ serve[s].at \in {"writing", "recording"} => Alive \subseteq {serve[s].pid}
    /\ serve[s].at = "polling" => ~daemonDir \/ Alive \subseteq {daemonPid}

DogKnows(w) ==
    /\ dog[w].at \in {"sleeping", "probing", "reading", "rewriting"} => ~daemonDir \/ Alive \subseteq {daemonPid}
    /\ dog[w].at = "probing" => ~daemonDir \/ Alive \subseteq {dog[w].pid}
    /\ dog[w].at \in {"killed", "backoff"} => ~daemonDir \/ Alive = {}
    /\ dog[w].at = "spawning" => Alive = {}
    /\ dog[w].at = "recording" => Alive \subseteq {dog[w].pid}

Sessions ==
    /\ \A s \in Serves : serve[s].at = "idle" => ~serve[s].blind
    /\ Quiet => /\ Undisturbed
                /\ \A s \in Serves : ServeKnows(s)
                /\ \A w \in Serves : DogKnows(w)

-----------------------------------------------------------------------------
(* The stops: a watchdog that a file or a command names was once started,  *)
(* and one that was told to stop will start nothing.                       *)
Started(w) == w \in Serves => dog[w].at # "none"
Done(w) == w \in Serves => dog[w].at = "exited" \/ (dog[w].stopping /\ dog[w].at # "spawning")

Names ==
    /\ Started(daemonJson.watchdogPid)
    /\ \A w \in Serves : Started(dog[w].info.watchdogPid)
    /\ \A c \in Stops : Started(stop[c].info.watchdogPid)
    /\ \A w \in Serves : dog[w].at # "none" => serve[w].at = "done"

StopEnds(c) ==
    stop[c].signalled =>
        /\ stop[c].at \in {"waiting", "killed", "done"}
        /\ stop[c].info.pid \in DOMAIN procs
        /\ stop[c].mode # "dashboard" /\ stop[c].at # "waiting" => ~isDaemonAlive(stop[c].info.pid)
        /\ Quiet => /\ Done(stop[c].info.watchdogPid)
                    /\ \A pid \in DOMAIN procs : pid > stop[c].info.pid =>
                           \/ procs[pid].parent = NoDog
                           \/ procs[pid].parent # stop[c].info.watchdogPid

IInv == Types /\ Budgets /\ Sessions /\ Names /\ \A c \in Stops : StopEnds(c)

-----------------------------------------------------------------------------
(* What the steps of the commands do to them.                              *)
ServeSteps(s) ==
    \/ ServeChecks(s) \/ ServeSpawns(s) \/ ServeWritesInfo(s)
    \/ ServeWritesPid(s) \/ ServeStarted(s) \/ ServeFoundCrash(s)
StopSteps(c) ==
    \/ StopResolves(c) \/ StopSignals(c) \/ DashboardStops(c)
    \/ StopSeesExit(c) \/ StopEscalates(c) \/ StopCleansUp(c)

LEMMA ServeMoves ==
    ASSUME Types, NEW s \in Serves, ServeSteps(s)
    PROVE  /\ \A t \in Serves \ {s} : serve'[t] = serve[t]
           /\ ServeChecks(s) =>
                  \/ serve'[s].at = "done" /\ serve'[s].blind = serve[s].blind /\ UNCHANGED daemonDir
                  \/ serve'[s].at = "spawning" /\ serve'[s].blind = Unseen(s)
           /\ ~ServeChecks(s) => serve'[s].blind = serve[s].blind /\ serve'[s].at # "idle"
           /\ ServeSpawns(s) =>
                  \/ serve'[s].at = "writing" /\ serve'[s].pid = NewPid /\ procs' = Spawned(NoDog)
                  \/ serve'[s].at = "done" /\ UNCHANGED procs
           /\ ServeWritesInfo(s) => serve'[s].at = "recording" /\ serve'[s].pid = serve[s].pid
           /\ ServeWritesPid(s) =>
                  \/ serve'[s].at = "polling" /\ daemonPid' = serve[s].pid
                  \/ serve'[s].at = "done"
           /\ ServeStarted(s) \/ ServeFoundCrash(s) => serve'[s].at = "done"
<1>1. serve[s] \in ServeType /\ serve \in [Serves -> ServeType]
  BY DEF Types
<1>2. ASSUME NEW r, serve' = [serve EXCEPT ![s] = r]
      PROVE  serve'[s] = r /\ \A t \in Serves \ {s} : serve'[t] = serve[t]
  BY <1>1, <1>2
<1>3. ASSUME ServeChecks(s)
      PROVE  /\ \A t \in Serves \ {s} : serve'[t] = serve[t]
             /\ \/ serve'[s].at = "done" /\ serve'[s].blind = serve[s].blind /\ UNCHANGED daemonDir
                \/ serve'[s].at = "spawning" /\ serve'[s].blind = Unseen(s)
  <2>1. CASE isDaemonAlive(daemonJson.pid)
    <3>1. serve' = [serve EXCEPT ![s] = [serve[s] EXCEPT !.at = "done"]] /\ UNCHANGED daemonDir
      BY <1>3, <2>1 DEF ServeChecks
    <3>2. serve'[s] = [serve[s] EXCEPT !.at = "done"] /\ \A t \in Serves \ {s} : serve'[t] = serve[t]
      BY <1>2, <3>1
    <3> QED BY <1>1, <3>1, <3>2 DEF ServeType
  <2>2. CASE ~isDaemonAlive(daemonJson.pid)
    <3>1. serve' = [serve EXCEPT ![s] = [serve[s] EXCEPT !.at = "spawning", !.blind = Unseen(s)]]
      BY <1>3, <2>2 DEF ServeChecks
    <3>2. serve'[s] = [serve[s] EXCEPT !.at = "spawning", !.blind = Unseen(s)]
          /\ \A t \in Serves \ {s} : serve'[t] = serve[t]
      BY <1>2, <3>1
    <3> QED BY <1>1, <3>2 DEF ServeType
  <2> QED BY <2>1, <2>2
<1>4. ASSUME ServeSpawns(s)
      PROVE  /\ \A t \in Serves \ {s} : serve'[t] = serve[t]
             /\ serve'[s].blind = serve[s].blind /\ serve'[s].at # "idle" /\ serve[s].at # "idle"
             /\ \/ serve'[s].at = "writing" /\ serve'[s].pid = NewPid /\ procs' = Spawned(NoDog)
                \/ serve'[s].at = "done" /\ UNCHANGED procs
  <2>1. \/ /\ procs' = Spawned(NoDog)
           /\ serve' = [serve EXCEPT ![s] = [serve[s] EXCEPT !.at = "writing", !.pid = NewPid]]
        \/ /\ UNCHANGED procs
           /\ serve' = [serve EXCEPT ![s] = [serve[s] EXCEPT !.at = "done"]]
    BY <1>4 DEF ServeSpawns
  <2>2. /\ \A t \in Serves \ {s} : serve'[t] = serve[t]
        /\ \/ procs' = Spawned(NoDog) /\ serve'[s] = [serve[s] EXCEPT !.at = "writing", !.pid = NewPid]
           \/ UNCHANGED procs /\ serve'[s] = [serve[s] EXCEPT !.at = "done"]
    BY <1>2, <2>1
  <2>3. serve[s].at = "spawning"
    BY <1>4 DEF ServeSpawns
  <2> QED BY <1>1, <2>2, <2>3 DEF ServeType
<1>5. ASSUME ServeWritesInfo(s)
      PROVE  /\ \A t \in Serves \ {s} : serve'[t] = serve[t]
             /\ serve'[s].blind = serve[s].blind /\ serve[s].at # "idle"
             /\ serve'[s].at = "recording" /\ serve'[s].pid = serve[s].pid
  <2>1. serve' = [serve EXCEPT ![s] = [serve[s] EXCEPT !.at = "recording"]] /\ serve[s].at = "writing"
    BY <1>5 DEF ServeWritesInfo
  <2>2. serve'[s] = [serve[s] EXCEPT !.at = "recording"] /\ \A t \in Serves \ {s} : serve'[t] = serve[t]
    BY <1>2, <2>1
  <2> QED BY <1>1, <2>1, <2>2 DEF ServeType
<1>6. ASSUME ServeWritesPid(s)
      PROVE  /\ \A t \in Serves \ {s} : serve'[t] = serve[t]
             /\ serve'[s].blind = serve[s].blind /\ serve'[s].at # "idle" /\ serve[s].at # "idle"
             /\ \/ serve'[s].at = "polling" /\ daemonPid' = serve[s].pid
                \/ serve'[s].at = "done"
  <2>1. /\ \/ serve' = [serve EXCEPT ![s] = [serve[s] EXCEPT !.at = "polling"]] /\ daemonPid' = serve[s].pid
           \/ serve' = [serve EXCEPT ![s] = [serve[s] EXCEPT !.at = "done"]]
        /\ serve[s].at = "recording"
    BY <1>6 DEF ServeWritesPid
  <2>2. /\ \A t \in Serves \ {s} : serve'[t] = serve[t]
        /\ \/ serve'[s] = [serve[s] EXCEPT !.at = "polling"] /\ daemonPid' = serve[s].pid
           \/ serve'[s] = [serve[s] EXCEPT !.at = "done"]
    BY <1>2, <2>1
  <2> QED BY <1>1, <2>1, <2>2 DEF ServeType
<1>7. ASSUME ServeStarted(s) \/ ServeFoundCrash(s)
      PROVE  /\ \A t \in Serves \ {s} : serve'[t] = serve[t]
             /\ serve'[s].blind = serve[s].blind /\ serve'[s].at = "done" /\ serve[s].at # "idle"
  <2>1. serve' = [serve EXCEPT ![s] = [serve[s] EXCEPT !.at = "done"]] /\ serve[s].at = "polling"
    BY <1>7 DEF ServeStarted, ServeFoundCrash
  <2>2. serve'[s] = [serve[s] EXCEPT !.at = "done"] /\ \A t \in Serves \ {s} : serve'[t] = serve[t]
    BY <1>2, <2>1
  <2> QED BY <1>1, <2>1, <2>2 DEF ServeType
<1> QED BY <1>3, <1>4, <1>5, <1>6, <1>7 DEF ServeSteps

(* The watchdog that a serve starts; the others it leaves alone.           *)
LEMMA ServeStarts ==
    ASSUME Types, NEW s \in Serves, ServeStarted(s)
    PROVE  /\ \A u \in Serves \ {s} : dog'[u] = dog[u]
           /\ dog'[s].at \in {dog[s].at, "sleeping"}
           /\ dog'[s].info = dog[s].info /\ dog'[s].stopping = dog[s].stopping
           /\ daemonJson' = daemonJson \/ (daemonJson'.watchdogPid = s /\ dog'[s].at = "sleeping")
<1>1. dog[s] \in DogType /\ dog \in [Serves -> DogType] /\ daemonJson \in InfoType
  BY DEF Types
<1>2. CASE UNCHANGED <<dog, daemonJson>>
  BY <1>2
<1>3. CASE /\ dog' = [dog EXCEPT ![s].at = "sleeping"]
           /\ daemonJson' = IF daemonJson = NoInfo THEN NoInfo ELSE [daemonJson EXCEPT !.watchdogPid = s]
  <2>1. dog' = [dog EXCEPT ![s] = [dog[s] EXCEPT !.at = "sleeping"]]
    BY <1>3
  <2>2. dog'[s] = [dog[s] EXCEPT !.at = "sleeping"] /\ \A u \in Serves \ {s} : dog'[u] = dog[u]
    BY <1>1, <2>1
  <2>3. dog'[s].at = "sleeping" /\ dog'[s].info = dog[s].info /\ dog'[s].stopping = dog[s].stopping
    BY <1>1, <2>2 DEF DogType
  <2>4. daemonJson' = daemonJson \/ daemonJson'.watchdogPid = s
    BY <1>1, <1>3 DEF InfoType
  <2> QED BY <2>2, <2>3, <2>4
<1> QED BY <1>2, <1>3 DEF ServeStarted

(* The processes and the watchdogs, as a step of no serve and no watchdog  *)
(* leaves them.                                                            *)
Quieter ==
    /\ UNCHANGED serve
    /\ DOMAIN procs' = DOMAIN procs /\ Len(procs') = Len(procs) /\ Alive' \subseteq Alive
    /\ \A q \in DOMAIN procs : procs'[q].parent = procs[q].parent
    /\ \A w \in Serves : /\ dog'[w].at = dog[w].at /\ dog'[w].pid = dog[w].pid
                         /\ dog'[w].info = dog[w].info
                         /\ dog[w].stopping => dog'[w].stopping
    /\ UNCHANGED files \/ (daemonDir' = FALSE /\ daemonJson' = NoInfo)

LEMMA SignalTouches ==
    ASSUME Types, NEW info, dog' = SignalledDog(info), NEW w \in Serves
    PROVE  /\ dog'[w].at = dog[w].at /\ dog'[w].pid = dog[w].pid /\ dog'[w].info = dog[w].info
           /\ dog[w].stopping => dog'[w].stopping
           /\ w = info.watchdogPid /\ DogAlive(w) => dog'[w].stopping
<1>1. dog[w] \in DogType
  BY DEF Types
<1>2. dog'[w] = [dog[w] EXCEPT !.stopping = dog[w].stopping \/ (w = info.watchdogPid /\ DogAlive(w))]
  BY DEF SignalledDog
<1> DEFINE told == dog[w].stopping \/ (w = info.watchdogPid /\ DogAlive(w))
<1>3. dog'[w] = [dog[w] EXCEPT !.stopping = told]
  BY <1>2
<1> HIDE DEF told
<1>4. dog'[w].at = dog[w].at /\ dog'[w].pid = dog[w].pid /\ dog'[w].info = dog[w].info /\ dog'[w].stopping = told
  BY <1>1, <1>3 DEF DogType
<1> QED BY <1>4 DEF told

LEMMA StopMoves ==
    ASSUME Types, NEW c \in Stops, StopSteps(c)
    PROVE  /\ \A k \in Stops \ {c} : stop'[k] = stop[k]
           /\ UNCHANGED serve
           /\ UNCHANGED files \/ (daemonDir' = FALSE /\ daemonJson' = NoInfo)
           /\ StopResolves(c) =>
                  /\ UNCHANGED <<procs, dog>> /\ stop[c].at = "idle"
                  /\ stop'[c].signalled = stop[c].signalled
                  /\ stop'[c].info \in {stop[c].info, daemonJson}
           /\ StopSignals(c) =>
                  /\ stop[c].at = "resolved" /\ stop'[c].info = stop[c].info
                  /\ dog' = SignalledDog(stop[c].info)
                  /\ \/ /\ UNCHANGED procs
                        /\ stop'[c].signalled = stop[c].signalled
                     \/ /\ isDaemonAlive(stop[c].info.pid)
                        /\ \/ procs' = Killed(stop[c].info.pid) /\ stop'[c].at = "done"
                           \/ procs' = Ending(stop[c].info.pid) /\ stop'[c].at = "waiting"
           /\ DashboardStops(c) =>
                  /\ stop[c].at = "idle"
                  /\ \/ /\ UNCHANGED <<procs, dog>> /\ stop'[c].info = stop[c].info
                        /\ stop'[c].signalled = stop[c].signalled
                     \/ /\ isDaemonAlive(daemonJson.pid) /\ stop'[c].at = "done"
                        /\ stop'[c].mode = "dashboard" /\ stop'[c].info = daemonJson
                        /\ dog' = SignalledDog(daemonJson) /\ procs' = Ending(daemonJson.pid)
           /\ StopSeesExit(c) \/ StopEscalates(c) \/ StopCleansUp(c) =>
                  /\ stop'[c].info = stop[c].info /\ stop'[c].signalled = stop[c].signalled
                  /\ stop'[c].mode = stop[c].mode /\ stop'[c].at \in {"killed", "done"}
                  /\ UNCHANGED dog
                  /\ \/ UNCHANGED procs /\ (~isDaemonAlive(stop[c].info.pid) \/ stop[c].at = "killed")
                     \/ procs' = Killed(stop[c].info.pid)
<1>1. stop[c] \in StopType /\ stop \in [Stops -> StopType]
  BY DEF Types
<1>2. ASSUME NEW r, stop' = [stop EXCEPT ![c] = r]
      PROVE  stop'[c] = r /\ \A k \in Stops \ {c} : stop'[k] = stop[k]
  BY <1>1, <1>2
<1>3. UNCHANGED files \/ (daemonDir' = FALSE /\ daemonJson' = NoInfo)
  BY DEF StopSteps, StopResolves, StopSignals, DashboardStops, StopSeesExit, StopEscalates, StopCleansUp,
         removeDaemonInfo
<1>4. UNCHANGED serve
  BY DEF StopSteps, StopResolves, StopSignals, DashboardStops, StopSeesExit, StopEscalates, StopCleansUp
<1>5. ASSUME StopResolves(c)
      PROVE  /\ \A k \in Stops \ {c} : stop'[k] = stop[k]
             /\ UNCHANGED <<procs, dog>> /\ stop[c].at = "idle"
             /\ stop'[c].signalled = stop[c].signalled
             /\ stop'[c].info \in {stop[c].info, daemonJson}
  <2>1. \/ \E mode \in {"graceful", "force"} :
               stop' = [stop EXCEPT ![c] = [stop[c] EXCEPT !.at = "resolved", !.mode = mode, !.info = daemonJson]]
        \/ stop' = [stop EXCEPT ![c] = [stop[c] EXCEPT !.at = "done"]]
    BY <1>5 DEF StopResolves
  <2>2. /\ \A k \in Stops \ {c} : stop'[k] = stop[k]
        /\ \/ \E mode \in {"graceful", "force"} :
                  stop'[c] = [stop[c] EXCEPT !.at = "resolved", !.mode = mode, !.info = daemonJson]
           \/ stop'[c] = [stop[c] EXCEPT !.at = "done"]
    BY <1>2, <2>1
  <2>3. stop'[c].signalled = stop[c].signalled /\ stop'[c].info \in {stop[c].info, daemonJson}
    BY <1>1, <2>2 DEF StopType
  <2>4. UNCHANGED <<procs, dog>> /\ stop[c].at = "idle"
    BY <1>5 DEF StopResolves
  <2> QED BY <2>2, <2>3, <2>4
<1>6. ASSUME StopSignals(c)
      PROVE  /\ \A k \in Stops \ {c} : stop'[k] = stop[k]
             /\ stop[c].at = "resolved" /\ stop'[c].info = stop[c].info
             /\ dog' = SignalledDog(stop[c].info)
             /\ \/ UNCHANGED procs /\ stop'[c].signalled = stop[c].signalled
                \/ /\ isDaemonAlive(stop[c].info.pid)
                   /\ \/ procs' = Killed(stop[c].info.pid) /\ stop'[c].at = "done"
                      \/ procs' = Ending(stop[c].info.pid) /\ stop'[c].at = "waiting"
  <2>1. stop[c].at = "resolved" /\ dog' = SignalledDog(stop[c].info)
    BY <1>6 DEF StopSignals
  <2>2. \/ UNCHANGED procs /\ stop' = [stop EXCEPT ![c] = [stop[c] EXCEPT !.at = "done"]]
        \/ /\ isDaemonAlive(stop[c].info.pid)
           /\ \/ /\ procs' = Killed(stop[c].info.pid)
                 /\ stop' = [stop EXCEPT ![c] = [stop[c] EXCEPT !.at = "done", !.signalled = TRUE]]
              \/ /\ procs' = Ending(stop[c].info.pid)
                 /\ stop' = [stop EXCEPT ![c] = [stop[c] EXCEPT !.at = "waiting", !.signalled = TRUE]]
    <3>1. CASE ~isDaemonAlive(stop[c].info.pid)
      BY <1>6, <3>1 DEF StopSignals
    <3>2. CASE isDaemonAlive(stop[c].info.pid) /\ stop[c].mode = "force"
      BY <1>1, <1>6, <3>2 DEF StopSignals
    <3>3. CASE isDaemonAlive(stop[c].info.pid) /\ stop[c].mode = "graceful"
      BY <1>1, <1>6, <3>3 DEF StopSignals
    <3> QED BY <1>6, <3>1, <3>2, <3>3 DEF StopSignals
  <2>3. /\ \A k \in Stops \ {c} : stop'[k] = stop[k]
        /\ \/ UNCHANGED procs /\ stop'[c] = [stop[c] EXCEPT !.at = "done"]
           \/ /\ isDaemonAlive(stop[c].info.pid)
              /\ \/ procs' = Killed(stop[c].info.pid) /\ stop'[c] = [stop[c] EXCEPT !.at = "done", !.signalled = TRUE]
                 \/ procs' = Ending(stop[c].info.pid) /\ stop'[c] = [stop[c] EXCEPT !.at = "waiting", !.signalled = TRUE]
    BY <1>2, <2>2
  <2> QED BY <1>1, <2>1, <2>3 DEF StopType
<1>7. ASSUME DashboardStops(c)
      PROVE  /\ \A k \in Stops \ {c} : stop'[k] = stop[k]
             /\ stop[c].at = "idle"
             /\ \/ /\ UNCHANGED <<procs, dog>> /\ stop'[c].info = stop[c].info
                   /\ stop'[c].signalled = stop[c].signalled
                \/ /\ isDaemonAlive(daemonJson.pid) /\ stop'[c].at = "done"
                   /\ stop'[c].mode = "dashboard" /\ stop'[c].info = daemonJson
                   /\ dog' = SignalledDog(daemonJson) /\ procs' = Ending(daemonJson.pid)
  <2> DEFINE ended == [at |-> "done", mode |-> "dashboard", info |-> daemonJson, signalled |-> TRUE]
  <2>1. /\ stop[c].at = "idle"
        /\ \/ UNCHANGED <<procs, dog>> /\ stop' = [stop EXCEPT ![c] = [stop[c] EXCEPT !.at = "done"]]
           \/ /\ isDaemonAlive(daemonJson.pid) /\ dog' = SignalledDog(daemonJson)
              /\ procs' = Ending(daemonJson.pid) /\ stop' = [stop EXCEPT ![c] = ended]
    BY <1>7 DEF DashboardStops
  <2>2. /\ \A k \in Stops \ {c} : stop'[k] = stop[k]
        /\ \/ UNCHANGED <<procs, dog>> /\ stop'[c] = [stop[c] EXCEPT !.at = "done"]
           \/ /\ isDaemonAlive(daemonJson.pid) /\ dog' = SignalledDog(daemonJson)
              /\ procs' = Ending(daemonJson.pid) /\ stop'[c] = ended
    BY <1>2, <2>1
  <2> QED BY <1>1, <2>1, <2>2 DEF StopType
<1>8. ASSUME StopSeesExit(c) \/ StopEscalates(c) \/ StopCleansUp(c)
      PROVE  /\ \A k \in Stops \ {c} : stop'[k] = stop[k]
             /\ stop'[c].info = stop[c].info /\ stop'[c].signalled = stop[c].signalled
             /\ stop'[c].mode = stop[c].mode /\ stop'[c].at \in {"killed", "done"}
             /\ UNCHANGED dog
             /\ \/ UNCHANGED procs /\ (~isDaemonAlive(stop[c].info.pid) \/ stop[c].at = "killed")
                \/ procs' = Killed(stop[c].info.pid)
  <2>1. \E at \in {"killed", "done"} : stop' = [stop EXCEPT ![c] = [stop[c] EXCEPT !.at = at]]
    BY <1>8 DEF StopSeesExit, StopEscalates, StopCleansUp
  <2>2. /\ \A k \in Stops \ {c} : stop'[k] = stop[k]
        /\ \E at \in {"killed", "done"} : stop'[c] = [stop[c] EXCEPT !.at = at]
    BY <1>2, <2>1
  <2>3. /\ UNCHANGED dog
        /\ \/ UNCHANGED procs /\ (~isDaemonAlive(stop[c].info.pid) \/ stop[c].at = "killed")
           \/ procs' = Killed(stop[c].info.pid)
    BY <1>8 DEF StopSeesExit, StopEscalates, StopCleansUp
  <2> QED BY <1>1, <2>2, <2>3 DEF StopType
<1> QED BY <1>3, <1>4, <1>5, <1>6, <1>7, <1>8 DEF StopSteps

LEMMA OthersAreQuieter ==
    ASSUME Types, (\E c \in Stops : StopSteps(c)) \/ cleanStaleDaemons \/ AgentExits
    PROVE  Quieter
<1>1. ASSUME UNCHANGED procs \/ (\E pid : procs' = Killed(pid))
             \/ (\E pid : isDaemonAlive(pid) /\ procs' = Ending(pid))
      PROVE  /\ DOMAIN procs' = DOMAIN procs /\ Len(procs') = Len(procs) /\ Alive' \subseteq Alive
             /\ \A q \in DOMAIN procs : procs'[q].parent = procs[q].parent
  <2>1. CASE UNCHANGED procs
    BY <2>1 DEF Alive, isDaemonAlive
  <2> QED BY <1>1, <2>1, DeathRemoves, EndingKeeps
<1>2. ASSUME UNCHANGED dog \/ \E info : dog' = SignalledDog(info)
      PROVE  \A w \in Serves : /\ dog'[w].at = dog[w].at /\ dog'[w].pid = dog[w].pid
                               /\ dog'[w].info = dog[w].info
                               /\ dog[w].stopping => dog'[w].stopping
  BY <1>2, SignalTouches
<1>3. ASSUME NEW c \in Stops, StopSteps(c)
      PROVE  /\ UNCHANGED serve /\ (UNCHANGED files \/ (daemonDir' = FALSE /\ daemonJson' = NoInfo))
             /\ UNCHANGED procs \/ (\E pid : procs' = Killed(pid))
                \/ (\E pid : isDaemonAlive(pid) /\ procs' = Ending(pid))
             /\ UNCHANGED dog \/ \E info : dog' = SignalledDog(info)
  BY <1>3, StopMoves DEF StopSteps
<1>4. ASSUME cleanStaleDaemons \/ AgentExits
      PROVE  /\ UNCHANGED serve /\ (UNCHANGED files \/ (daemonDir' = FALSE /\ daemonJson' = NoInfo))
             /\ UNCHANGED procs \/ (\E pid : procs' = Killed(pid))
             /\ UNCHANGED dog
  BY <1>4 DEF cleanStaleDaemons, AgentExits, removeDaemonInfo
<1> QED BY <1>1, <1>2, <1>3, <1>4 DEF Quieter

-----------------------------------------------------------------------------
(* The sessions are kept.                                                  *)
LEMMA DogStepsKeepSessions ==
    ASSUME Types, Sessions, NEW w \in Serves, DogSteps(w)
    PROVE  Sessions'
<1>1. UNCHANGED serve /\ UNCHANGED daemonDir
  BY DEF DogSteps, DogPolls, DogFindsHealthy, DogFindsUnhealthy, DogWaited, DogBackedOff,
         DogSpawns, DogWritesPid, DogReadsInfo, DogWritesInfo, files
<1>2. (Quiet' => Quiet) /\ \A s \in Serves : serve'[s].at = "idle" => ~serve'[s].blind
  BY <1>1 DEF Quiet, Sessions
<1> SUFFICES ASSUME Quiet
             PROVE  Undisturbed' /\ (\A s \in Serves : ServeKnows(s)') /\ (\A u \in Serves : DogKnows(u)')
  BY <1>2 DEF Sessions
<1>3. Undisturbed /\ DogKnows(w)
  BY DEF Sessions
<1>4. DogAlive(w)
  BY DEF DogSteps, DogPolls, DogFindsHealthy, DogFindsUnhealthy, DogWaited, DogBackedOff,
         DogSpawns, DogWritesPid, DogReadsInfo, DogWritesInfo, DogAlive
<1>5. \A u \in Serves \ {w} : dog'[u] = dog[u] /\ ~DogAlive(u)
  BY <1>3, <1>4, DogMoves DEF Undisturbed
<1>6. \A s \in Serves : ~Busy(s)
  BY <1>3, <1>4 DEF Undisturbed
<1>7. \A s \in Serves : ServeKnows(s)'
  BY <1>1, <1>6 DEF Busy, ServeKnows
<1>8. \A u \in Serves \ {w} : DogKnows(u)'
  BY <1>5 DEF DogKnows, DogAlive
<1>9. Len(procs) \in Nat
  BY AliveIsKnown
<1>10. ASSUME \/ UNCHANGED procs \/ procs' = Killed(dog[w].pid)
              \/ procs' = Spawned(w) /\ dog[w].at = "spawning"
       PROVE  Undisturbed'
  <2>1. Alive' \subseteq {Len(procs')}
    <3>1. CASE UNCHANGED procs
      BY <1>3, <3>1 DEF Undisturbed, Alive, isDaemonAlive
    <3>2. CASE procs' = Killed(dog[w].pid)
      BY <1>3, <3>2, DeathRemoves DEF Undisturbed
    <3>3. CASE procs' = Spawned(w) /\ dog[w].at = "spawning"
      <4>1. Alive = {}
        BY <1>3, <3>3 DEF DogKnows
      <4>2. Alive' = Alive \cup {NewPid} /\ Len(procs') = Len(procs) + 1 /\ NewPid = Len(procs) + 1
        BY <3>3, BirthAdds DEF Parents
      <4> QED BY <4>1, <4>2
    <3> QED BY <1>10, <3>1, <3>2, <3>3
  <2>2. \A s \in Serves : ~Busy(s)'
    BY <1>1, <1>6 DEF Busy
  <2>3. \A u \in Serves : DogAlive(u)' => u = w
    BY <1>5 DEF DogAlive
  <2> QED BY <2>1, <2>2, <2>3 DEF Undisturbed
<1>11. \/ UNCHANGED procs \/ procs' = Killed(dog[w].pid)
       \/ procs' = Spawned(w) /\ dog[w].at = "spawning"
  BY DEF DogSteps, DogPolls, DogFindsHealthy, DogFindsUnhealthy, DogWaited, DogBackedOff,
         DogSpawns, DogWritesPid, DogReadsInfo, DogWritesInfo
<1>12. UNCHANGED procs => Alive' = Alive
  BY DEF Alive, isDaemonAlive
<1>13. DogKnows(w)'
  <2>1. CASE DogPolls(w)
    <3>1. UNCHANGED <<procs, daemonPid>> /\ (~daemonDir \/ Alive \subseteq {daemonPid})
      BY <1>3, <2>1 DEF DogPolls, DogKnows, files
    <3>2. isDaemonAlive(daemonPid) \/ daemonPid \notin Alive
      BY AliveIsKnown
    <3>3. \/ dog'[w].at = "exited"
          \/ dog'[w].at = "probing" /\ dog'[w].pid = daemonPid
          \/ dog'[w].at = "backoff" /\ (~daemonDir \/ Alive = {})
      BY <2>1, <3>1, <3>2, DogMoves
    <3> QED BY <1>1, <1>12, <3>1, <3>3 DEF DogKnows
  <2>2. CASE DogFindsHealthy(w) \/ DogReadsInfo(w)
    <3>1. UNCHANGED <<procs, daemonPid>> /\ (~daemonDir \/ Alive \subseteq {daemonPid})
      BY <1>3, <2>2 DEF DogFindsHealthy, DogReadsInfo, DogKnows, files
    <3>2. dog'[w].at \in {"sleeping", "rewriting"}
      BY <2>2, DogMoves
    <3> QED BY <1>1, <1>12, <3>1, <3>2 DEF DogKnows
  <2>3. CASE DogWritesInfo(w)
    <3>1. UNCHANGED <<procs, daemonPid>> /\ (~daemonDir \/ Alive \subseteq {daemonPid})
      BY <1>3, <2>3 DEF DogWritesInfo, DogKnows
    <3>2. dog'[w].at = "sleeping"
      BY <2>3, DogMoves
    <3> QED BY <1>1, <1>12, <3>1, <3>2 DEF DogKnows
  <2>4. CASE DogFindsUnhealthy(w)
    <3>1. /\ UNCHANGED daemonPid /\ (~daemonDir \/ Alive \subseteq {daemonPid})
          /\ (~daemonDir \/ Alive \subseteq {dog[w].pid})
      BY <1>3, <2>4 DEF DogFindsUnhealthy, DogKnows, files
    <3>2. CASE dog'[w].at = "sleeping" /\ UNCHANGED procs
      BY <1>1, <1>12, <3>1, <3>2 DEF DogKnows
    <3>3. CASE dog'[w].at = "killed" /\ procs' = Killed(dog[w].pid)
      <4>1. ~daemonDir \/ Alive' = {}
        BY <3>1, <3>3, DeathRemoves
      <4> QED BY <1>1, <3>3, <4>1 DEF DogKnows
    <3> QED BY <2>4, <3>2, <3>3, DogMoves
  <2>5. CASE DogWaited(w)
    <3>1. UNCHANGED procs /\ (~daemonDir \/ Alive = {})
      BY <1>3, <2>5 DEF DogWaited, DogKnows
    <3>2. dog'[w].at \in {"exited", "backoff"}
      BY <2>5, DogMoves
    <3> QED BY <1>1, <1>12, <3>1, <3>2 DEF DogKnows
  <2>6. CASE DogBackedOff(w)
    <3>1. UNCHANGED procs /\ (~daemonDir \/ Alive = {})
      BY <1>3, <2>6 DEF DogBackedOff, DogKnows
    <3>2. dog'[w].at = "exited" \/ (dog'[w].at = "spawning" /\ daemonDir) \/ (dog'[w].at = "sleeping" /\ ~daemonDir)
      BY <2>6, DogMoves
    <3> QED BY <1>1, <1>12, <3>1, <3>2 DEF DogKnows
  <2>7. CASE DogSpawns(w)
    <3>1. Alive = {} /\ UNCHANGED daemonPid
      BY <1>3, <2>7 DEF DogSpawns, DogKnows, files
    <3>2. CASE dog'[w].at = "recording" /\ dog'[w].pid = NewPid /\ procs' = Spawned(w)
      <4>1. Alive' = Alive \cup {NewPid}
        BY <3>2, BirthAdds DEF Parents
      <4> QED BY <3>1, <3>2, <4>1 DEF DogKnows
    <3>3. CASE dog'[w].at = "sleeping" /\ UNCHANGED procs
      BY <1>12, <3>1, <3>3 DEF DogKnows
    <3> QED BY <2>7, <3>2, <3>3, DogMoves
  <2>8. CASE DogWritesPid(w)
    <3>1. UNCHANGED procs /\ Alive \subseteq {dog[w].pid}
      BY <1>3, <2>8 DEF DogWritesPid, DogKnows
    <3>2. (dog'[w].at = "reading" /\ daemonPid' = dog[w].pid) \/ (dog'[w].at = "sleeping" /\ ~daemonDir)
      BY <2>8, DogMoves
    <3> QED BY <1>1, <1>12, <3>1, <3>2 DEF DogKnows
  <2> QED BY <2>1, <2>2, <2>3, <2>4, <2>5, <2>6, <2>7, <2>8 DEF DogSteps
<1> QED BY <1>7, <1>8, <1>10, <1>11, <1>13

LEMMA ServeStepsKeepSessions ==
    ASSUME Types, Sessions, NEW s \in Serves, ServeSteps(s)
    PROVE  Sessions'
<1>1. /\ \A t \in Serves \ {s} : serve'[t] = serve[t]
      /\ ~ServeChecks(s) => serve'[s].blind = serve[s].blind /\ serve'[s].at # "idle"
  BY ServeMoves
<1>2. ServeChecks(s) => serve[s].at = "idle" /\ serve'[s].at # "idle"
  BY ServeMoves DEF ServeChecks
<1>3. (Quiet' => Quiet) /\ \A t \in Serves : serve'[t].at = "idle" => ~serve'[t].blind
  <2>1. \A t \in Serves \ {s} : serve'[t].at = "idle" => ~serve'[t].blind
    BY <1>1 DEF Sessions
  <2>2. serve'[s].at # "idle"
    BY <1>1, <1>2
  <2>3. ServeChecks(s) => ~serve[s].blind
    BY <1>2 DEF Sessions
  <2> QED BY <1>1, <2>1, <2>2, <2>3 DEF Quiet
<1> SUFFICES ASSUME Quiet, Quiet'
             PROVE  Undisturbed' /\ (\A t \in Serves : ServeKnows(t)') /\ (\A u \in Serves : DogKnows(u)')
  BY <1>3 DEF Sessions
<1>4. /\ Undisturbed /\ ServeKnows(s)
      /\ (\A t \in Serves : ServeKnows(t)) /\ (\A u \in Serves : DogKnows(u))
  BY DEF Sessions
<1>5. UNCHANGED procs => Alive' = Alive
  BY DEF Alive, isDaemonAlive
<1>6. CASE ServeChecks(s) /\ serve'[s].at = "done" /\ UNCHANGED daemonDir
  <2>1. UNCHANGED <<procs, daemonPid, daemonDir, dog>>
    BY <1>6 DEF ServeChecks
  <2>2. \A t \in Serves : (Busy(t)' => Busy(t)) /\ ServeKnows(t)'
    BY <1>1, <1>4, <1>5, <1>6, <2>1 DEF Busy, ServeKnows
  <2>3. \A u \in Serves : (DogAlive(u)' <=> DogAlive(u)) /\ DogKnows(u)'
    BY <1>4, <1>5, <2>1 DEF DogAlive, DogKnows
  <2>4. Undisturbed'
    BY <1>4, <1>5, <2>1, <2>2, <2>3 DEF Undisturbed
  <2> QED BY <2>2, <2>3, <2>4
<1>7. CASE ServeChecks(s) /\ serve'[s].at = "spawning" /\ serve'[s].blind = Unseen(s)
  <2>1. UNCHANGED <<procs, dog>>
    BY <1>7 DEF ServeChecks
  <2>2. Alive = {} /\ (\A w \in Serves : ~DogAlive(w)) /\ \A t \in Serves \ {s} : ~Busy(t)
    BY <1>7 DEF Quiet, Unseen, Busy
  <2>3. (\A w \in Serves : ~DogAlive(w)' /\ DogKnows(w)') /\ Alive' = {}
    BY <1>5, <2>1, <2>2 DEF DogAlive, DogKnows
  <2>4. \A t \in Serves \ {s} : ~Busy(t)' /\ ServeKnows(t)'
    BY <1>1, <2>2 DEF Busy, ServeKnows
  <2>5. ServeKnows(s)'
    BY <1>7, <2>3 DEF ServeKnows
  <2>6. Undisturbed'
    BY <2>3, <2>4 DEF Undisturbed
  <2> QED BY <2>3, <2>4, <2>5, <2>6
<1>8. CASE ~ServeChecks(s)
  <2>1. Busy(s)
    BY <1>8 DEF ServeSteps, ServeSpawns, ServeWritesInfo, ServeWritesPid, ServeStarted, ServeFoundCrash, Busy
  <2>2. (\A w \in Serves : ~DogAlive(w)) /\ (\A t \in Serves \ {s} : ~Busy(t)) /\ Alive \subseteq {Len(procs)}
    BY <1>4, <2>1 DEF Undisturbed
  <2>3. \A t \in Serves \ {s} : ~Busy(t)' /\ ServeKnows(t)'
    BY <1>1, <2>2 DEF Busy, ServeKnows
  <2>4. CASE ~ServeStarted(s)
    <3>1. UNCHANGED dog
      BY <1>8, <2>4 DEF ServeSteps, ServeSpawns, ServeWritesInfo, ServeWritesPid, ServeFoundCrash
    <3>2. \A w \in Serves : ~DogAlive(w)' /\ DogKnows(w)'
      BY <2>2, <3>1 DEF DogAlive, DogKnows
    <3>3. CASE ServeSpawns(s) /\ procs' = Spawned(NoDog) /\ serve'[s].at = "writing" /\ serve'[s].pid = NewPid
      <4>1. Alive = {}
        BY <1>4, <3>3 DEF ServeSpawns, ServeKnows
      <4>2. Alive' = Alive \cup {NewPid} /\ Len(procs') = Len(procs) + 1 /\ NewPid = Len(procs) + 1
        BY <3>3, BirthAdds DEF Parents
      <4>3. Alive' \subseteq {Len(procs')} /\ ServeKnows(s)'
        BY <3>3, <4>1, <4>2 DEF ServeKnows
      <4> QED BY <2>3, <3>2, <4>3 DEF Undisturbed
    <3>4. CASE UNCHANGED procs
      <4>1. Alive' = Alive /\ Len(procs') = Len(procs)
        BY <1>5, <3>4
      <4>2. ServeKnows(s)'
        <5>1. CASE ServeSpawns(s)
          <6>1. Alive = {}
            BY <1>4, <5>1 DEF ServeSpawns, ServeKnows
          <6> QED BY <4>1, <6>1 DEF ServeKnows
        <5>2. CASE ServeWritesInfo(s)
          <6>1. Alive \subseteq {serve[s].pid} /\ serve'[s].at = "recording" /\ serve'[s].pid = serve[s].pid
            BY <1>4, <1>8, <5>2, ServeMoves DEF ServeWritesInfo, ServeKnows
          <6> QED BY <4>1, <6>1 DEF ServeKnows
        <5>3. CASE ServeWritesPid(s)
          <6>1. Alive \subseteq {serve[s].pid}
            BY <1>4, <5>3 DEF ServeWritesPid, ServeKnows
          <6>2. (serve'[s].at = "polling" /\ daemonPid' = serve[s].pid) \/ serve'[s].at = "done"
            BY <5>3, ServeMoves
          <6> QED BY <4>1, <6>1, <6>2 DEF ServeKnows
        <5>4. CASE ServeFoundCrash(s)
          <6>1. serve'[s].at = "done"
            BY <5>4, ServeMoves
          <6> QED BY <6>1 DEF ServeKnows
        <5> QED BY <1>8, <2>4, <5>1, <5>2, <5>3, <5>4 DEF ServeSteps
      <4> QED BY <2>2, <2>3, <3>2, <4>1, <4>2 DEF Undisturbed
    <3> QED BY <1>8, <2>4, <3>3, <3>4, ServeMoves DEF ServeSteps, ServeWritesInfo, ServeWritesPid, ServeFoundCrash
  <2>5. CASE ServeStarted(s)
    <3>1. serve'[s].at = "done"
      BY <2>5, ServeMoves
    <3>2. \A t \in Serves : ~Busy(t)' /\ ServeKnows(t)'
      BY <2>3, <3>1 DEF Busy, ServeKnows
    <3>3. UNCHANGED <<procs, daemonDir, daemonPid>> /\ (~daemonDir \/ Alive \subseteq {daemonPid})
      BY <1>4, <2>5 DEF ServeStarted, ServeKnows
    <3>4. (\A u \in Serves \ {s} : dog'[u] = dog[u]) /\ dog'[s].at \in {dog[s].at, "sleeping"}
      BY <2>5, ServeStarts
    <3>5. \A u \in Serves \ {s} : ~DogAlive(u)' /\ DogKnows(u)'
      BY <2>2, <3>4 DEF DogAlive, DogKnows
    <3>6. DogKnows(s)'
      BY <1>5, <2>2, <3>3, <3>4 DEF DogAlive, DogKnows
    <3>7. Undisturbed'
      BY <1>5, <2>2, <3>2, <3>3, <3>5 DEF Undisturbed
    <3> QED BY <3>2, <3>5, <3>6, <3>7
  <2> QED BY <2>4, <2>5
<1> QED BY <1>6, <1>7, <1>8, ServeMoves

LEMMA QuieterKeepsSessions == ASSUME Types, Sessions, Quieter PROVE Sessions'
<1>1. UNCHANGED serve /\ (Quiet' => Quiet) /\ \A s \in Serves : serve'[s].at = "idle" => ~serve'[s].blind
  BY DEF Quieter, Quiet, Sessions
<1> SUFFICES ASSUME Quiet
             PROVE  Undisturbed' /\ (\A s \in Serves : ServeKnows(s)') /\ (\A w \in Serves : DogKnows(w)')
  BY <1>1 DEF Sessions
<1>2. Undisturbed /\ (\A s \in Serves : ServeKnows(s)) /\ (\A w \in Serves : DogKnows(w))
  BY DEF Sessions
<1>3. /\ Len(procs') = Len(procs) /\ Alive' \subseteq Alive
      /\ ~daemonDir' \/ (daemonDir' = daemonDir /\ daemonPid' = daemonPid)
      /\ \A w \in Serves : dog'[w].at = dog[w].at /\ dog'[w].pid = dog[w].pid
  BY DEF Quieter, files
<1>4. \A s \in Serves : (Busy(s)' <=> Busy(s)) /\ (DogAlive(s)' <=> DogAlive(s))
  BY <1>1, <1>3 DEF Busy, DogAlive
<1>5. Undisturbed'
  BY <1>2, <1>3, <1>4 DEF Undisturbed
<1>6. ASSUME NEW s \in Serves PROVE ServeKnows(s)'
  BY <1>1, <1>2, <1>3 DEF ServeKnows
<1>7. ASSUME NEW w \in Serves PROVE DogKnows(w)'
  <2>1. DogKnows(w) /\ dog'[w].at = dog[w].at /\ dog'[w].pid = dog[w].pid
    BY <1>2, <1>3
  <2> QED BY <1>3, <2>1 DEF DogKnows
<1> QED BY <1>5, <1>6, <1>7

-----------------------------------------------------------------------------
(* The names are kept.                                                     *)
LEMMA StartedStays ==
    ASSUME NEW w, Started(w), \A u \in Serves : dog[u].at # "none" => dog'[u].at # "none"
    PROVE  Started(w)'
BY DEF Started

LEMMA NoInfoNamesNone == Started(NoInfo.watchdogPid) /\ Started(NoInfo.watchdogPid)'
BY DaemonsAssumption DEF Started, NoInfo

LEMMA DogStepsKeepNames ==
    ASSUME Types, Names, NEW w \in Serves, DogSteps(w)
    PROVE  Names'
<1>1. UNCHANGED <<serve, stop>>
  BY DEF DogSteps, DogPolls, DogFindsHealthy, DogFindsUnhealthy, DogWaited, DogBackedOff,
         DogSpawns, DogWritesPid, DogReadsInfo, DogWritesInfo
<1>2. dog[w].at # "none" /\ (\A u \in Serves \ {w} : dog'[u] = dog[u]) /\ dog'[w].at # "none"
  <2>1. dog[w].at # "none"
    BY DEF DogSteps, DogPolls, DogFindsHealthy, DogFindsUnhealthy, DogWaited, DogBackedOff,
           DogSpawns, DogWritesPid, DogReadsInfo, DogWritesInfo
  <2> QED BY <2>1, DogMoves DEF DogSteps
<1>3. \A u \in Serves : dog[u].at # "none" => dog'[u].at # "none"
  BY <1>2
<1>4. dog'[w].info \in {dog[w].info, daemonJson, NoInfo}
  BY DogMoves DEF DogSteps
<1>5. daemonJson' = daemonJson \/ daemonJson' = NoInfo \/ daemonJson'.watchdogPid = dog[w].info.watchdogPid
  <2>1. CASE ~DogWritesInfo(w)
    BY <2>1 DEF DogSteps, DogPolls, DogFindsHealthy, DogFindsUnhealthy, DogWaited, DogBackedOff,
                DogSpawns, DogWritesPid, DogReadsInfo, files
  <2>2. CASE DogWritesInfo(w)
    <3>1. dog[w].info \in InfoType
      BY DEF Types, DogType
    <3> QED BY <2>2, <3>1 DEF DogWritesInfo, InfoType
  <2> QED BY <2>1, <2>2
<1>6. Started(daemonJson.watchdogPid)' /\ Started(dog[w].info.watchdogPid)'
  <2>1. Started(daemonJson.watchdogPid) /\ Started(dog[w].info.watchdogPid)
    BY DEF Names
  <2>2. \A v : Started(v) => (v \in Serves => dog'[v].at # "none")
    BY <1>3 DEF Started
  <2>3. NoInfo.watchdogPid \notin Serves
    BY DaemonsAssumption DEF NoInfo
  <2>4. daemonJson'.watchdogPid \in Serves => dog'[daemonJson'.watchdogPid].at # "none"
    BY <1>5, <2>1, <2>2, <2>3
  <2>5. dog'[w].info.watchdogPid \in Serves => dog'[dog'[w].info.watchdogPid].at # "none"
    BY <1>4, <2>1, <2>2, <2>3
  <2> QED BY <2>4, <2>5 DEF Started
<1>7. \A u \in Serves \ {w} : Started(dog[u].info.watchdogPid)'
  BY <1>2, <1>3 DEF Names, Started
<1>8. \A c \in Stops : Started(stop[c].info.watchdogPid)'
  BY <1>1, <1>3 DEF Names, Started
<1>9. \A u \in Serves : dog'[u].at # "none" => serve'[u].at = "done"
  BY <1>1, <1>2 DEF Names
<1> QED BY <1>6, <1>7, <1>8, <1>9 DEF Names

LEMMA ServeStepsKeepNames ==
    ASSUME Types, Names, NEW s \in Serves, ServeSteps(s)
    PROVE  Names'
<1>1. UNCHANGED stop /\ \A t \in Serves \ {s} : serve'[t] = serve[t]
  BY ServeMoves DEF ServeSteps, ServeChecks, ServeSpawns, ServeWritesInfo, ServeWritesPid, ServeStarted,
                    ServeFoundCrash
<1>2. serve[s].at # "done" /\ dog[s].at = "none"
  BY DEF ServeSteps, ServeChecks, ServeSpawns, ServeWritesInfo, ServeWritesPid, ServeStarted,
         ServeFoundCrash, Names
<1>3. CASE ~ServeStarted(s)
  <2>1. UNCHANGED dog
    BY <1>3 DEF ServeSteps, ServeChecks, ServeSpawns, ServeWritesInfo, ServeWritesPid, ServeFoundCrash
  <2>2. daemonJson' = daemonJson \/ daemonJson'.watchdogPid = NoDog
    BY <1>3 DEF ServeSteps, ServeChecks, ServeSpawns, ServeWritesInfo, ServeWritesPid, ServeFoundCrash,
                files, NoInfo
  <2>3. Started(daemonJson.watchdogPid)'
    BY <2>1, <2>2, DaemonsAssumption DEF Names, Started
  <2> QED BY <1>1, <1>2, <2>1, <2>3 DEF Names, Started
<1>4. CASE ServeStarted(s)
  <2>1. /\ \A u \in Serves \ {s} : dog'[u] = dog[u]
        /\ dog'[s].info = dog[s].info /\ serve'[s].at = "done"
        /\ daemonJson' = daemonJson \/ (daemonJson'.watchdogPid = s /\ dog'[s].at = "sleeping")
    BY <1>4, ServeStarts, ServeMoves
  <2>2. \A u \in Serves : dog[u].at # "none" => dog'[u].at # "none"
    BY <1>2, <2>1
  <2>3. Started(daemonJson.watchdogPid)'
    BY <2>1, <2>2 DEF Names, Started
  <2>4. \A u \in Serves : Started(dog[u].info.watchdogPid)'
    BY <2>1, <2>2 DEF Names, Started
  <2>5. \A c \in Stops : Started(stop[c].info.watchdogPid)'
    BY <1>1, <2>2 DEF Names, Started
  <2>6. \A u \in Serves : dog'[u].at # "none" => serve'[u].at = "done"
    BY <1>1, <2>1 DEF Names
  <2> QED BY <2>3, <2>4, <2>5, <2>6 DEF Names
<1> QED BY <1>3, <1>4

LEMMA QuieterKeepsNames ==
    ASSUME Types, Names, Quieter,
           \A c \in Stops : stop'[c].info \in {stop[c].info, daemonJson}
    PROVE  Names'
<1>1. \A u \in Serves : dog'[u].at = dog[u].at /\ dog'[u].info = dog[u].info /\ serve'[u] = serve[u]
  BY DEF Quieter
<1>2. daemonJson' = daemonJson \/ daemonJson' = NoInfo
  BY DEF Quieter, files
<1>3. Started(daemonJson.watchdogPid)'
  BY <1>1, <1>2, DaemonsAssumption DEF Names, Started, NoInfo
<1>4. \A u \in Serves : Started(dog[u].info.watchdogPid)'
  BY <1>1 DEF Names, Started
<1>5. \A c \in Stops : Started(stop[c].info.watchdogPid)'
  BY <1>1 DEF Names, Started
<1>6. \A u \in Serves : dog'[u].at # "none" => serve'[u].at = "done"
  BY <1>1 DEF Names
<1> QED BY <1>3, <1>4, <1>5, <1>6 DEF Names

-----------------------------------------------------------------------------
(* The stops stay final.                                                   *)
LEMMA DogStepsKeepStops ==
    ASSUME Types, Sessions, Names, NEW w \in Serves, DogSteps(w), NEW c \in Stops, StopEnds(c)
    PROVE  StopEnds(c)'
<1>1. UNCHANGED stop /\ (Quiet' => Quiet)
  BY DEF DogSteps, DogPolls, DogFindsHealthy, DogFindsUnhealthy, DogWaited, DogBackedOff,
         DogSpawns, DogWritesPid, DogReadsInfo, DogWritesInfo, Quiet
<1> SUFFICES ASSUME stop[c].signalled
             PROVE  /\ stop[c].info.pid \in DOMAIN procs'
                    /\ stop[c].mode # "dashboard" /\ stop[c].at # "waiting" => stop[c].info.pid \notin Alive'
                    /\ Quiet => /\ Done(stop[c].info.watchdogPid)'
                                /\ \A pid \in DOMAIN procs' : pid > stop[c].info.pid =>
                                       \/ procs'[pid].parent = NoDog
                                       \/ procs'[pid].parent # stop[c].info.watchdogPid
  <2>1. isDaemonAlive(stop[c].info.pid)' => stop[c].info.pid \in Alive'
    BY <1>1 DEF Alive, isDaemonAlive
  <2> QED BY <1>1, <2>1 DEF StopEnds
<1>2. stop[c].info.pid \in DOMAIN procs /\ DOMAIN procs = 1..Len(procs) /\ Len(procs) \in Nat
  BY AliveIsKnown DEF StopEnds
<1>3. stop[c].mode # "dashboard" /\ stop[c].at # "waiting" => stop[c].info.pid \notin Alive
  BY AliveIsKnown DEF StopEnds
<1>4. /\ \A u \in Serves \ {w} : dog'[u] = dog[u]
      /\ dog'[w].stopping = dog[w].stopping
      /\ dog'[w].at = "spawning" => ~dog[w].stopping
      /\ DogAlive(w)
  <2>1. DogAlive(w)
    BY DEF DogSteps, DogPolls, DogFindsHealthy, DogFindsUnhealthy, DogWaited, DogBackedOff,
           DogSpawns, DogWritesPid, DogReadsInfo, DogWritesInfo, DogAlive
  <2> QED BY <2>1, DogMoves DEF DogSteps
<1>5. Quiet => Done(stop[c].info.watchdogPid)'
  <2>1. Quiet => Done(stop[c].info.watchdogPid)
    BY DEF StopEnds
  <2> QED BY <1>1, <1>4, <2>1 DEF Done, DogAlive
<1>6. CASE UNCHANGED procs
  <2>1. Alive' = Alive
    BY <1>6 DEF Alive, isDaemonAlive
  <2> QED BY <1>2, <1>3, <1>5, <1>6, <2>1 DEF StopEnds
<1>7. CASE procs' = Killed(dog[w].pid)
  <2>1. /\ DOMAIN procs' = DOMAIN procs /\ Alive' \subseteq Alive
        /\ \A q \in DOMAIN procs : procs'[q].parent = procs[q].parent
    BY <1>7, DeathRemoves
  <2> QED BY <1>2, <1>3, <1>5, <2>1 DEF StopEnds
<1>8. CASE procs' = Spawned(w) /\ dog[w].at = "spawning"
  <2>1. w \in Parents
    BY DEF Parents
  <2>2. /\ DOMAIN procs' = 1..(Len(procs) + 1) /\ Alive' = Alive \cup {Len(procs) + 1}
        /\ procs'[Len(procs) + 1].parent = w
        /\ \A pid \in DOMAIN procs : procs'[pid].parent = procs[pid].parent
    BY <1>8, <2>1, BirthAdds
  <2>3. Quiet => w # stop[c].info.watchdogPid
    BY <1>8 DEF StopEnds, Done
  <2>4. stop[c].info.pid \in DOMAIN procs' /\ (stop[c].info.pid \in Alive' => stop[c].info.pid \in Alive)
    BY <1>2, <2>2
  <2>5. \A pid \in DOMAIN procs' : pid \in DOMAIN procs \/ pid = Len(procs) + 1
    BY <1>2, <2>2
  <2>6. Quiet => \A pid \in DOMAIN procs' : pid > stop[c].info.pid =>
            \/ procs'[pid].parent = NoDog
            \/ procs'[pid].parent # stop[c].info.watchdogPid
    BY <2>2, <2>3, <2>5 DEF StopEnds
  <2> QED BY <1>3, <1>5, <2>4, <2>6
<1>9. \/ UNCHANGED procs \/ procs' = Killed(dog[w].pid)
      \/ procs' = Spawned(w) /\ dog[w].at = "spawning"
  BY DEF DogSteps, DogPolls, DogFindsHealthy, DogFindsUnhealthy, DogWaited, DogBackedOff,
         DogSpawns, DogWritesPid, DogReadsInfo, DogWritesInfo
<1> QED BY <1>6, <1>7, <1>8, <1>9

LEMMA ServeStepsKeepStops ==
    ASSUME Types, Sessions, Names, NEW s \in Serves, ServeSteps(s), NEW c \in Stops, StopEnds(c)
    PROVE  StopEnds(c)'
<1>1. UNCHANGED stop
  BY DEF ServeSteps, ServeChecks, ServeSpawns, ServeWritesInfo, ServeWritesPid, ServeStarted, ServeFoundCrash
<1>2. Quiet' => Quiet
  <2>1. ServeChecks(s) => ~serve[s].blind
    BY DEF ServeChecks, Sessions
  <2> QED BY <2>1, ServeMoves DEF Quiet
<1> SUFFICES ASSUME stop[c].signalled
             PROVE  /\ stop[c].info.pid \in DOMAIN procs'
                    /\ stop[c].mode # "dashboard" /\ stop[c].at # "waiting" => stop[c].info.pid \notin Alive'
                    /\ Quiet => /\ Done(stop[c].info.watchdogPid)'
                                /\ \A pid \in DOMAIN procs' : pid > stop[c].info.pid =>
                                       \/ procs'[pid].parent = NoDog
                                       \/ procs'[pid].parent # stop[c].info.watchdogPid
  <2>1. isDaemonAlive(stop[c].info.pid)' => stop[c].info.pid \in Alive'
    BY <1>1 DEF Alive, isDaemonAlive
  <2> QED BY <1>1, <1>2, <2>1 DEF StopEnds
<1>3. stop[c].info.pid \in DOMAIN procs /\ DOMAIN procs = 1..Len(procs) /\ Len(procs) \in Nat
  BY AliveIsKnown DEF StopEnds
<1>4. stop[c].mode # "dashboard" /\ stop[c].at # "waiting" => stop[c].info.pid \notin Alive
  BY AliveIsKnown DEF StopEnds
<1>5. Quiet => Done(stop[c].info.watchdogPid)'
  <2>1. Quiet => Done(stop[c].info.watchdogPid) /\ Started(stop[c].info.watchdogPid)
    BY DEF StopEnds, Names
  <2>2. serve[s].at # "done" /\ dog[s].at = "none"
    BY DEF ServeSteps, ServeChecks, ServeSpawns, ServeWritesInfo, ServeWritesPid, ServeStarted,
           ServeFoundCrash, Names
  <2>3. \A u \in Serves \ {s} : dog'[u] = dog[u]
    <3>1. CASE ServeStarted(s)
      BY <3>1, ServeStarts
    <3>2. CASE ~ServeStarted(s)
      BY <3>2 DEF ServeSteps, ServeChecks, ServeSpawns, ServeWritesInfo, ServeWritesPid, ServeFoundCrash
    <3> QED BY <3>1, <3>2
  <2>4. Quiet => stop[c].info.watchdogPid # s
    BY <2>1, <2>2 DEF Started
  <2> QED BY <1>1, <2>1, <2>3, <2>4 DEF Done
<1>6. CASE UNCHANGED procs
  <2>1. Alive' = Alive
    BY <1>6 DEF Alive, isDaemonAlive
  <2> QED BY <1>3, <1>4, <1>5, <1>6, <2>1 DEF StopEnds
<1>7. CASE procs' = Spawned(NoDog)
  <2>1. NoDog \in Parents
    BY DEF Parents
  <2>2. /\ DOMAIN procs' = 1..(Len(procs) + 1) /\ Alive' = Alive \cup {Len(procs) + 1}
        /\ procs'[Len(procs) + 1].parent = NoDog
        /\ \A pid \in DOMAIN procs : procs'[pid].parent = procs[pid].parent
    BY <1>7, <2>1, BirthAdds
  <2>3. stop[c].info.pid \in DOMAIN procs' /\ (stop[c].info.pid \in Alive' => stop[c].info.pid \in Alive)
    BY <1>3, <2>2
  <2>4. \A pid \in DOMAIN procs' : pid \in DOMAIN procs \/ pid = Len(procs) + 1
    BY <1>3, <2>2
  <2>5. Quiet => \A pid \in DOMAIN procs' : pid > stop[c].info.pid =>
            \/ procs'[pid].parent = NoDog
            \/ procs'[pid].parent # stop[c].info.watchdogPid
    BY <2>2, <2>4 DEF StopEnds
  <2> QED BY <1>4, <1>5, <2>3, <2>5
<1>8. UNCHANGED procs \/ procs' = Spawned(NoDog)
  BY DEF ServeSteps, ServeChecks, ServeSpawns, ServeWritesInfo, ServeWritesPid, ServeStarted, ServeFoundCrash
<1> QED BY <1>6, <1>7, <1>8

(* A stop that had signalled, and goes no further than it should.          *)
LEMMA QuieterKeepsStops ==
    ASSUME Types, Quieter, NEW c \in Stops, StopEnds(c),
           stop'[c].signalled = stop[c].signalled,
           stop[c].signalled =>
               /\ stop'[c].info = stop[c].info /\ stop'[c].mode = stop[c].mode
               /\ stop'[c].at \in {"waiting", "killed", "done"}
               /\ stop[c].mode # "dashboard" /\ stop'[c].at # stop[c].at => stop[c].info.pid \notin Alive'
    PROVE  StopEnds(c)'
<1>1. CASE ~stop[c].signalled
  BY <1>1 DEF StopEnds
<1>2. CASE stop[c].signalled
  <2>1. /\ stop'[c].info = stop[c].info /\ stop'[c].mode = stop[c].mode
        /\ stop'[c].at \in {"waiting", "killed", "done"}
        /\ stop[c].mode # "dashboard" /\ stop'[c].at # stop[c].at => stop[c].info.pid \notin Alive'
    BY <1>2
  <2>2. /\ DOMAIN procs' = DOMAIN procs /\ Alive' \subseteq Alive
        /\ \A q \in DOMAIN procs : procs'[q].parent = procs[q].parent
        /\ Quiet' => Quiet
    BY DEF Quieter, Quiet
  <2>3. stop'[c].info.pid \in DOMAIN procs'
    BY <1>2, <2>1, <2>2 DEF StopEnds
  <2>4. stop[c].mode # "dashboard" /\ stop'[c].at # "waiting" => stop[c].info.pid \notin Alive'
    BY <1>2, <2>1, <2>2, AliveIsKnown DEF StopEnds
  <2>5. stop'[c].mode # "dashboard" /\ stop'[c].at # "waiting" => ~isDaemonAlive(stop[c].info.pid)'
    BY <2>1, <2>4 DEF Alive, isDaemonAlive
  <2>6. Quiet => Done(stop[c].info.watchdogPid)'
    BY <1>2, <2>1 DEF StopEnds, Done, Quieter
  <2>7. Quiet => \A pid \in DOMAIN procs : pid > stop[c].info.pid =>
            procs[pid].parent = NoDog \/ procs[pid].parent # stop[c].info.watchdogPid
    BY <1>2 DEF StopEnds
  <2>8. Quiet => \A pid \in DOMAIN procs' : pid > stop'[c].info.pid =>
            procs'[pid].parent = NoDog \/ procs'[pid].parent # stop'[c].info.watchdogPid
    BY <2>1, <2>2, <2>7
  <2> QED BY <2>1, <2>2, <2>3, <2>5, <2>6, <2>8 DEF StopEnds
<1> QED BY <1>1, <1>2

(* The agent that is signalled is the youngest process, and its watchdog   *)
(* is not about to start another.                                          *)
LEMMA SignalIsInTime ==
    ASSUME Types, Sessions, NEW info, Started(info.watchdogPid), isDaemonAlive(info.pid),
           procs' = Killed(info.pid) \/ procs' = Ending(info.pid), dog' = SignalledDog(info)
    PROVE  /\ info.pid \in DOMAIN procs'
           /\ Quiet => \A pid \in DOMAIN procs' : ~(pid > info.pid)
           /\ Quiet /\ info.watchdogPid \in Serves =>
                  \/ dog'[info.watchdogPid].at = "exited"
                  \/ dog'[info.watchdogPid].stopping /\ dog'[info.watchdogPid].at # "spawning"
<1>1. info.pid \in Alive /\ Alive \subseteq 1..Len(procs) /\ DOMAIN procs = 1..Len(procs) /\ Len(procs) \in Nat
  BY AliveIsKnown
<1>2. DOMAIN procs' = DOMAIN procs
  BY DeathRemoves, EndingKeeps
<1>3. Quiet => info.pid = Len(procs)
  BY <1>1 DEF Sessions, Undisturbed
<1>4. ASSUME Quiet, info.watchdogPid \in Serves
      PROVE  \/ dog'[info.watchdogPid].at = "exited"
             \/ dog'[info.watchdogPid].stopping /\ dog'[info.watchdogPid].at # "spawning"
  <2>1. PICK w \in Serves : w = info.watchdogPid
    BY <1>4
  <2>2. dog[w].at # "none" /\ dog[w].at # "spawning"
    BY <1>1, <1>4, <2>1 DEF Started, Sessions, DogKnows
  <2>3. dog'[w].at = dog[w].at /\ (DogAlive(w) => dog'[w].stopping)
    BY <2>1, SignalTouches
  <2>4. ~DogAlive(w) => dog[w].at = "exited"
    BY <2>2 DEF DogAlive
  <2> QED BY <2>1, <2>2, <2>3, <2>4
<1>5. info.pid \in DOMAIN procs' /\ (Quiet => \A pid \in DOMAIN procs' : ~(pid > info.pid))
  <2>1. DOMAIN procs' = 1..Len(procs)
    BY <1>1, <1>2
  <2>2. \A pid \in 1..Len(procs) : ~(pid > Len(procs))
    BY <1>1
  <2>3. Quiet => \A pid \in DOMAIN procs' : ~(pid > info.pid)
    BY <1>3, <2>1, <2>2
  <2>4. info.pid \in DOMAIN procs'
    BY <1>1, <2>1
  <2> QED BY <2>3, <2>4
<1> QED BY <1>4, <1>5

LEMMA StopStepsKeepStops ==
    ASSUME Types, Sessions, Names, NEW c \in Stops, StopSteps(c), NEW k \in Stops, StopEnds(k)
    PROVE  StopEnds(k)'
<1>1. Quieter
  BY OthersAreQuieter
<1>2. CASE k # c
  <2>1. stop'[k] = stop[k]
    BY <1>2, StopMoves
  <2>2. stop[k].signalled => stop[k].at \in {"waiting", "killed", "done"}
    BY DEF StopEnds
  <2> QED BY <1>1, <2>1, <2>2, QuieterKeepsStops
<1>3. CASE k = c /\ stop[c].at \in {"idle", "resolved"} /\ stop'[c].signalled = stop[c].signalled
  BY <1>3 DEF StopEnds
<1>4. ASSUME k = c, NEW info, Started(info.watchdogPid), isDaemonAlive(info.pid),
             stop'[c].info = info, dog' = SignalledDog(info),
             \/ procs' = Killed(info.pid) /\ stop'[c].at = "done"
             \/ procs' = Ending(info.pid) /\ stop'[c].at = "waiting"
             \/ procs' = Ending(info.pid) /\ stop'[c].at = "done" /\ stop'[c].mode = "dashboard"
      PROVE  StopEnds(k)'
  <2>1. /\ info.pid \in DOMAIN procs'
        /\ Quiet => \A pid \in DOMAIN procs' : ~(pid > info.pid)
        /\ Quiet /\ info.watchdogPid \in Serves =>
               \/ dog'[info.watchdogPid].at = "exited"
               \/ dog'[info.watchdogPid].stopping /\ dog'[info.watchdogPid].at # "spawning"
    BY <1>4, SignalIsInTime
  <2>2. stop'[c].mode # "dashboard" /\ stop'[c].at # "waiting" => info.pid \notin Alive'
    BY <1>4, DeathRemoves
  <2>3. stop'[c].mode # "dashboard" /\ stop'[c].at # "waiting" => ~isDaemonAlive(stop[c].info.pid)'
    BY <1>4, <2>2 DEF Alive, isDaemonAlive
  <2>4. Quiet' => Quiet
    BY <1>1 DEF Quieter, Quiet
  <2>5. Quiet => Done(stop[c].info.watchdogPid)'
    BY <1>4, <2>1 DEF Done
  <2> QED BY <1>4, <2>1, <2>3, <2>4, <2>5 DEF StopEnds
<1>5. CASE k = c /\ StopResolves(c)
  BY <1>3, <1>5, StopMoves
<1>6. CASE k = c /\ StopSignals(c)
  <2>1. stop[c].at = "resolved" /\ stop'[c].info = stop[c].info /\ dog' = SignalledDog(stop[c].info)
    BY <1>6, StopMoves
  <2>2. Started(stop[c].info.watchdogPid)
    BY DEF Names
  <2>3. \/ UNCHANGED procs /\ stop'[c].signalled = stop[c].signalled
        \/ /\ isDaemonAlive(stop[c].info.pid)
           /\ \/ procs' = Killed(stop[c].info.pid) /\ stop'[c].at = "done"
              \/ procs' = Ending(stop[c].info.pid) /\ stop'[c].at = "waiting"
    BY <1>6, StopMoves
  <2> QED BY <1>3, <1>4, <1>6, <2>1, <2>2, <2>3
<1>7. CASE k = c /\ DashboardStops(c)
  <2>1. Started(daemonJson.watchdogPid)
    BY DEF Names
  <2>2. /\ stop[c].at = "idle"
        /\ \/ UNCHANGED <<procs, dog>> /\ stop'[c].signalled = stop[c].signalled
           \/ /\ isDaemonAlive(daemonJson.pid) /\ stop'[c].at = "done"
              /\ stop'[c].mode = "dashboard" /\ stop'[c].info = daemonJson
              /\ dog' = SignalledDog(daemonJson) /\ procs' = Ending(daemonJson.pid)
    BY <1>7, StopMoves
  <2> QED BY <1>3, <1>4, <1>7, <2>1, <2>2
<1>8. CASE k = c /\ (StopSeesExit(c) \/ StopEscalates(c) \/ StopCleansUp(c))
  <2>1. /\ stop'[c].info = stop[c].info /\ stop'[c].signalled = stop[c].signalled
        /\ stop'[c].mode = stop[c].mode /\ stop'[c].at \in {"killed", "done"}
        /\ \/ UNCHANGED procs /\ (~isDaemonAlive(stop[c].info.pid) \/ stop[c].at = "killed")
           \/ procs' = Killed(stop[c].info.pid)
    BY <1>8, StopMoves
  <2>2. stop[c].signalled /\ stop[c].mode # "dashboard" /\ stop[c].at = "killed" =>
            ~isDaemonAlive(stop[c].info.pid)
    BY <1>8 DEF StopEnds
  <2>3. UNCHANGED procs => Alive' = Alive
    BY DEF Alive, isDaemonAlive
  <2>4. stop[c].signalled /\ stop[c].mode # "dashboard" => stop[c].info.pid \notin Alive'
    BY <2>1, <2>2, <2>3, AliveIsKnown, DeathRemoves
  <2> QED BY <1>1, <1>8, <2>1, <2>4, QuieterKeepsStops
<1> QED BY <1>2, <1>5, <1>6, <1>7, <1>8 DEF StopSteps

-----------------------------------------------------------------------------
(* All of it.                                                              *)
LEMMA InvariantHoldsInitially == ASSUME DaemonsInit PROVE IInv
<1>1. Types /\ Budgets
  BY TypesHoldInitially, BudgetsHoldInitially
<1>2. Alive = {}
  BY DEF DaemonsInit, Alive, isDaemonAlive
<1>3. /\ \A s \in Serves : serve[s].at = "idle" /\ serve[s].blind = FALSE
      /\ \A w \in Serves : dog[w].at = "none" /\ dog[w].info = NoInfo
      /\ \A c \in Stops : stop[c].info = NoInfo /\ stop[c].signalled = FALSE
      /\ daemonJson = NoInfo
  BY DEF DaemonsInit
<1>4. Sessions
  BY <1>2, <1>3 DEF Sessions, Undisturbed, ServeKnows, DogKnows, Busy, DogAlive
<1>5. Names /\ \A c \in Stops : StopEnds(c)
  BY <1>3, NoInfoNamesNone DEF Names, StopEnds
<1> QED BY <1>1, <1>4, <1>5 DEF IInv

LEMMA InvariantKept == ASSUME IInv, [DaemonsNext]_daemonVars PROVE IInv'
<1>1. Types /\ Budgets /\ Sessions /\ Names /\ \A c \in Stops : StopEnds(c)
  BY DEF IInv
<1>2. Types' /\ Budgets'
  BY <1>1, TypesKept, BudgetsKept
<1>3. CASE UNCHANGED daemonVars
  <2>1. Quieter /\ UNCHANGED stop
    BY <1>3 DEF Quieter, daemonVars, files, Alive, isDaemonAlive
  <2>2. \A c \in Stops : StopEnds(c)'
    <3> TAKE c \in Stops
    <3>1. stop[c].signalled => stop[c].at \in {"waiting", "killed", "done"}
      BY <1>1 DEF StopEnds
    <3> QED BY <1>1, <2>1, <3>1, QuieterKeepsStops
  <2> QED BY <1>1, <1>2, <2>1, <2>2, QuieterKeepsSessions, QuieterKeepsNames DEF IInv
<1>4. CASE \E w \in Serves : DogSteps(w)
  BY <1>1, <1>2, <1>4, DogStepsKeepSessions, DogStepsKeepNames, DogStepsKeepStops DEF IInv
<1>5. CASE \E s \in Serves : ServeSteps(s)
  BY <1>1, <1>2, <1>5, ServeStepsKeepSessions, ServeStepsKeepNames, ServeStepsKeepStops DEF IInv
<1>6. CASE \E c \in Stops : StopSteps(c)
  <2>1. PICK c \in Stops : StopSteps(c)
    BY <1>6
  <2>2. Quieter
    BY <1>1, <2>1, OthersAreQuieter
  <2>3. stop'[c].info \in {stop[c].info, daemonJson} /\ \A k \in Stops \ {c} : stop'[k] = stop[k]
    BY <1>1, <2>1, StopMoves DEF StopSteps
  <2>4. Sessions' /\ Names'
    BY <1>1, <2>2, <2>3, QuieterKeepsSessions, QuieterKeepsNames
  <2>5. \A k \in Stops : StopEnds(k)'
    BY <1>1, <2>1, StopStepsKeepStops
  <2> QED BY <1>2, <2>4, <2>5 DEF IInv
<1>7. CASE cleanStaleDaemons \/ AgentExits
  <2>1. Quieter /\ UNCHANGED stop
    BY <1>1, <1>7, OthersAreQuieter DEF cleanStaleDaemons, AgentExits
  <2>2. \A c \in Stops : StopEnds(c)'
    <3> TAKE c \in Stops
    <3>1. stop[c].signalled => stop[c].at \in {"waiting", "killed", "done"}
      BY <1>1 DEF StopEnds
    <3> QED BY <1>1, <2>1, <3>1, QuieterKeepsStops
  <2> QED BY <1>1, <1>2, <2>1, <2>2, QuieterKeepsSessions, QuieterKeepsNames DEF IInv
<1> QED BY <1>3, <1>4, <1>5, <1>6, <1>7 DEF DaemonsNext, ServeSteps, StopSteps

LEMMA InvariantSuffices == ASSUME IInv PROVE DaemonsInv
<1>1. Types /\ Budgets /\ Sessions /\ \A c \in Stops : StopEnds(c)
  BY DEF IInv
<1>2. DaemonsTypeOK
  <2>1. \A w \in Serves : dog[w].consecutiveFailures < CONSECUTIVE_FAILURES_THRESHOLD
    BY <1>1, DaemonsAssumption DEF Types, DogType, Failures
  <2>2. NoInfo \in InfoType
    BY RecordsAreTyped
  <2> QED BY <1>1, <2>1, <2>2 DEF DaemonsTypeOK, Types, ProcType, InfoType, Parents
<1>3. RestartBudget
  BY <1>1 DEF Budgets, Budget, Children, RestartBudget
<1>4. OneAgent
  <2> SUFFICES ASSUME Quiet PROVE Cardinality(Alive) <= 1
    BY DEF OneAgent, Quiet
  <2>1. Alive \subseteq {Len(procs)}
    BY <1>1 DEF Sessions, Undisturbed
  <2>2. Alive = {} \/ Alive = {Len(procs)}
    BY <2>1
  <2>3. Cardinality({}) = 0 /\ Cardinality({Len(procs)}) = 1
    BY FS_EmptySet, FS_Singleton
  <2>4. CASE Alive = {}
    BY <2>3, <2>4
  <2>5. CASE Alive = {Len(procs)}
    BY <2>3, <2>5
  <2> QED BY <2>2, <2>4, <2>5
<1>5. StopIsFinal
  BY <1>1 DEF StopEnds, StopIsFinal, Quiet
<1> QED BY <1>2, <1>3, <1>4, <1>5 DEF DaemonsInv

(* However many commands run beside one another and whatever dies when: a  *)
(* watchdog keeps to its restarts, there is one agent as long as every     *)
(* serve saw what ran before it, and a stop is final (serve.ts, stop.ts,   *)
(* watchdog.ts, daemon-state.ts).                                          *)
THEOREM DaemonsAreSafe == DaemonsSpec => []DaemonsInv
<1>1. DaemonsInit => IInv
  BY InvariantHoldsInitially
<1>2. IInv /\ [DaemonsNext]_daemonVars => IInv'
  BY InvariantKept
<1>3. IInv => DaemonsInv
  BY InvariantSuffices
<1> QED BY <1>1, <1>2, <1>3, PTL DEF DaemonsSpec

=============================================================================

---------------------------- MODULE NetworkProofs ---------------------------
(***************************************************************************)
(* The Wonderland network.  AgentTurns for any agents, turns,              *)
(* registrations, timers and thresholds: its types, that every armed       *)
(* recovery timer is tracked, that an active citizen has the breaker of    *)
(* its last registration, that spending stays within one call per turn of  *)
(* the cap, and that a stop is final.  The registries of Enclaves for any  *)
(* seeds, enclaves, interests, stored memberships and number of            *)
(* overlapping initializations: every operation of EnclaveRegistry turns a *)
(* well-formed registry into one, a step changes registries by such        *)
(* operations only, and once initialized the system has introduced every   *)
(* citizen, however the calls overlapped.                                  *)
(***************************************************************************)
EXTENDS AgentTurns, Enclaves, FiniteSetTheorems, TLAPS

-----------------------------------------------------------------------------
(* What the operators on safety states, breakers and outputs return.       *)

LEMMA KillswitchStates ==
    ASSUME NEW s \in AgentSafetyState, NEW c \in Causes
    PROVE  /\ Paused(s, c) \in AgentSafetyState
           /\ Paused(s, c).paused /\ Paused(s, c).stopped = s.stopped
           /\ Resumed(s) \in AgentSafetyState /\ Resumed(s).stopped = s.stopped
           /\ s.stopped => Resumed(s) = s
           /\ Stopped(s) \in AgentSafetyState
           /\ Stopped(s).stopped /\ Stopped(s).paused
BY DEF AgentSafetyState, Paused, Resumed, Stopped

LEMMA BreakerStates ==
    ASSUME NEW b \in Breakers
    PROVE  NewBreaker \in Breakers /\ AfterFailure(b) \in Breakers /\ AfterSuccess(b) \in Breakers
BY DEF Breakers, NewBreaker, AfterFailure, AfterSuccess

LEMMA RepeatCounts ==
    ASSUME NEW n \in 0..RepeatThreshold, NEW out
    PROVE  Repeated(n, out) \in 0..RepeatThreshold
BY AgentTurnsAssumption DEF Repeated

-----------------------------------------------------------------------------
(* What a step does to an agent's killswitch, whoever takes it.            *)

KillswitchStep ==
    /\ SafetyTypeOK'
    /\ \A a \in Agents :
         /\ agentStates[a].stopped => agentStates'[a].stopped /\ agentStates'[a].paused
         /\ agentStates'[a].stopped => agentStates'[a].paused

LEMMA KillswitchFrame ==
    ASSUME SafetyTypeOK, StoppedIsPaused, UNCHANGED safetyVars
    PROVE  KillswitchStep
BY DEF SafetyTypeOK, StoppedIsPaused, safetyVars, KillswitchStep

(* A step that changes one agent's state to one that is no less stopped.   *)
LEMMA KillswitchOne ==
    ASSUME SafetyTypeOK, StoppedIsPaused, UNCHANGED emergencyHalt,
           NEW a \in Agents, NEW s \in AgentSafetyState,
           agentStates' = [agentStates EXCEPT ![a] = s],
           agentStates[a].stopped => s.stopped, s.stopped => s.paused
    PROVE  KillswitchStep
BY DEF SafetyTypeOK, StoppedIsPaused, KillswitchStep

LEMMA ModeratorSteps ==
    ASSUME SafetyTypeOK, StoppedIsPaused, ModeratorActs
    PROVE  KillswitchStep
<1>1. CASE EmergencyHaltNetwork \/ ResumeNetwork
  BY <1>1 DEF EmergencyHaltNetwork, ResumeNetwork, SafetyTypeOK, StoppedIsPaused, KillswitchStep
<1>2. ASSUME NEW a \in Agents, ModeratorPauses(a) \/ ModeratorResumes(a) \/ ModeratorStops(a)
      PROVE  KillswitchStep
  <2>1. agentStates[a] \in AgentSafetyState /\ (agentStates[a].stopped => agentStates[a].paused)
        /\ "moderator" \in Causes
    BY DEF SafetyTypeOK, StoppedIsPaused, Causes
  <2>2. PICK s \in {Paused(agentStates[a], "moderator"), Resumed(agentStates[a]), Stopped(agentStates[a])} :
          agentStates' = [agentStates EXCEPT ![a] = s]
    BY <1>2 DEF ModeratorPauses, ModeratorResumes, ModeratorStops
  <2>3. /\ s \in AgentSafetyState
        /\ agentStates[a].stopped => s.stopped
        /\ s.stopped => s.paused
    BY <2>1, <2>2, KillswitchStates
  <2>4. UNCHANGED emergencyHalt
    BY <1>2 DEF ModeratorPauses, ModeratorResumes, ModeratorStops
  <2> QED BY <2>2, <2>3, <2>4, KillswitchOne
<1> QED BY <1>1, <1>2 DEF ModeratorActs

-----------------------------------------------------------------------------
(* What steps leave alone keeps its invariants.                            *)

LEMMA LifeFrame ==
    ASSUME AgentsInv, UNCHANGED lifeVars
    PROVE  RegistrationsBounded' /\ ActiveHasBreaker'
BY DEF AgentsInv, lifeVars, RegistrationsBounded, Pending, ActiveHasBreaker

LEMMA TimerFrame ==
    ASSUME AgentsInv, UNCHANGED timerVars
    PROVE  TimersTracked'
BY DEF AgentsInv, timerVars, TimersTracked

LEMMA CallingIsFinite ==
    ASSUME NEW a
    PROVE  /\ IsFiniteSet(Calling(a)) /\ Cardinality(Calling(a)) \in Nat
           /\ Cardinality(Slots) \in Nat /\ Cardinality(Calling(a)) <= Cardinality(Slots)
<1>1. Calling(a) \subseteq Slots
  BY DEF Calling
<1> QED BY <1>1, AgentTurnsAssumption, FS_Subset, FS_CardinalityType

(* Calls that end and costs that are forgotten leave the bound in force.   *)
LEMMA SpendFrame ==
    ASSUME AgentsInv, \A a \in Agents : spent'[a] \in Nat /\ spent'[a] <= spent[a],
           \A a \in Agents : Calling(a)' \subseteq Calling(a)
    PROVE  SpendBounded'
<1> SUFFICES ASSUME NEW a \in Agents, NEW most \in Costs, \A c \in Costs : c <= most
             PROVE  spent'[a] + most * Cardinality(Calling(a)')
                    < CostCap + most * Cardinality(Slots)
  BY DEF SpendBounded
<1> DEFINE m == Cardinality(Calling(a))
           n == Cardinality(Calling(a)')
           k == Cardinality(Slots)
<1>1. m \in Nat /\ n \in Nat /\ k \in Nat /\ n <= m
  BY CallingIsFinite, FS_Subset, FS_CardinalityType
<1>2. most \in Nat /\ CostCap \in Nat /\ spent[a] \in Nat
  BY AgentTurnsAssumption DEF AgentsInv, AgentsTypeOK
<1>3. spent[a] + most * m < CostCap + most * k
  BY DEF AgentsInv, SpendBounded
<1>4. most * n <= most * m /\ most * n \in Nat /\ most * m \in Nat /\ most * k \in Nat
  <2> HIDE DEF m, n, k
  <2> QED BY <1>1, <1>2, SMTT(30)
<1> HIDE DEF m, n, k
<1>5. spent'[a] + most * n < CostCap + most * k
  BY <1>2, <1>3, <1>4
<1> QED BY <1>5 DEF n, k

-----------------------------------------------------------------------------
(* Every step keeps the invariant and what StoppedForGood says of it.      *)

StopStep ==
    \A a \in Agents : agentStates[a].stopped
        => /\ agentStates'[a].stopped /\ agentStates'[a].paused
           /\ Calling(a)' \subseteq Calling(a)

(* A step that starts no call and is spelled out in its typing, killswitch *)
(* and invariants of registration and timers.                              *)
LEMMA StepWithoutCall ==
    ASSUME AgentsInv, AgentsTypeOK', KillswitchStep,
           RegistrationsBounded', ActiveHasBreaker', TimersTracked',
           \A a \in Agents : spent'[a] <= spent[a],
           \A a \in Agents : Calling(a)' \subseteq Calling(a)
    PROVE  AgentsInv' /\ StopStep
<1>1. \A a \in Agents : spent'[a] \in Nat
  BY DEF AgentsTypeOK
<1>2. SpendBounded'
  BY <1>1, SpendFrame
<1> QED BY <1>2 DEF AgentsInv, KillswitchStep, StopStep, StoppedIsPaused

LEMMA AgentsTyped == AgentsInv => AgentsTypeOK /\ SafetyTypeOK /\ StoppedIsPaused
BY DEF AgentsInv, AgentsTypeOK

LEMMA ModeratorStepHolds ==
    ASSUME AgentsInv, ModeratorActs, UNCHANGED agentVars
    PROVE  AgentsInv' /\ StopStep
<1>1. KillswitchStep
  BY AgentsTyped, ModeratorSteps
<1>2. AgentsTypeOK'
  BY <1>1, AgentsTyped DEF AgentsTypeOK, KillswitchStep, agentVars, lifeVars, timerVars
<1>3. RegistrationsBounded' /\ ActiveHasBreaker' /\ TimersTracked'
  BY LifeFrame, TimerFrame DEF agentVars
<1>4. \A a \in Agents : spent'[a] <= spent[a] /\ Calling(a)' \subseteq Calling(a)
  BY AgentsTyped DEF agentVars, Calling, AgentsTypeOK
<1> QED BY <1>1, <1>2, <1>3, <1>4, StepWithoutCall

(* Steps of the guards' clocks.                                            *)
LEMMA CostWindowHolds ==
    ASSUME AgentsInv, NEW a \in Agents, CostWindowEnds(a)
    PROVE  AgentsInv' /\ StopStep
<1>1. UNCHANGED <<safetyVars, lifeVars, breaker, timerVars, turn, repeats>>
  BY DEF CostWindowEnds
<1>2. spent' \in [Agents -> Nat] /\ \A b \in Agents : spent'[b] <= spent[b]
  BY AgentsTyped DEF CostWindowEnds, AgentsTypeOK
<1>3. KillswitchStep
  BY <1>1, AgentsTyped, KillswitchFrame
<1>4. AgentsTypeOK'
  BY <1>1, <1>2, <1>3, AgentsTyped DEF AgentsTypeOK, KillswitchStep, lifeVars, timerVars
<1>5. RegistrationsBounded' /\ ActiveHasBreaker' /\ TimersTracked'
  BY <1>1, LifeFrame, TimerFrame
<1>6. \A b \in Agents : Calling(b)' \subseteq Calling(b)
  BY <1>1 DEF Calling
<1> QED BY <1>2, <1>3, <1>4, <1>5, <1>6, StepWithoutCall

LEMMA BreakerClockHolds ==
    ASSUME AgentsInv, NEW a \in Agents, NEW g \in Gens, BreakerCools(a, g) \/ FailuresExpire(a, g)
    PROVE  AgentsInv' /\ StopStep
<1>1. UNCHANGED <<safetyVars, lifeVars, spent, timerVars, turn, repeats>>
  BY DEF BreakerCools, FailuresExpire
<1>2. breaker' \in [Agents -> [Gens -> Breakers]]
  <2>1. PICK b \in Breakers : breaker' = [breaker EXCEPT ![a][g] = b]
    <3>1. breaker[a][g] \in Breakers
      BY AgentsTyped DEF AgentsTypeOK
    <3>2. CASE BreakerCools(a, g)
      BY <3>2 DEF BreakerCools, Breakers
    <3>3. CASE FailuresExpire(a, g)
      <4>1. breaker' = [breaker EXCEPT ![a][g] = [@ EXCEPT !.count = 0]]
        BY <3>3, AgentsTyped DEF FailuresExpire, AgentsTypeOK
      <4> QED BY <3>1, <4>1 DEF Breakers
    <3> QED BY <3>2, <3>3
  <2> QED BY <2>1, AgentsTyped DEF AgentsTypeOK
<1>3. KillswitchStep
  BY <1>1, AgentsTyped, KillswitchFrame
<1>4. AgentsTypeOK'
  BY <1>1, <1>2, <1>3, AgentsTyped DEF AgentsTypeOK, KillswitchStep, lifeVars, timerVars
<1>5. RegistrationsBounded' /\ ActiveHasBreaker' /\ TimersTracked'
  BY <1>1, LifeFrame, TimerFrame
<1>6. \A b \in Agents : Calling(b)' \subseteq Calling(b) /\ spent'[b] <= spent[b]
  BY <1>1, AgentsTyped DEF Calling, AgentsTypeOK
<1> QED BY <1>3, <1>4, <1>5, <1>6, StepWithoutCall

(* A turn that arrives, publishes or ends.                                 *)
LEMMA TurnMoves ==
    ASSUME AgentsInv, NEW t \in Slots, NEW s \in TurnStates,
           UNCHANGED <<safetyVars, lifeVars, breaker, spent, repeats, timerVars>>,
           turn' = [turn EXCEPT ![t] = s],
           s.at \in {"idle", "thinking"}, s.at # "idle" => s.agent \in Agents
    PROVE  AgentsInv' /\ StopStep
<1>1. KillswitchStep
  BY AgentsTyped, KillswitchFrame
<1>2. /\ turn' \in [Slots -> TurnStates]
      /\ \A q \in Slots : turn'[q].at # "idle" => turn'[q].agent \in Agents
  BY AgentsTyped DEF AgentsTypeOK
<1>3. AgentsTypeOK'
  BY <1>1, <1>2, AgentsTyped DEF AgentsTypeOK, KillswitchStep, lifeVars, timerVars
<1>4. RegistrationsBounded' /\ ActiveHasBreaker' /\ TimersTracked'
  BY LifeFrame, TimerFrame
<1>5. \A b \in Agents : spent'[b] <= spent[b] /\ Calling(b)' \subseteq Calling(b)
  BY AgentsTyped DEF Calling, AgentsTypeOK
<1> QED BY <1>1, <1>3, <1>4, <1>5, StepWithoutCall

LEMMA TurnStepHolds ==
    ASSUME AgentsInv, NEW t \in Slots
    PROVE  /\ Publish(t) \/ TurnEnds(t) => AgentsInv' /\ StopStep
           /\ \A a \in Agents : StimulusArrives(t, a) => AgentsInv' /\ StopStep
<1>1. ASSUME Publish(t) \/ TurnEnds(t)
      PROVE  AgentsInv' /\ StopStep
  <2>1. IdleTurn \in TurnStates /\ IdleTurn.at = "idle"
    BY DEF IdleTurn, TurnStates
  <2>2. /\ UNCHANGED <<safetyVars, lifeVars, breaker, spent, repeats, timerVars>>
        /\ turn' = [turn EXCEPT ![t] = IdleTurn]
    BY <1>1 DEF Publish, TurnEnds
  <2> QED BY <2>1, <2>2, TurnMoves
<1>2. ASSUME NEW a \in Agents, StimulusArrives(t, a)
      PROVE  AgentsInv' /\ StopStep
  <2> DEFINE s == [at |-> "thinking", agent |-> a, breaker |-> 0]
  <2>1. s \in TurnStates /\ s.at = "thinking" /\ s.agent \in Agents
    BY DEF TurnStates
  <2>2. /\ UNCHANGED <<safetyVars, lifeVars, breaker, spent, repeats, timerVars>>
        /\ turn' = [turn EXCEPT ![t] = s]
    BY <1>2 DEF StimulusArrives
  <2> HIDE DEF s
  <2> QED BY <2>1, <2>2, TurnMoves
<1> QED BY <1>1, <1>2

-----------------------------------------------------------------------------
(* Registrations and the network's own lifecycle.                          *)

LEMMA PendingIsFinite ==
    ASSUME NEW a
    PROVE  IsFiniteSet(Pending(a)) /\ Cardinality(Pending(a)) \in Nat
<1>1. Pending(a) \subseteq Registrars
  BY DEF Pending
<1> QED BY <1>1, AgentTurnsAssumption, FS_Subset, FS_CardinalityType

LEMMA RegisterBeginsHolds ==
    ASSUME AgentsInv, NEW r \in Registrars, NEW a \in Agents, RegisterBegins(r, a)
    PROVE  AgentsInv' /\ StopStep
<1>1. UNCHANGED <<safetyVars, running, active, gen, breakerOf, breaker, spent, repeats, timerVars, turn>>
  BY DEF RegisterBegins
<1>2. KillswitchStep
  BY <1>1, AgentsTyped, KillswitchFrame
<1>3. AgentsTypeOK'
  BY <1>1, <1>2, AgentsTyped DEF AgentsTypeOK, KillswitchStep, timerVars, RegisterBegins
<1>4. ActiveHasBreaker' /\ TimersTracked'
  BY <1>1, TimerFrame DEF AgentsInv, ActiveHasBreaker
<1>5. RegistrationsBounded'
  <2>1. Pending(a)' = Pending(a) \cup {r} /\ r \notin Pending(a)
    BY AgentsTyped, AgentTurnsAssumption DEF Pending, RegisterBegins, AgentsTypeOK
  <2>2. Cardinality(Pending(a)') = Cardinality(Pending(a)) + 1
    BY <2>1, PendingIsFinite, FS_AddElement
  <2>3. gen'[a] + Cardinality(Pending(a)') <= MaxGen
    BY <2>2, <1>1, PendingIsFinite, AgentsTyped, AgentTurnsAssumption DEF RegisterBegins, AgentsTypeOK
  <2>4. ASSUME NEW b \in Agents, b # a
        PROVE  Pending(b)' = Pending(b) /\ gen'[b] = gen[b]
    BY <2>4, <1>1, AgentsTyped, AgentTurnsAssumption DEF Pending, RegisterBegins, AgentsTypeOK
  <2> QED BY <2>3, <2>4 DEF AgentsInv, RegistrationsBounded
<1>6. \A b \in Agents : spent'[b] <= spent[b] /\ Calling(b)' \subseteq Calling(b)
  BY <1>1, AgentsTyped DEF Calling, AgentsTypeOK
<1> QED BY <1>2, <1>3, <1>4, <1>5, <1>6, StepWithoutCall

LEMMA RegisterEndsHolds ==
    ASSUME AgentsInv, NEW r \in Registrars, RegisterEnds(r)
    PROVE  AgentsInv' /\ StopStep
<1>1. UNCHANGED <<safetyVars, running, breaker, spent, repeats, timerVars, turn>>
  BY DEF RegisterEnds
<1>2. PICK a \in Agents :
      /\ a = registering[r]
      /\ registering' = [registering EXCEPT ![r] = NoAgent]
      /\ gen' = [gen EXCEPT ![a] = @ + 1]
      /\ breakerOf' = [breakerOf EXCEPT ![a] = gen[a] + 1]
      /\ active' = active \cup {a}
  BY AgentsTyped DEF RegisterEnds, AgentsTypeOK
<1>3. KillswitchStep
  BY <1>1, AgentsTyped, KillswitchFrame
<1>4. Pending(a)' = Pending(a) \ {r} /\ r \in Pending(a)
  BY <1>2, AgentsTyped, AgentTurnsAssumption DEF Pending, AgentsTypeOK
<1>5. Cardinality(Pending(a)') = Cardinality(Pending(a)) - 1
  BY <1>4, PendingIsFinite, FS_RemoveElement
<1>6. gen[a] + 1 \in Gens /\ gen[a] + Cardinality(Pending(a)) <= MaxGen /\ gen[a] \in Nat
  <2>1. Cardinality(Pending(a)) # 0
    BY <1>4, PendingIsFinite, FS_EmptySet
  <2>2. gen[a] + Cardinality(Pending(a)) <= MaxGen /\ gen[a] \in 0..MaxGen
    BY <1>2, AgentsTyped DEF AgentsInv, RegistrationsBounded, AgentsTypeOK
  <2> QED BY <2>1, <2>2, PendingIsFinite, AgentTurnsAssumption DEF Gens
<1>7. AgentsTypeOK'
  BY <1>1, <1>2, <1>3, <1>6, AgentsTyped, AgentTurnsAssumption
  DEF AgentsTypeOK, KillswitchStep, timerVars, Gens
<1>8. ActiveHasBreaker' /\ TimersTracked'
  <2>1. ActiveHasBreaker'
    BY <1>2, <1>6, AgentsTyped DEF AgentsInv, ActiveHasBreaker, AgentsTypeOK, Gens
  <2> QED BY <1>1, <2>1, TimerFrame
<1>9. RegistrationsBounded'
  <2>1. gen'[a] + Cardinality(Pending(a)') <= MaxGen
    BY <1>2, <1>5, <1>6, PendingIsFinite, AgentsTyped, AgentTurnsAssumption DEF AgentsTypeOK
  <2>2. ASSUME NEW b \in Agents, b # a
        PROVE  Pending(b)' = Pending(b) /\ gen'[b] = gen[b]
    BY <2>2, <1>2, AgentsTyped, AgentTurnsAssumption DEF Pending, AgentsTypeOK
  <2> QED BY <2>1, <2>2 DEF AgentsInv, RegistrationsBounded
<1>10. \A b \in Agents : spent'[b] <= spent[b] /\ Calling(b)' \subseteq Calling(b)
  BY <1>1, AgentsTyped DEF Calling, AgentsTypeOK
<1> QED BY <1>3, <1>7, <1>8, <1>9, <1>10, StepWithoutCall

LEMMA UnregisterHolds ==
    ASSUME AgentsInv, NEW a \in Agents, UnregisterCitizen(a)
    PROVE  AgentsInv' /\ StopStep
<1>1. UNCHANGED <<safetyVars, running, gen, registering, breaker, spent, turn>>
  BY DEF UnregisterCitizen
<1>2. KillswitchStep
  BY <1>1, AgentsTyped, KillswitchFrame
<1>3. AgentsTypeOK'
  BY <1>1, <1>2, AgentsTyped, AgentTurnsAssumption
  DEF AgentsTypeOK, KillswitchStep, UnregisterCitizen, Cancelled
<1>4. RegistrationsBounded' /\ ActiveHasBreaker'
  BY <1>1, AgentsTyped DEF AgentsInv, RegistrationsBounded, Pending, ActiveHasBreaker, UnregisterCitizen, AgentsTypeOK
<1>5. TimersTracked'
  BY AgentsTyped, AgentTurnsAssumption
  DEF AgentsInv, TimersTracked, UnregisterCitizen, Cancelled, AgentsTypeOK
<1>6. \A b \in Agents : spent'[b] <= spent[b] /\ Calling(b)' \subseteq Calling(b)
  BY <1>1, AgentsTyped DEF Calling, AgentsTypeOK
<1> QED BY <1>2, <1>3, <1>4, <1>5, <1>6, StepWithoutCall

LEMMA NetworkStepHolds ==
    ASSUME AgentsInv, StartNetwork \/ StopNetwork
    PROVE  AgentsInv' /\ StopStep
<1>1. UNCHANGED <<safetyVars, active, gen, registering, breakerOf, breaker, spent, repeats, turn>>
  BY DEF StartNetwork, StopNetwork
<1>2. KillswitchStep
  BY <1>1, AgentsTyped, KillswitchFrame
<1>3. ASSUME StartNetwork
      PROVE  AgentsTypeOK' /\ TimersTracked'
  <2>1. AgentsTypeOK'
    BY <1>1, <1>2, <1>3, AgentsTyped DEF AgentsTypeOK, KillswitchStep, StartNetwork, timerVars
  <2>2. TimersTracked'
    BY <1>3, TimerFrame DEF StartNetwork
  <2> QED BY <2>1, <2>2
<1>4. ASSUME StopNetwork
      PROVE  AgentsTypeOK' /\ TimersTracked'
  <2>1. AgentsTypeOK'
    BY <1>1, <1>2, <1>4, AgentsTyped DEF AgentsTypeOK, KillswitchStep, StopNetwork
  <2>2. TimersTracked'
    BY <1>4, AgentsTyped DEF AgentsInv, TimersTracked, StopNetwork, AgentsTypeOK
  <2> QED BY <2>1, <2>2
<1>5. RegistrationsBounded' /\ ActiveHasBreaker'
  BY <1>1 DEF AgentsInv, RegistrationsBounded, Pending, ActiveHasBreaker
<1>6. \A b \in Agents : spent'[b] <= spent[b] /\ Calling(b)' \subseteq Calling(b)
  BY <1>1, AgentsTyped DEF Calling, AgentsTypeOK
<1> QED BY <1>2, <1>3, <1>4, <1>5, <1>6, StepWithoutCall

-----------------------------------------------------------------------------
(* Stuck recovery.                                                         *)

LEMMA RecoveryFiresHolds ==
    ASSUME AgentsInv, NEW h \in Timers, RecoveryFires(h)
    PROVE  AgentsInv' /\ StopStep
<1>1. PICK a \in Agents : /\ a = armed[h]
                          /\ armed' = [armed EXCEPT ![h] = NoAgent]
                          /\ recovery' = [recovery EXCEPT ![a] = NoTimer]
  BY AgentsTyped DEF RecoveryFires, AgentsTypeOK
<1>2. UNCHANGED <<emergencyHalt, lifeVars, breaker, spent, turn>>
  BY DEF RecoveryFires
<1>3. KillswitchStep
  <2>1. CASE running
    <3>1. agentStates' = [agentStates EXCEPT ![a] = Resumed(agentStates[a])]
      BY <1>1, <2>1 DEF RecoveryFires
    <3>2. agentStates[a] \in AgentSafetyState /\ "stuck" \in Causes
          /\ (agentStates[a].stopped => agentStates[a].paused)
      BY AgentsTyped DEF SafetyTypeOK, StoppedIsPaused, Causes
    <3>3. /\ Resumed(agentStates[a]) \in AgentSafetyState
          /\ Resumed(agentStates[a]).stopped = agentStates[a].stopped
          /\ agentStates[a].stopped => Resumed(agentStates[a]) = agentStates[a]
      BY <3>2, KillswitchStates
    <3> HIDE DEF Resumed
    <3> QED BY <1>2, <3>1, <3>2, <3>3, AgentsTyped, KillswitchOne
  <2>2. CASE ~running
    BY <1>2, <2>2, AgentsTyped, KillswitchFrame DEF RecoveryFires, safetyVars
  <2> QED BY <2>1, <2>2
<1>4. repeats' \in [Agents -> 0..RepeatThreshold]
  BY <1>1, AgentsTyped, AgentTurnsAssumption DEF RecoveryFires, AgentsTypeOK
<1>5. AgentsTypeOK'
  BY <1>1, <1>2, <1>3, <1>4, AgentsTyped DEF AgentsTypeOK, KillswitchStep, lifeVars
<1>6. RegistrationsBounded' /\ ActiveHasBreaker'
  BY <1>2, LifeFrame
<1>7. TimersTracked'
  BY <1>1, AgentsTyped, AgentTurnsAssumption DEF AgentsInv, TimersTracked, AgentsTypeOK
<1>8. \A b \in Agents : spent'[b] <= spent[b] /\ Calling(b)' \subseteq Calling(b)
  BY <1>2, AgentsTyped DEF Calling, AgentsTypeOK
<1> QED BY <1>3, <1>5, <1>6, <1>7, <1>8, StepWithoutCall

(* Scheduling a's recovery arms one timer for it and clears the one before. *)
LEMMA ScheduleKeepsTimers ==
    ASSUME AgentsInv, NEW a \in Agents, ScheduleStuckRecovery(a)
    PROVE  /\ TimersTracked'
           /\ recovery' \in [Agents -> Timers \cup {NoTimer}]
           /\ armed' \in [Timers -> Agents \cup {NoAgent}]
<1>1. PICK h \in Timers : /\ Cancelled(a)[h] = NoAgent
                          /\ armed' = [Cancelled(a) EXCEPT ![h] = a]
                          /\ recovery' = [recovery EXCEPT ![a] = h]
  BY DEF ScheduleStuckRecovery
<1>2. \A k \in Timers : armed'[k] = IF k = h THEN a ELSE IF k = recovery[a] THEN NoAgent ELSE armed[k]
  BY <1>1 DEF Cancelled
<1>3. /\ recovery' \in [Agents -> Timers \cup {NoTimer}]
      /\ armed' \in [Timers -> Agents \cup {NoAgent}]
  BY <1>1, AgentsTyped DEF AgentsTypeOK, Cancelled
<1>4. TimersTracked'
  <2>1. h = recovery[a] \/ armed[h] = NoAgent
    BY <1>1 DEF Cancelled
  <2>2. ASSUME NEW k \in Timers, armed'[k] # NoAgent
        PROVE  recovery'[armed'[k]] = k
    BY <2>1, <2>2, <1>1, <1>2, AgentsTyped, AgentTurnsAssumption
    DEF AgentsInv, TimersTracked, AgentsTypeOK
  <2>3. ASSUME NEW b \in Agents, recovery'[b] # NoTimer
        PROVE  armed'[recovery'[b]] = b
    BY <2>1, <2>3, <1>1, <1>2, AgentsTyped, AgentTurnsAssumption
    DEF AgentsInv, TimersTracked, AgentsTypeOK
  <2> QED BY <2>2, <2>3 DEF TimersTracked
<1> QED BY <1>3, <1>4

-----------------------------------------------------------------------------
(* Calls.  One begins only below the cap, so one more call at the highest  *)
(* price stays within the bound; one that returns turns its share of the   *)
(* bound into cost.                                                        *)

LEMMA TurnCallsHolds ==
    ASSUME AgentsInv, NEW t \in Slots, TurnCalls(t)
    PROVE  AgentsInv' /\ StopStep
<1>1. UNCHANGED <<safetyVars, lifeVars, breaker, spent, repeats, timerVars>>
  BY DEF TurnCalls
<1>2. PICK a \in Agents : a = turn[t].agent /\ canAct(a) /\ canAfford(a) /\ turn[t].at = "thinking"
  BY AgentsTyped DEF TurnCalls, AgentsTypeOK
<1>3. turn' = [turn EXCEPT ![t] = [@ EXCEPT !.at = "calling", !.breaker = breakerOf[a]]]
  BY <1>2, AgentsTyped DEF TurnCalls, AgentsTypeOK, TurnStates
<1>4. KillswitchStep
  BY <1>1, AgentsTyped, KillswitchFrame
<1>5. AgentsTypeOK'
  <2>1. breakerOf[a] \in Gens \cup {0} /\ turn[t] \in TurnStates
    BY AgentsTyped DEF AgentsTypeOK
  <2>2. [turn[t] EXCEPT !.at = "calling", !.breaker = breakerOf[a]] \in TurnStates
    BY <2>1 DEF TurnStates
  <2>3. turn' \in [Slots -> TurnStates]
    BY <1>3, <2>2, AgentsTyped DEF AgentsTypeOK
  <2>4. \A q \in Slots : turn'[q].at # "idle" => turn'[q].agent \in Agents
    BY <1>2, <1>3, AgentsTyped DEF AgentsTypeOK, TurnStates
  <2> QED BY <1>1, <1>4, <2>3, <2>4, AgentsTyped
          DEF AgentsTypeOK, KillswitchStep, lifeVars, timerVars
<1>6. RegistrationsBounded' /\ ActiveHasBreaker' /\ TimersTracked'
  BY <1>1, LifeFrame, TimerFrame
<1>7. \A b \in Agents : b # a => Calling(b)' = Calling(b)
  BY <1>2, <1>3, AgentsTyped DEF Calling, AgentsTypeOK, TurnStates
<1>8. SpendBounded'
  <2> SUFFICES ASSUME NEW b \in Agents, NEW most \in Costs, \A c \in Costs : c <= most
               PROVE  spent'[b] + most * Cardinality(Calling(b)')
                      < CostCap + most * Cardinality(Slots)
    BY DEF SpendBounded
  <2>1. CASE b # a
    BY <1>1, <1>7, <2>1 DEF AgentsInv, SpendBounded
  <2>2. CASE b = a
    <3> DEFINE n == Cardinality(Calling(a)')
               k == Cardinality(Slots)
    <3>1. n \in Nat /\ k \in Nat /\ n <= k
      <4>1. Calling(a)' \subseteq Slots
        BY DEF Calling
      <4> QED BY <4>1, AgentTurnsAssumption, FS_Subset, FS_CardinalityType
    <3>2. most \in Nat /\ CostCap \in Nat /\ spent'[a] \in Nat /\ spent'[a] < CostCap
      BY <1>1, <1>2, AgentsTyped, AgentTurnsAssumption DEF canAfford, AgentsTypeOK
    <3> HIDE DEF n, k
    <3>3. most * n <= most * k /\ most * n \in Nat /\ most * k \in Nat
      BY <3>1, <3>2, SMTT(30)
    <3>4. spent'[a] + most * n < CostCap + most * k
      BY <3>2, <3>3
    <3> QED BY <2>2, <3>4 DEF n, k
  <2> QED BY <2>1, <2>2
<1>9. StopStep
  BY <1>2, <1>4, <1>7 DEF StopStep, KillswitchStep, canAct
<1> QED BY <1>4, <1>5, <1>6, <1>8, <1>9 DEF AgentsInv, KillswitchStep, StoppedIsPaused

(* What the end of a call does to the turns.                               *)
LEMMA CallOver ==
    ASSUME AgentsInv, NEW t \in Slots, NEW at \in {"thinking", "drafted"},
           turn[t].at = "calling",
           turn' = [turn EXCEPT ![t].at = at, ![t].breaker = 0]
    PROVE  /\ turn' \in [Slots -> TurnStates]
           /\ \A q \in Slots : turn'[q].at # "idle" => turn'[q].agent \in Agents
           /\ \A b \in Agents : Calling(b)' = Calling(b) \ {t}
           /\ t \in Calling(turn[t].agent)
<1>1. turn' = [turn EXCEPT ![t] = [@ EXCEPT !.at = at, !.breaker = 0]]
  BY AgentsTyped DEF AgentsTypeOK, TurnStates
<1>2. turn[t] \in TurnStates /\ turn[t].agent \in Agents
  BY AgentsTyped DEF AgentsTypeOK
<1>3. /\ [turn[t] EXCEPT !.at = at, !.breaker = 0] \in TurnStates
      /\ [turn[t] EXCEPT !.at = at, !.breaker = 0].at = at
      /\ [turn[t] EXCEPT !.at = at, !.breaker = 0].agent = turn[t].agent
  BY <1>2 DEF TurnStates
<1> DEFINE s == [turn[t] EXCEPT !.at = at, !.breaker = 0]
<1>4. PICK o : o = s
  OBVIOUS
<1>5. /\ turn' = [turn EXCEPT ![t] = o]
      /\ o \in TurnStates /\ o.at = at /\ o.agent \in Agents
  BY <1>1, <1>2, <1>3, <1>4
<1> QED BY <1>5, AgentsTyped DEF AgentsTypeOK, Calling

LEMMA CallFailsHolds ==
    ASSUME AgentsInv, NEW t \in Slots, CallFails(t)
    PROVE  AgentsInv' /\ StopStep
<1>1. UNCHANGED <<emergencyHalt, lifeVars, spent, repeats, timerVars>>
  BY DEF CallFails
<1>2. PICK a \in Agents : a = turn[t].agent
  BY AgentsTyped DEF CallFails, AgentsTypeOK
<1>3. /\ turn' \in [Slots -> TurnStates]
      /\ \A q \in Slots : turn'[q].at # "idle" => turn'[q].agent \in Agents
      /\ \A b \in Agents : Calling(b)' = Calling(b) \ {t}
  BY CallOver DEF CallFails
<1>4. agentStates[a] \in AgentSafetyState /\ "breaker" \in Causes
      /\ (agentStates[a].stopped => agentStates[a].paused)
  BY AgentsTyped DEF SafetyTypeOK, StoppedIsPaused, Causes
<1>5. KillswitchStep
  <2>1. PICK s \in {agentStates[a], Paused(agentStates[a], "breaker")} :
          agentStates' = [agentStates EXCEPT ![a] = s]
    BY <1>2, AgentsTyped DEF CallFails, SafetyTypeOK
  <2>2. /\ s \in AgentSafetyState
        /\ agentStates[a].stopped => s.stopped
        /\ s.stopped => s.paused
    BY <1>4, <2>1, KillswitchStates
  <2> QED BY <1>1, <2>1, <2>2, AgentsTyped, KillswitchOne
<1>6. breaker' \in [Agents -> [Gens -> Breakers]]
  <2>1. turn[t].breaker \in Gens \cup {0}
    BY AgentsTyped DEF AgentsTypeOK, TurnStates
  <2>2. CASE turn[t].breaker = 0
    BY <2>2, AgentsTyped DEF CallFails, AgentsTypeOK
  <2>3. CASE turn[t].breaker # 0
    <3>1. PICK g \in Gens : g = turn[t].breaker
      BY <2>1, <2>3
    <3>2. breaker[a][g] \in Breakers
      BY AgentsTyped DEF AgentsTypeOK
    <3>3. PICK b \in Breakers : b = AfterFailure(breaker[a][g])
      BY <3>2, BreakerStates
    <3>4. breaker' = [breaker EXCEPT ![a][g] = b]
      BY <1>2, <2>3, <3>1, <3>3 DEF CallFails
    <3> QED BY <3>4, AgentsTyped DEF AgentsTypeOK
  <2> QED BY <2>2, <2>3
<1>7. AgentsTypeOK'
  BY <1>1, <1>3, <1>5, <1>6, AgentsTyped DEF AgentsTypeOK, KillswitchStep, lifeVars, timerVars
<1>8. RegistrationsBounded' /\ ActiveHasBreaker' /\ TimersTracked'
  BY <1>1, LifeFrame, TimerFrame
<1>9. \A b \in Agents : spent'[b] <= spent[b] /\ Calling(b)' \subseteq Calling(b)
  BY <1>1, <1>3, AgentsTyped DEF AgentsTypeOK
<1> QED BY <1>5, <1>7, <1>8, <1>9, StepWithoutCall

LEMMA CallReturnsHolds ==
    ASSUME AgentsInv, NEW t \in Slots, CallReturns(t)
    PROVE  AgentsInv' /\ StopStep
<1>1. UNCHANGED <<emergencyHalt, lifeVars>>
  BY DEF CallReturns
<1>2. PICK a \in Agents : a = turn[t].agent
  BY AgentsTyped DEF CallReturns, AgentsTypeOK
<1>3. PICK cost \in Costs, out \in {"none", "new", "same"} :
        /\ \E at \in {"thinking", "drafted"} : turn' = [turn EXCEPT ![t].at = at, ![t].breaker = 0]
        /\ spent' = [spent EXCEPT ![a] = @ + cost]
        /\ repeats' = [repeats EXCEPT ![a] = Repeated(@, out)]
        /\ ScheduleStuckRecovery(a) \/ UNCHANGED timerVars
        /\ \E resumed \in {agentStates[a], Resumed(agentStates[a])} :
             \E charged \in {resumed, Paused(resumed, "cost")} :
               \E judged \in {charged, Paused(charged, "stuck")} :
                 agentStates' = [agentStates EXCEPT ![a] = judged]
  <2> DEFINE x == turn[t].agent
             g == turn[t].breaker
             closes == g # 0 /\ breaker[x][g].state = "half"
                       /\ AfterSuccess(breaker[x][g]) = NewBreaker
             resumed == IF closes THEN Resumed(agentStates[x]) ELSE agentStates[x]
             charged(c) == IF c > 0 /\ spent[x] + c >= CostCap THEN Paused(resumed, "cost") ELSE resumed
             stuck(o) == o # "none" /\ Repeated(repeats[x], o) >= RepeatThreshold
             judged(c, o) == IF stuck(o) THEN Paused(charged(c), "stuck") ELSE charged(c)
  <2>1. \E cost \in Costs, out \in {"none", "new", "same"} :
          /\ agentStates' = [agentStates EXCEPT ![x] = judged(cost, out)]
          /\ spent' = [spent EXCEPT ![x] = @ + cost]
          /\ repeats' = [repeats EXCEPT ![x] = Repeated(@, out)]
          /\ IF stuck(out) THEN ScheduleStuckRecovery(x) ELSE UNCHANGED timerVars
          /\ \E at \in {"thinking"} \cup (IF out = "none" THEN {} ELSE {"drafted"}) :
               turn' = [turn EXCEPT ![t].at = at, ![t].breaker = 0]
    BY DEF CallReturns
  <2>2. PICK cost \in Costs, out \in {"none", "new", "same"} :
          /\ agentStates' = [agentStates EXCEPT ![x] = judged(cost, out)]
          /\ spent' = [spent EXCEPT ![x] = @ + cost]
          /\ repeats' = [repeats EXCEPT ![x] = Repeated(@, out)]
          /\ IF stuck(out) THEN ScheduleStuckRecovery(x) ELSE UNCHANGED timerVars
          /\ \E at \in {"thinking"} \cup (IF out = "none" THEN {} ELSE {"drafted"}) :
               turn' = [turn EXCEPT ![t].at = at, ![t].breaker = 0]
    BY <2>1
  <2>3. \E at \in {"thinking", "drafted"} : turn' = [turn EXCEPT ![t].at = at, ![t].breaker = 0]
    BY <2>2
  <2>4. ScheduleStuckRecovery(a) \/ UNCHANGED timerVars
    BY <1>2, <2>2
  <2>5. /\ resumed \in {agentStates[x], Resumed(agentStates[x])}
        /\ charged(cost) \in {resumed, Paused(resumed, "cost")}
        /\ judged(cost, out) \in {charged(cost), Paused(charged(cost), "stuck")}
    OBVIOUS
  <2> HIDE DEF resumed, charged, judged, stuck
  <2>6. \E r \in {agentStates[a], Resumed(agentStates[a])} :
          \E c \in {r, Paused(r, "cost")} :
            \E j \in {c, Paused(c, "stuck")} : agentStates' = [agentStates EXCEPT ![a] = j]
    BY <1>2, <2>2, <2>5
  <2>7. spent' = [spent EXCEPT ![a] = @ + cost] /\ repeats' = [repeats EXCEPT ![a] = Repeated(@, out)]
    BY <1>2, <2>2
  <2> QED BY <2>3, <2>4, <2>6, <2>7
<1>4. /\ turn' \in [Slots -> TurnStates]
      /\ \A q \in Slots : turn'[q].at # "idle" => turn'[q].agent \in Agents
      /\ \A b \in Agents : Calling(b)' = Calling(b) \ {t}
      /\ t \in Calling(a)
  BY <1>2, <1>3, CallOver DEF CallReturns
<1>5. KillswitchStep
  <2>1. agentStates[a] \in AgentSafetyState /\ "cost" \in Causes /\ "stuck" \in Causes
        /\ (agentStates[a].stopped => agentStates[a].paused)
    BY AgentsTyped DEF SafetyTypeOK, StoppedIsPaused, Causes
  <2>2. PICK resumed \in {agentStates[a], Resumed(agentStates[a])} :
          \E charged \in {resumed, Paused(resumed, "cost")} :
            \E judged \in {charged, Paused(charged, "stuck")} :
              agentStates' = [agentStates EXCEPT ![a] = judged]
    BY <1>3
  <2>3. /\ resumed \in AgentSafetyState
        /\ resumed.stopped = agentStates[a].stopped
        /\ resumed.stopped => resumed.paused
    BY <2>1, KillswitchStates
  <2>4. PICK charged \in {resumed, Paused(resumed, "cost")} :
          \E judged \in {charged, Paused(charged, "stuck")} :
            agentStates' = [agentStates EXCEPT ![a] = judged]
    BY <2>2
  <2>5. /\ charged \in AgentSafetyState
        /\ charged.stopped = agentStates[a].stopped
        /\ charged.stopped => charged.paused
    <3>1. /\ Paused(resumed, "cost") \in AgentSafetyState
          /\ Paused(resumed, "cost").paused
          /\ Paused(resumed, "cost").stopped = resumed.stopped
      BY <2>1, <2>3, KillswitchStates
    <3> QED BY <2>3, <3>1, <2>4
  <2>6. PICK judged \in {charged, Paused(charged, "stuck")} :
          agentStates' = [agentStates EXCEPT ![a] = judged]
    BY <2>4
  <2>7. /\ judged \in AgentSafetyState
        /\ judged.stopped = agentStates[a].stopped
        /\ judged.stopped => judged.paused
    <3>1. /\ Paused(charged, "stuck") \in AgentSafetyState
          /\ Paused(charged, "stuck").paused
          /\ Paused(charged, "stuck").stopped = charged.stopped
      BY <2>1, <2>5, KillswitchStates
    <3> QED BY <2>5, <3>1, <2>6
  <2> QED BY <1>1, <2>6, <2>7, AgentsTyped, KillswitchOne
<1>6. breaker' \in [Agents -> [Gens -> Breakers]]
  <2>1. turn[t].breaker \in Gens \cup {0}
    BY AgentsTyped DEF AgentsTypeOK, TurnStates
  <2>2. CASE turn[t].breaker = 0
    BY <2>2, AgentsTyped DEF CallReturns, AgentsTypeOK
  <2>3. CASE turn[t].breaker # 0
    <3>1. PICK g \in Gens : g = turn[t].breaker
      BY <2>1, <2>3
    <3>2. breaker[a][g] \in Breakers
      BY AgentsTyped DEF AgentsTypeOK
    <3>3. PICK b \in Breakers : b = AfterSuccess(breaker[a][g])
      BY <3>2, BreakerStates
    <3>4. breaker' = [breaker EXCEPT ![a][g] = b]
      BY <1>2, <2>3, <3>1, <3>3 DEF CallReturns
    <3> QED BY <3>4, AgentsTyped DEF AgentsTypeOK
  <2> QED BY <2>2, <2>3
<1>7. TimersTracked' /\ recovery' \in [Agents -> Timers \cup {NoTimer}]
      /\ armed' \in [Timers -> Agents \cup {NoAgent}]
  <2>1. CASE ScheduleStuckRecovery(a)
    BY <2>1, ScheduleKeepsTimers
  <2>2. CASE UNCHANGED timerVars
    BY <2>2, TimerFrame, AgentsTyped DEF timerVars, AgentsTypeOK
  <2> QED BY <1>3, <2>1, <2>2
<1>8. spent' \in [Agents -> Nat] /\ repeats' \in [Agents -> 0..RepeatThreshold]
  <2>1. repeats[a] \in 0..RepeatThreshold /\ spent[a] + cost \in Nat
    BY AgentsTyped, AgentTurnsAssumption DEF AgentsTypeOK
  <2>2. Repeated(repeats[a], out) \in 0..RepeatThreshold
    BY <2>1, RepeatCounts
  <2> QED BY <1>3, <2>1, <2>2, AgentsTyped DEF AgentsTypeOK
<1>9. AgentsTypeOK'
  BY <1>1, <1>4, <1>5, <1>6, <1>7, <1>8, AgentsTyped DEF AgentsTypeOK, KillswitchStep, lifeVars
<1>10. RegistrationsBounded' /\ ActiveHasBreaker'
  BY <1>1, LifeFrame
<1>11. SpendBounded'
  <2> SUFFICES ASSUME NEW b \in Agents, NEW most \in Costs, \A c \in Costs : c <= most
               PROVE  spent'[b] + most * Cardinality(Calling(b)')
                      < CostCap + most * Cardinality(Slots)
    BY DEF SpendBounded
  <2>1. CASE b # a
    <3>1. Calling(b)' = Calling(b) /\ spent'[b] = spent[b]
      BY <1>2, <1>3, <1>4, <2>1, AgentsTyped DEF Calling, AgentsTypeOK
    <3> QED BY <3>1 DEF AgentsInv, SpendBounded
  <2>2. CASE b = a
    <3> DEFINE m == Cardinality(Calling(a))
               n == Cardinality(Calling(a)')
               k == Cardinality(Slots)
    <3>1. m \in Nat /\ n \in Nat /\ k \in Nat /\ n = m - 1
      <4>1. Calling(a)' = Calling(a) \ {t}
        BY <1>4
      <4>2. IsFiniteSet(Calling(a)) /\ m \in Nat /\ k \in Nat
        BY CallingIsFinite
      <4>3. IsFiniteSet(Calling(a) \ {t}) /\ Cardinality(Calling(a) \ {t}) = m - 1
        BY <1>4, <4>2, FS_RemoveElement
      <4>4. Cardinality(Calling(a) \ {t}) \in Nat
        BY <4>3, FS_CardinalityType
      <4> QED BY <4>1, <4>2, <4>3, <4>4
    <3>2. most \in Nat /\ cost \in Nat /\ cost <= most /\ CostCap \in Nat /\ spent[a] \in Nat
          /\ spent'[a] = spent[a] + cost
      BY <1>3, AgentsTyped, AgentTurnsAssumption DEF AgentsTypeOK
    <3>3. spent[a] + most * m < CostCap + most * k
      BY DEF AgentsInv, SpendBounded
    <3> HIDE DEF m, n, k
    <3>4. most * m = most * n + most /\ most * n \in Nat /\ most * k \in Nat
      BY <3>1, <3>2, SMTT(30)
    <3>5. spent'[a] + most * n < CostCap + most * k
      BY <3>2, <3>3, <3>4
    <3> QED BY <2>2, <3>5 DEF n, k
  <2> QED BY <2>1, <2>2
<1>12. StopStep
  BY <1>4, <1>5 DEF StopStep, KillswitchStep
<1> QED BY <1>5, <1>7, <1>9, <1>10, <1>11, <1>12 DEF AgentsInv, KillswitchStep, StoppedIsPaused

-----------------------------------------------------------------------------
(* The initial states and a step in which nothing moves.                   *)

LEMMA InitHolds == Init => AgentsInv
<1> SUFFICES ASSUME Init PROVE AgentsInv
  OBVIOUS
<1> USE AgentTurnsAssumption
<1>1. AgentsTypeOK
  <2>1. SafetyTypeOK
    BY DEF Init, SafetyInit, ActiveState, SafetyTypeOK, AgentSafetyState
  <2>2. breaker \in [Agents -> [Gens -> Breakers]]
    BY DEF Init, NewBreaker, Breakers
  <2>3. turn \in [Slots -> TurnStates] /\ \A t \in Slots : turn[t].at = "idle"
    BY DEF Init, IdleTurn, TurnStates
  <2>4. 0 \in 0..MaxGen /\ 0 \in 0..RepeatThreshold
    OBVIOUS
  <2> QED BY <2>1, <2>2, <2>3, <2>4 DEF Init, AgentsTypeOK
<1>2. RegistrationsBounded
  <2> SUFFICES ASSUME NEW a \in Agents PROVE gen[a] + Cardinality(Pending(a)) <= MaxGen
    BY DEF RegistrationsBounded
  <2>1. Pending(a) = {}
    BY DEF Init, Pending
  <2> QED BY <2>1, FS_EmptySet DEF Init
<1>3. StoppedIsPaused /\ TimersTracked /\ ActiveHasBreaker
  BY DEF Init, SafetyInit, ActiveState, StoppedIsPaused, TimersTracked, ActiveHasBreaker
<1>4. SpendBounded
  <2> SUFFICES ASSUME NEW a \in Agents, NEW most \in Costs
               PROVE  spent[a] + most * Cardinality(Calling(a)) < CostCap + most * Cardinality(Slots)
    BY DEF SpendBounded
  <2>1. Calling(a) = {}
    BY DEF Init, Calling, IdleTurn
  <2>2. Cardinality(Calling(a)) = 0 /\ spent[a] = 0 /\ most \in Nat /\ Cardinality(Slots) \in Nat
    BY <2>1, FS_EmptySet, CallingIsFinite DEF Init
  <2>3. most * Cardinality(Calling(a)) = 0 /\ most * Cardinality(Slots) \in Nat
    BY <2>2
  <2> QED BY <2>2, <2>3
<1> QED BY <1>1, <1>2, <1>3, <1>4 DEF AgentsInv

LEMMA StutterHolds == AgentsInv /\ UNCHANGED vars => AgentsInv' /\ StopStep
<1> SUFFICES ASSUME AgentsInv, UNCHANGED vars PROVE AgentsInv' /\ StopStep
  OBVIOUS
<1>1. KillswitchStep
  BY AgentsTyped, KillswitchFrame DEF vars
<1>2. AgentsTypeOK'
  BY <1>1, AgentsTyped DEF AgentsTypeOK, KillswitchStep, vars, agentVars, lifeVars, timerVars
<1>3. RegistrationsBounded' /\ ActiveHasBreaker' /\ TimersTracked'
  BY LifeFrame, TimerFrame DEF vars, agentVars
<1>4. \A b \in Agents : spent'[b] <= spent[b] /\ Calling(b)' \subseteq Calling(b)
  BY AgentsTyped DEF vars, agentVars, Calling, AgentsTypeOK
<1> QED BY <1>1, <1>2, <1>3, <1>4, StepWithoutCall

LEMMA StepHolds == AgentsInv /\ [Next]_vars => AgentsInv' /\ StopStep
<1> SUFFICES ASSUME AgentsInv, [Next]_vars PROVE AgentsInv' /\ StopStep
  OBVIOUS
<1>1. CASE ModeratorActs /\ UNCHANGED agentVars
  BY <1>1, ModeratorStepHolds
<1>2. CASE StartNetwork \/ StopNetwork
  BY <1>2, NetworkStepHolds
<1>3. ASSUME NEW a \in Agents, UnregisterCitizen(a) \/ CostWindowEnds(a)
      PROVE  AgentsInv' /\ StopStep
  BY <1>3, UnregisterHolds, CostWindowHolds
<1>4. ASSUME NEW a \in Agents, NEW r \in Registrars, RegisterBegins(r, a)
      PROVE  AgentsInv' /\ StopStep
  BY <1>4, RegisterBeginsHolds
<1>5. ASSUME NEW a \in Agents, NEW t \in Slots, StimulusArrives(t, a)
      PROVE  AgentsInv' /\ StopStep
  BY <1>5, TurnStepHolds
<1>6. ASSUME NEW a \in Agents, NEW g \in Gens, BreakerCools(a, g) \/ FailuresExpire(a, g)
      PROVE  AgentsInv' /\ StopStep
  BY <1>6, BreakerClockHolds
<1>7. ASSUME NEW r \in Registrars, RegisterEnds(r)
      PROVE  AgentsInv' /\ StopStep
  BY <1>7, RegisterEndsHolds
<1>8. ASSUME NEW h \in Timers, RecoveryFires(h)
      PROVE  AgentsInv' /\ StopStep
  BY <1>8, RecoveryFiresHolds
<1>9. ASSUME NEW t \in Slots, TurnCalls(t)
      PROVE  AgentsInv' /\ StopStep
  BY <1>9, TurnCallsHolds
<1>10. ASSUME NEW t \in Slots, CallReturns(t) \/ CallFails(t)
       PROVE  AgentsInv' /\ StopStep
  BY <1>10, CallReturnsHolds, CallFailsHolds
<1>11. ASSUME NEW t \in Slots, Publish(t) \/ TurnEnds(t)
       PROVE  AgentsInv' /\ StopStep
  BY <1>11, TurnStepHolds
<1>12. CASE UNCHANGED vars
  BY <1>12, StutterHolds
<1> QED BY <1>1, <1>2, <1>3, <1>4, <1>5, <1>6, <1>7, <1>8, <1>9, <1>10, <1>11, <1>12 DEF Next

-----------------------------------------------------------------------------
(* The invariant AgentTurns is checked against holds for any agents,       *)
(* turns, registrations, timers, thresholds and costs.                     *)
THEOREM AgentsInvariant == Spec => []AgentsInv
<1>1. AgentsInv /\ [Next]_vars => AgentsInv'
  BY StepHolds
<1> QED BY <1>1, InitHolds, PTL DEF Spec

(* The handles of stuckRecoveryTimers are exactly the timeouts that can    *)
(* still resume an agent: unregistering and stop() leave none behind.      *)
THEOREM TimersStayTracked == Spec => []TimersTracked
<1>1. AgentsInv => TimersTracked
  BY DEF AgentsInv
<1> QED BY <1>1, AgentsInvariant, PTL

(* Whatever registrations and unregistrations overlap, an active citizen   *)
(* has the breaker its last registration made.                             *)
THEOREM ActiveCitizensHaveBreakers == Spec => []ActiveHasBreaker
<1>1. AgentsInv => ActiveHasBreaker
  BY DEF AgentsInv
<1> QED BY <1>1, AgentsInvariant, PTL

(* An agent's spending overshoots its cap by less than one call for each   *)
(* turn that can be under way, however its calls overlap.                  *)
THEOREM SpendingStaysBounded == Spec => []SpendBounded
<1>1. AgentsInv => SpendBounded
  BY DEF AgentsInv
<1> QED BY <1>1, AgentsInvariant, PTL

(* stopAgent is final: a stopped agent stays stopped and paused and begins *)
(* no further call, whoever resumes, re-registers or recovers it.          *)
THEOREM StopIsFinal == Spec => StoppedForGood
<1>1. AgentsInv /\ [Next]_vars
      => [\A a \in Agents : agentStates[a].stopped
           => /\ agentStates'[a].stopped /\ agentStates'[a].paused
              /\ Calling(a)' \subseteq Calling(a)]_vars
  BY StepHolds DEF StopStep
<1> QED BY <1>1, AgentsInvariant, PTL DEF Spec, StoppedForGood

-----------------------------------------------------------------------------
(* The registries of the enclaves.                                         *)

Shapes == [enclaves : SUBSET EnclaveNames, members : SUBSET (EnclaveNames \X Seeds),
           subscriptions : SUBSET (Seeds \X EnclaveNames),
           moderators : SUBSET (Seeds \X EnclaveNames)]

Founded(r) == \A p \in r.subscriptions \cup r.moderators : p[2] \in r.enclaves

Registry == {r \in Shapes : Mirrored(r) /\ Founded(r)}

(* The inductive invariant: the citizens are needed for the final welcome. *)
EnclavesInd == residents \in Seq(Residents) /\ registries \in [Inits -> Registry]

-----------------------------------------------------------------------------
(* The operations of a registry.                                           *)
LEMMA TurnedPairs ==
    ASSUME NEW pairs \in SUBSET (Seeds \X EnclaveNames)
    PROVE  /\ Turned(pairs) \subseteq EnclaveNames \X Seeds
           /\ \A c \in Seeds, n \in EnclaveNames : <<n, c>> \in Turned(pairs) <=> <<c, n>> \in pairs
BY DEF Turned

LEMMA SubscribeKeeps ==
    ASSUME NEW r \in Registry, NEW pairs \in SUBSET (Seeds \X EnclaveNames)
    PROVE  Subscribe(r, pairs) \in Registry
<1> DEFINE new == {p \in pairs : p[2] \in r.enclaves /\ <<p[2], p[1]>> \notin r.members}
           s == [r EXCEPT !.members = @ \cup Turned(new), !.subscriptions = @ \cup new]
<1>1. new \in SUBSET (Seeds \X EnclaveNames) /\ \A p \in new : p[2] \in r.enclaves
  OBVIOUS
<1>2. r \in Shapes /\ Mirrored(r) /\ Founded(r)
  BY DEF Registry
<1> HIDE DEF new
<1>3. s \in Shapes /\ s.enclaves = r.enclaves /\ s.moderators = r.moderators
      /\ s.members = r.members \cup Turned(new) /\ s.subscriptions = r.subscriptions \cup new
  BY <1>1, <1>2, TurnedPairs DEF Shapes
<1>4. Mirrored(s)
  BY <1>1, <1>2, <1>3, TurnedPairs DEF Mirrored
<1>5. Founded(s)
  BY <1>1, <1>2, <1>3 DEF Founded
<1>6. Subscribe(r, pairs) = s
  BY DEF Subscribe, new
<1> QED BY <1>3, <1>4, <1>5, <1>6 DEF Registry

LEMMA UnsubscribeKeeps ==
    ASSUME NEW r \in Registry, NEW pairs \in SUBSET (Seeds \X EnclaveNames)
    PROVE  Unsubscribe(r, pairs) \in Registry
<1> DEFINE gone == {p \in pairs : <<p[2], p[1]>> \in r.members}
           s == [r EXCEPT !.members = @ \ Turned(gone), !.subscriptions = @ \ gone]
<1>1. gone \in SUBSET (Seeds \X EnclaveNames)
  OBVIOUS
<1>2. r \in Shapes /\ Mirrored(r) /\ Founded(r)
  BY DEF Registry
<1> HIDE DEF gone
<1>3. s \in Shapes /\ s.enclaves = r.enclaves /\ s.moderators = r.moderators
      /\ s.members = r.members \ Turned(gone) /\ s.subscriptions = r.subscriptions \ gone
  BY <1>2 DEF Shapes
<1>4. Mirrored(s)
  BY <1>1, <1>2, <1>3, TurnedPairs DEF Mirrored
<1>5. Founded(s)
  BY <1>2, <1>3 DEF Founded
<1>6. Unsubscribe(r, pairs) = s
  BY DEF Unsubscribe, gone
<1> QED BY <1>3, <1>4, <1>5, <1>6 DEF Registry

(* New enclaves without members: what is common to creating and loading.   *)
LEMMA NewEnclavesKeep ==
    ASSUME NEW r \in Registry, NEW new \in SUBSET EnclaveNames, new \cap r.enclaves = {}
    PROVE  [r EXCEPT !.enclaves = @ \cup new, !.members = {m \in @ : m[1] \notin new}] \in Registry
<1> DEFINE s == [r EXCEPT !.enclaves = @ \cup new, !.members = {m \in @ : m[1] \notin new}]
<1>1. r \in Shapes /\ Mirrored(r) /\ Founded(r)
  BY DEF Registry
<1>2. \A m \in r.members : m[1] \in r.enclaves
  <2> SUFFICES ASSUME NEW n \in EnclaveNames, NEW c \in Seeds, <<n, c>> \in r.members
               PROVE  n \in r.enclaves
    BY <1>1 DEF Shapes
  <2>1. <<c, n>> \in r.subscriptions
    BY <1>1 DEF Mirrored
  <2> QED BY <2>1, <1>1 DEF Founded
<1>3. s \in Shapes /\ s.enclaves = r.enclaves \cup new /\ s.moderators = r.moderators
      /\ s.members = r.members /\ s.subscriptions = r.subscriptions
  BY <1>1, <1>2 DEF Shapes
<1>4. Mirrored(s) /\ Founded(s)
  BY <1>1, <1>3 DEF Mirrored, Founded
<1> QED BY <1>3, <1>4 DEF Registry

LEMMA CreateEnclaveKeeps ==
    ASSUME NEW r \in Registry, NEW n \in EnclaveNames, n \notin r.enclaves, NEW c \in Seeds
    PROVE  CreateEnclave(r, n, c) \in Registry
<1> DEFINE s == [r EXCEPT !.enclaves = @ \cup {n}, !.members = {m \in @ : m[1] \notin {n}}]
<1> DEFINE new == {n}
<1>0. new \in SUBSET EnclaveNames /\ new \cap r.enclaves = {}
  OBVIOUS
<1>1. s \in Registry
  <2> HIDE DEF new
  <2>1. [r EXCEPT !.enclaves = @ \cup new, !.members = {m \in @ : m[1] \notin new}] \in Registry
    BY <1>0, NewEnclavesKeep
  <2> QED BY <2>1 DEF new
<1>2. CreateEnclave(r, n, c) = Subscribe(s, {<<c, n>>})
  BY DEF CreateEnclave
<1> HIDE DEF s
<1> QED BY <1>1, <1>2, SubscribeKeeps

LEMMA CreateDefaultsKeeps ==
    ASSUME NEW r \in Registry
    PROVE  CreateDefaults(r) \in Registry
<1> DEFINE new == Defaults \ r.enclaves
           s == [r EXCEPT !.enclaves = @ \cup new, !.members = {m \in @ : m[1] \notin new}]
           pairs == {<<Curator, n>> : n \in new}
<1>1. new \in SUBSET EnclaveNames /\ new \cap r.enclaves = {}
  BY EnclavesAssumption
<1>2. CreateDefaults(r) = Subscribe(s, pairs)
  BY DEF CreateDefaults
<1>3. pairs \in SUBSET (Seeds \X EnclaveNames)
  BY <1>1 DEF Seeds
<1> HIDE DEF new, pairs
<1>4. s \in Registry
  BY <1>1, NewEnclavesKeep
<1> HIDE DEF s
<1> QED BY <1>2, <1>3, <1>4, SubscribeKeeps

LEMMA LoadEnclavesKeeps ==
    ASSUME NEW r \in Registry, NEW names \in SUBSET EnclaveNames
    PROVE  LoadEnclaves(r, names) \in Registry
<1> DEFINE new == names \ r.enclaves
<1>1. new \in SUBSET EnclaveNames /\ new \cap r.enclaves = {}
  OBVIOUS
<1>2. LoadEnclaves(r, names)
      = [r EXCEPT !.enclaves = @ \cup new, !.members = {m \in @ : m[1] \notin new}]
  BY DEF LoadEnclaves
<1> HIDE DEF new
<1> QED BY <1>1, <1>2, NewEnclavesKeep

LEMMA LoadMembershipsKeeps ==
    ASSUME NEW r \in Registry, NEW pairs \in SUBSET (Seeds \X EnclaveNames)
    PROVE  LoadMemberships(r, pairs) \in Registry
<1> DEFINE known == {p \in pairs : p[2] \in r.enclaves}
           s == [r EXCEPT !.members = @ \cup Turned(known), !.subscriptions = @ \cup known]
<1>1. known \in SUBSET (Seeds \X EnclaveNames) /\ \A p \in known : p[2] \in r.enclaves
  OBVIOUS
<1>2. r \in Shapes /\ Mirrored(r) /\ Founded(r)
  BY DEF Registry
<1>3. LoadMemberships(r, pairs) = s
  BY DEF LoadMemberships
<1> HIDE DEF known
<1>4. s \in Shapes /\ s.enclaves = r.enclaves /\ s.moderators = r.moderators
      /\ s.members = r.members \cup Turned(known) /\ s.subscriptions = r.subscriptions \cup known
  BY <1>1, <1>2, TurnedPairs DEF Shapes
<1>5. Mirrored(s)
  BY <1>1, <1>2, <1>4, TurnedPairs DEF Mirrored
<1>6. Founded(s)
  BY <1>1, <1>2, <1>4 DEF Founded
<1> QED BY <1>3, <1>4, <1>5, <1>6 DEF Registry

LEMMA WelcomeKeeps ==
    ASSUME NEW r \in Registry, NEW seeds \in SUBSET Residents
    PROVE  Welcome(r, seeds) \in Registry
<1> DEFINE pairs == {p \in Interests : p[1] \in seeds} \cup (seeds \X {Introductions})
<1>1. pairs \in SUBSET (Seeds \X EnclaveNames)
  BY EnclavesAssumption DEF Seeds
<1>2. Welcome(r, seeds) = Subscribe(r, pairs)
  BY DEF Welcome
<1> HIDE DEF pairs
<1> QED BY <1>1, <1>2, SubscribeKeeps

-----------------------------------------------------------------------------
(* The steps.                                                              *)
LEMMA GoesOnKeeps ==
    ASSUME NEW i, NEW k, NEW regs \in [Inits -> Registry], NEW engine,
           residents \in Seq(Residents), GoesOn(i, k, regs, engine)
    PROVE  registries' \in [Inits -> Registry]
<1>1. CASE k <= Len(residents)
  BY <1>1 DEF GoesOn
<1>2. CASE ~(k <= Len(residents))
  <2> DEFINE welcomed(r) == Welcome(r, ToSet(residents))
  <2>1. ToSet(residents) \in SUBSET Residents
    BY DEF ToSet
  <2>2. \A r \in Registry : welcomed(r) \in Registry
    BY <2>1, WelcomeKeeps
  <2>3. registries' = [regs EXCEPT ![engine] = welcomed(regs[engine])]
    BY <1>2 DEF GoesOn
  <2> HIDE DEF welcomed
  <2> QED BY <2>2, <2>3
<1> QED BY <1>1, <1>2

LEMMA SetsUpKeeps ==
    ASSUME NEW i, NEW regs \in [Inits -> Registry], NEW engine,
           residents \in Seq(Residents), SetsUp(i, regs, engine)
    PROVE  registries' \in [Inits -> Registry]
<1> DEFINE ready == [regs EXCEPT ![engine] = CreateDefaults(regs[engine])]
<1>1. ready \in [Inits -> Registry]
  BY CreateDefaultsKeeps
<1>2. GoesOn(i, 1, ready, engine)
  BY DEF SetsUp
<1> HIDE DEF ready
<1> QED BY <1>1, <1>2, GoesOnKeeps

LEMMA EnclavesStep ==
    ASSUME EnclavesInd, [EnclavesNext]_enclaveVars
    PROVE  EnclavesInd'
<1> USE DEF EnclavesInd
<1>1. CASE \E i \in Inits : InitializeEnclaveSystem(i)
  <2> PICK i \in Inits : InitializeEnclaveSystem(i)
    BY <1>1
  <2>1. CASE enclaveStore
    BY <2>1 DEF InitializeEnclaveSystem
  <2>2. CASE ~enclaveStore
    BY <2>2, SetsUpKeeps DEF InitializeEnclaveSystem
  <2> QED BY <2>1, <2>2
<1>2. CASE \E i \in Inits : EnclavesLoaded(i)
  <2> PICK i \in Inits : EnclavesLoaded(i)
    BY <1>2
  <2>1. PICK names \in SUBSET {p[2] : p \in Stored} :
            registries' = [registries EXCEPT ![i] = LoadEnclaves(@, names)]
    BY DEF EnclavesLoaded
  <2>2. names \in SUBSET EnclaveNames
    BY EnclavesAssumption
  <2>3. LoadEnclaves(registries[i], names) \in Registry
    BY <2>2, LoadEnclavesKeeps
  <2> QED BY <2>1, <2>3 DEF EnclavesLoaded
<1>3. CASE \E i \in Inits : MembershipsLoaded(i)
  <2> PICK i \in Inits : MembershipsLoaded(i)
    BY <1>3
  <2>1. PICK pairs \in SUBSET Stored :
            SetsUp(i, [registries EXCEPT ![i] = LoadMemberships(@, pairs)], current)
    BY DEF MembershipsLoaded
  <2> DEFINE regs == [registries EXCEPT ![i] = LoadMemberships(@, pairs)]
  <2>2. pairs \in SUBSET (Seeds \X EnclaveNames)
    BY EnclavesAssumption DEF Seeds
  <2>3. regs \in [Inits -> Registry]
    BY <2>2, LoadMembershipsKeeps
  <2>4. SetsUp(i, regs, current)
    BY <2>1
  <2> HIDE DEF regs
  <2>5. registries' \in [Inits -> Registry]
    BY <2>3, <2>4, SetsUpKeeps
  <2> QED BY <2>5 DEF MembershipsLoaded
<1>4. CASE \E i \in Inits, loaded \in BOOLEAN : MoodAnswered(i, loaded)
  <2> PICK i \in Inits, loaded \in BOOLEAN : MoodAnswered(i, loaded)
    BY <1>4
  <2>1. GoesOn(i, initCursor[i] + 1, registries, current) /\ residents' = residents
    BY DEF MoodAnswered
  <2> QED BY <2>1, GoesOnKeeps
<1>5. CASE \E i \in Inits : InitializationFails(i)
  BY <1>5 DEF InitializationFails
<1>6. CASE \E c \in Residents : RegisterResident(c)
  <2> PICK c \in Residents : RegisterResident(c)
    BY <1>6
  <2>1. residents' \in Seq(Residents)
    BY DEF RegisterResident, JoinsMap
  <2>2. \A r \in Registry : Welcome(r, {c}) \in Registry
    BY WelcomeKeeps
  <2>3. registries' \in [Inits -> Registry]
    <3>1. CASE initialized
      BY <2>2, <3>1 DEF RegisterResident
    <3>2. CASE ~initialized
      BY <3>2 DEF RegisterResident
    <3> QED BY <3>1, <3>2
  <2> QED BY <2>1, <2>3
<1>7. CASE \E c \in Residents : UnregisterResident(c)
  BY <1>7 DEF UnregisterResident
<1>8. CASE \E c \in Residents, n \in EnclaveNames : TryCreateAgentEnclave(c, n)
  <2> PICK c \in Residents, n \in EnclaveNames : TryCreateAgentEnclave(c, n)
    BY <1>8
  <2>1. PICK best \in IF Matches(n) = {} THEN {n} ELSE Matches(n) :
            registries' = [registries EXCEPT ![current] =
                IF Matches(n) = {} /\ Full THEN @
                ELSE IF Creates(n) THEN CreateEnclave(@, n, c) ELSE Subscribe(@, {<<c, best>>})]
    BY DEF TryCreateAgentEnclave
  <2>2. ASSUME current \in Inits PROVE best \in EnclaveNames
    BY <2>1, <2>2 DEF Matches, Registry, Shapes
  <2>3. ASSUME current \in Inits PROVE Subscribe(registries[current], {<<c, best>>}) \in Registry
    BY <2>2, <2>3, SubscribeKeeps DEF Seeds
  <2>4. ASSUME current \in Inits, Creates(n) PROVE CreateEnclave(registries[current], n, c) \in Registry
    BY <2>4, CreateEnclaveKeeps DEF Seeds, Creates
  <2>5. registries' \in [Inits -> Registry]
    <3>1. CASE Matches(n) = {} /\ Full
      BY <2>1, <3>1
    <3>2. CASE ~(Matches(n) = {} /\ Full) /\ Creates(n)
      BY <2>1, <2>4, <3>2
    <3>3. CASE ~(Matches(n) = {} /\ Full) /\ ~Creates(n)
      BY <2>1, <2>3, <3>3
    <3> QED BY <3>1, <3>2, <3>3
  <2> QED BY <2>5 DEF TryCreateAgentEnclave
<1>9. CASE DayPasses
  BY <1>9 DEF DayPasses
<1>10. CASE \E i \in Inits, c \in Residents, n \in EnclaveNames : EnclaveApproved(i, c, n)
  <2> PICK i \in Inits, c \in Residents, n \in EnclaveNames : EnclaveApproved(i, c, n)
    BY <1>10
  <2> DEFINE r == CreateEnclave(registries[i], n, c)
             s == [r EXCEPT !.moderators = @ \cup {<<c, n>>}]
  <2>1. r \in Registry /\ n \in r.enclaves
    <3>1. n \notin registries[i].enclaves /\ registries[i] \in Shapes
      BY DEF EnclaveApproved, Registry
    <3>2. r \in Registry
      BY <3>1, CreateEnclaveKeeps DEF Seeds
    <3>3. n \in r.enclaves
      BY <3>1 DEF CreateEnclave, Subscribe, Shapes
    <3> QED BY <3>2, <3>3
  <2>2. registries' = [registries EXCEPT ![i] = s]
    BY DEF EnclaveApproved
  <2> HIDE DEF r
  <2>3. s \in Registry
    BY <2>1 DEF Registry, Shapes, Mirrored, Founded, Seeds
  <2> HIDE DEF s
  <2> QED BY <2>2, <2>3 DEF EnclaveApproved
<1>11. CASE \E i \in Inits, c \in Residents, scope \in {{}} \cup {{n} : n \in EnclaveNames} :
                AgentBanned(i, c, scope)
  <2> PICK i \in Inits, c \in Residents, scope \in {{}} \cup {{n} : n \in EnclaveNames} :
                AgentBanned(i, c, scope)
    BY <1>11
  <2> DEFINE pairs == IF scope = {} THEN {p \in registries[i].subscriptions : p[1] = c}
                      ELSE {c} \X scope
  <2>1. registries' = [registries EXCEPT ![i] = Unsubscribe(registries[i], pairs)]
    BY DEF AgentBanned
  <2>2. pairs \in SUBSET (Seeds \X EnclaveNames)
    BY DEF Registry, Shapes, Seeds
  <2> HIDE DEF pairs
  <2>3. Unsubscribe(registries[i], pairs) \in Registry
    BY <2>2, UnsubscribeKeeps
  <2> QED BY <2>1, <2>3 DEF AgentBanned
<1>12. CASE UNCHANGED enclaveVars
  BY <1>12 DEF enclaveVars
<1>13. CASE \E c \in Residents, n \in EnclaveNames : AgentCreatesEnclave(c, n) \/ PostProposesEnclave(c, n)
  BY <1>13, <1>8 DEF AgentCreatesEnclave, PostProposesEnclave
<1> QED BY <1>1, <1>2, <1>3, <1>4, <1>5, <1>6, <1>7, <1>9, <1>10, <1>11, <1>12, <1>13
        DEF EnclavesNext

-----------------------------------------------------------------------------
(* Members and subscriptions mirror each other in every registry, the one  *)
(* the network uses and those that overlapping initializations and the     *)
(* governance handlers still hold.                                         *)
THEOREM RegistriesStayConsistent == EnclavesSpec => []EnclaveInv
<1>1. EnclavesInit => EnclavesInd
  BY DEF EnclavesInit, EnclavesInd, Registry, Shapes, Mirrored, Founded
<1>2. EnclavesInd => EnclaveInv
  BY DEF EnclavesInd, EnclaveInv, Registry, Shapes, Founded, RegistryTypeOK
<1> QED BY <1>1, <1>2, EnclavesStep, PTL DEF EnclavesSpec

-----------------------------------------------------------------------------
(* The initialization.                                                     *)
(* Where a call of the initialization may be, and what it goes on with.    *)
SetupTypeOK ==
    /\ initialized \in BOOLEAN /\ current \in Inits \cup {NoInit}
    /\ moods \in [Inits -> SUBSET Residents]
    /\ initAt \in [Inits -> {"new", "enclaves", "memberships", "moods", "over", "failed"}]
    /\ initCursor \in [Inits -> Nat] /\ moodOf \in [Inits -> Inits \cup {NoInit}]

SetsUpOnce(i) == initAt[i] \in {"moods", "over"}

(* A call that began made a registry the one in use, a call that awaits a  *)
(* mood has come to a citizen of the Map, and the flag is set by the end   *)
(* of a call only.                                                         *)
CallsOK ==
    /\ \A i \in Inits : initAt[i] # "new" => current \in Inits /\ initAt[current] # "new"
    /\ \A i \in Inits : initAt[i] = "moods" => initCursor[i] \in 1..Len(residents)
    /\ initialized <=> \E i \in Inits : initAt[i] = "over"

InMood(k) == residents[k] \in moods[current]
Introduced(k) ==
    residents[k] \in banned \/ <<Introductions, residents[k]>> \in registries[current].members

(* The call whose registry is in use is the last that began: no later one  *)
(* takes its moods, its default enclaves or its welcome elsewhere.         *)
CurrentOK ==
    current \in Inits =>
        /\ SetsUpOnce(current) =>
            browsing = current /\ Introductions \in registries[current].enclaves
        /\ initAt[current] = "moods" =>
            moodOf[current] = current /\ \A k \in 1..(initCursor[current] - 1) : InMood(k)
        /\ initAt[current] = "over" => \A k \in 1..Len(residents) : InMood(k) /\ Introduced(k)

(* The trait evolution in use was made by the last call that set up, which *)
(* need not be the last that began: it knows the citizens that call has    *)
(* come past.                                                              *)
Evolved(i) ==
    \/ initAt[i] = "moods" /\ \A k \in 1..(initCursor[i] - 1) : residents[k] \in evolving
    \/ initAt[i] = "over" /\ \A k \in 1..Len(residents) : residents[k] \in evolving

EvolvingOK ==
    \/ \A i \in Inits : ~SetsUpOnce(i)
    \/ \E i \in Inits : initAt[i] = "failed"
    \/ \E i \in Inits : Evolved(i)

IntroducedInd == EnclavesInd /\ SetupTypeOK /\ CallsOK /\ CurrentOK /\ EvolvingOK

(* What every operation but a ban does to a registry.                      *)
Grows(r, s) == r.enclaves \subseteq s.enclaves /\ r.members \subseteq s.members

LEMMA MembersExist ==
    ASSUME NEW r \in Registry
    PROVE  r \in Shapes /\ \A m \in r.members : m[1] \in r.enclaves
<1>1. r \in Shapes /\ Mirrored(r) /\ Founded(r)
  BY DEF Registry
<1>2. ASSUME NEW n \in EnclaveNames, NEW c \in Seeds, <<n, c>> \in r.members
      PROVE  n \in r.enclaves
  <2>1. <<c, n>> \in r.subscriptions
    BY <1>1, <1>2 DEF Mirrored
  <2> QED BY <2>1, <1>1 DEF Founded
<1> QED BY <1>1, <1>2 DEF Shapes

LEMMA SubscribeGrows ==
    ASSUME NEW r \in Registry, NEW pairs \in SUBSET (Seeds \X EnclaveNames)
    PROVE  /\ Grows(r, Subscribe(r, pairs)) /\ Subscribe(r, pairs).enclaves = r.enclaves
           /\ \A c \in Seeds, n \in r.enclaves :
                <<c, n>> \in pairs => <<n, c>> \in Subscribe(r, pairs).members
<1> DEFINE new == {p \in pairs : p[2] \in r.enclaves /\ <<p[2], p[1]>> \notin r.members}
           s == Subscribe(r, pairs)
<1>1. new \in SUBSET (Seeds \X EnclaveNames)
  OBVIOUS
<1>2. r \in Shapes
  BY DEF Registry
<1>3. s = [r EXCEPT !.members = @ \cup Turned(new), !.subscriptions = @ \cup new]
  BY DEF Subscribe
<1>4. ASSUME NEW c \in Seeds, NEW n \in r.enclaves, <<c, n>> \in pairs
      PROVE  <<n, c>> \in r.members \/ <<c, n>> \in new
  BY <1>4
<1> HIDE DEF new, s
<1>5. s.enclaves = r.enclaves /\ s.members = r.members \cup Turned(new)
  BY <1>2, <1>3 DEF Shapes
<1>6. r.enclaves \subseteq EnclaveNames
  BY <1>2 DEF Shapes
<1>7. ASSUME NEW c \in Seeds, NEW n \in r.enclaves, <<c, n>> \in pairs
      PROVE  <<n, c>> \in s.members
  BY <1>1, <1>4, <1>5, <1>6, <1>7, TurnedPairs
<1> QED BY <1>5, <1>7 DEF Grows, s

LEMMA NewEnclavesGrow ==
    ASSUME NEW r \in Registry, NEW new \in SUBSET EnclaveNames, new \cap r.enclaves = {}
    PROVE  LET s == [r EXCEPT !.enclaves = @ \cup new, !.members = {m \in @ : m[1] \notin new}]
           IN  Grows(r, s) /\ new \subseteq s.enclaves
<1> DEFINE s == [r EXCEPT !.enclaves = @ \cup new, !.members = {m \in @ : m[1] \notin new}]
<1>1. r \in Shapes /\ \A m \in r.members : m[1] \in r.enclaves
  BY MembersExist
<1>2. s.enclaves = r.enclaves \cup new /\ s.members = {m \in r.members : m[1] \notin new}
  BY <1>1 DEF Shapes
<1> HIDE DEF s
<1> QED BY <1>1, <1>2 DEF Grows, s

LEMMA CreateEnclaveGrows ==
    ASSUME NEW r \in Registry, NEW n \in EnclaveNames, n \notin r.enclaves, NEW c \in Seeds
    PROVE  Grows(r, CreateEnclave(r, n, c))
<1> DEFINE new == {n}
           s == [r EXCEPT !.enclaves = @ \cup new, !.members = {m \in @ : m[1] \notin new}]
<1>1. new \in SUBSET EnclaveNames /\ new \cap r.enclaves = {}
  OBVIOUS
<1>2. CreateEnclave(r, n, c) = Subscribe(s, {<<c, n>>})
  BY DEF CreateEnclave
<1> HIDE DEF new
<1>3. s \in Registry /\ Grows(r, s)
  BY <1>1, NewEnclavesKeep, NewEnclavesGrow
<1> HIDE DEF s
<1>4. Grows(s, Subscribe(s, {<<c, n>>}))
  BY <1>3, SubscribeGrows
<1> QED BY <1>2, <1>3, <1>4 DEF Grows

LEMMA CreateDefaultsGrows ==
    ASSUME NEW r \in Registry
    PROVE  /\ Grows(r, CreateDefaults(r))
           /\ Introductions \in CreateDefaults(r).enclaves
<1> DEFINE new == Defaults \ r.enclaves
           s == [r EXCEPT !.enclaves = @ \cup new, !.members = {m \in @ : m[1] \notin new}]
           pairs == {<<Curator, n>> : n \in new}
<1>1. new \in SUBSET EnclaveNames /\ new \cap r.enclaves = {}
  BY EnclavesAssumption
<1>2. CreateDefaults(r) = Subscribe(s, pairs)
  BY DEF CreateDefaults
<1>3. pairs \in SUBSET (Seeds \X EnclaveNames)
  BY <1>1 DEF Seeds
<1>4. Introductions \in r.enclaves \cup new
  BY EnclavesAssumption
<1> HIDE DEF new, pairs
<1>5. s \in Registry /\ Grows(r, s) /\ new \subseteq s.enclaves
  BY <1>1, NewEnclavesKeep, NewEnclavesGrow
<1> HIDE DEF s
<1>6. Grows(s, Subscribe(s, pairs))
  BY <1>3, <1>5, SubscribeGrows
<1> QED BY <1>2, <1>4, <1>5, <1>6 DEF Grows

LEMMA WelcomeIntroduces ==
    ASSUME NEW r \in Registry, NEW seeds \in SUBSET Residents
    PROVE  /\ Grows(r, Welcome(r, seeds))
           /\ Introductions \in r.enclaves =>
                \A c \in seeds : <<Introductions, c>> \in Welcome(r, seeds).members
<1> DEFINE pairs == {p \in Interests : p[1] \in seeds} \cup (seeds \X {Introductions})
<1>1. pairs \in SUBSET (Seeds \X EnclaveNames)
  BY EnclavesAssumption DEF Seeds
<1>2. \A c \in seeds : <<c, Introductions>> \in pairs /\ c \in Seeds
  BY DEF Seeds
<1>3. Welcome(r, seeds) = Subscribe(r, pairs)
  BY DEF Welcome
<1> HIDE DEF pairs
<1> QED BY <1>1, <1>2, <1>3, SubscribeGrows

(* A ban takes from the members only those it unsubscribes.                *)
LEMMA UnsubscribeSpares ==
    ASSUME NEW r \in Registry, NEW pairs \in SUBSET (Seeds \X EnclaveNames)
    PROVE  /\ Unsubscribe(r, pairs).enclaves = r.enclaves
           /\ \A c \in Seeds, n \in EnclaveNames :
                <<n, c>> \in r.members /\ <<c, n>> \notin pairs
                => <<n, c>> \in Unsubscribe(r, pairs).members
<1> DEFINE gone == {p \in pairs : <<p[2], p[1]>> \in r.members}
           s == Unsubscribe(r, pairs)
<1>1. gone \in SUBSET (Seeds \X EnclaveNames) /\ gone \subseteq pairs
  OBVIOUS
<1>2. r \in Shapes
  BY DEF Registry
<1>3. s = [r EXCEPT !.members = @ \ Turned(gone), !.subscriptions = @ \ gone]
  BY DEF Unsubscribe
<1> HIDE DEF gone, s
<1>4. s.enclaves = r.enclaves /\ s.members = r.members \ Turned(gone)
  BY <1>2, <1>3 DEF Shapes
<1>5. ASSUME NEW c \in Seeds, NEW n \in EnclaveNames, <<n, c>> \in r.members, <<c, n>> \notin pairs
      PROVE  <<n, c>> \in s.members
  BY <1>1, <1>4, <1>5, TurnedPairs
<1> QED BY <1>4, <1>5 DEF s

(* A step that moves no call and takes nothing from the registry in use.   *)
LEMMA QuietStep ==
    ASSUME IntroducedInd, EnclavesInd', moods' \in [Inits -> SUBSET Residents],
           UNCHANGED <<residents, setupVars, moods, evolving>>,
           current \in Inits => Grows(registries[current], registries'[current]),
           banned \subseteq banned'
    PROVE  SetupTypeOK' /\ CallsOK' /\ CurrentOK' /\ EvolvingOK'
<1>1. SetupTypeOK'
  BY DEF IntroducedInd, SetupTypeOK, setupVars
<1>2. CallsOK'
  BY DEF IntroducedInd, CallsOK, setupVars
<1>3. CurrentOK'
  BY DEF IntroducedInd, CurrentOK, SetsUpOnce, InMood, Introduced, Grows, setupVars
<1>4. EvolvingOK'
  BY DEF IntroducedInd, EvolvingOK, Evolved, SetsUpOnce, setupVars
<1> QED BY <1>1, <1>2, <1>3, <1>4

(* A call goes on, with the registry in use, at the k-th citizen: it asks  *)
(* for that citizen's mood or welcomes them all and is over.               *)
LEMMA GoesOnIntroduces ==
    ASSUME IntroducedInd, NEW i \in Inits, initAt[i] \notin {"over", "failed"},
           NEW regs \in [Inits -> Registry], NEW k \in 1..(Len(residents) + 1),
           residents' = residents, moods' \in [Inits -> SUBSET Residents],
           current' \in Inits, current' # i => initAt[current'] # "new",
           NEW engine \in Inits, current' = engine,
           GoesOn(i, k, regs, engine),
           engine = i \/ SetsUpOnce(engine)
               => browsing' = engine /\ Introductions \in regs[engine].enclaves,
           engine = i => \A j \in 1..(k - 1) : residents[j] \in moods'[engine],
           engine # i /\ initAt[engine] = "moods"
               => /\ moodOf[engine] = engine
                  /\ \A j \in 1..(initCursor[engine] - 1) : residents[j] \in moods'[engine],
           engine # i /\ initAt[engine] = "over"
               => \A j \in 1..Len(residents) :
                    /\ residents[j] \in moods'[engine]
                    /\ residents[j] \in banned
                       \/ <<Introductions, residents[j]>> \in regs[engine].members,
           \/ \E j \in Inits : initAt[j] = "failed"
           \/ \A j \in 1..(k - 1) : residents[j] \in evolving'
           \/ \E j \in Inits \ {i} : Evolved(j) /\ evolving \subseteq evolving'
    PROVE  SetupTypeOK' /\ CallsOK' /\ CurrentOK' /\ EvolvingOK'
<1> USE DEF IntroducedInd, SetupTypeOK
<1> DEFINE n == Len(residents)
           ends == ~(k <= n)
<1>1. n \in Nat /\ k \in Nat /\ k <= n + 1 /\ n' = n
  BY DEF EnclavesInd
<1>2. /\ initAt' = [initAt EXCEPT ![i] = IF ends THEN "over" ELSE "moods"]
      /\ initCursor' = [initCursor EXCEPT ![i] = IF ends THEN 0 ELSE k]
      /\ moodOf' = [moodOf EXCEPT ![i] = IF ends THEN NoInit ELSE engine]
      /\ initialized' = (initialized \/ ends)
      /\ banned' = IF ends THEN {} ELSE banned
  BY DEF GoesOn
<1>3. IF ends THEN registries' = [regs EXCEPT ![engine] = Welcome(@, ToSet(residents))]
      ELSE registries' = regs
  BY DEF GoesOn
<1>4. ToSet(residents) \in SUBSET Residents /\ \A j \in 1..n : residents[j] \in ToSet(residents)
  BY DEF ToSet, EnclavesInd
<1>5. /\ Grows(regs[engine], registries'[engine])
      /\ ends /\ Introductions \in regs[engine].enclaves
         => \A j \in 1..n : <<Introductions, residents[j]>> \in registries'[engine].members
  <2>1. CASE ends
    <3>1. registries'[engine] = Welcome(regs[engine], ToSet(residents))
      BY <1>3, <2>1
    <3> QED BY <1>4, <3>1, WelcomeIntroduces
  <2>2. CASE ~ends
    BY <1>3, <2>2 DEF Grows
  <2> QED BY <2>1, <2>2
<1>6. \A j \in Inits : j # i => /\ initAt'[j] = initAt[j] /\ initCursor'[j] = initCursor[j]
                               /\ moodOf'[j] = moodOf[j]
  BY <1>2
<1>7. /\ initAt'[i] = IF ends THEN "over" ELSE "moods"
      /\ initCursor'[i] = IF ends THEN 0 ELSE k
      /\ moodOf'[i] = IF ends THEN NoInit ELSE engine
  BY <1>2
<1>8. SetupTypeOK'
  BY <1>1, <1>2
<1> HIDE DEF ends
<1>9. CallsOK'
  <2>1. \A j \in Inits : initAt'[j] # "new" => current' \in Inits /\ initAt'[current'] # "new"
    BY <1>6, <1>7
  <2>2. \A j \in Inits : initAt'[j] = "moods" => initCursor'[j] \in 1..Len(residents')
    <3>1. \A j \in Inits : initAt[j] = "moods" => initCursor[j] \in 1..n
      BY DEF CallsOK
    <3>2. ~ends => k \in 1..n
      BY <1>1 DEF ends
    <3> HIDE DEF n
    <3>3. \A j \in Inits : initAt'[j] = "moods" => initCursor'[j] \in 1..n
      BY <1>6, <1>7, <3>1, <3>2
    <3> QED BY <3>3, <1>1 DEF n
  <2>3. initialized' <=> \E j \in Inits : initAt'[j] = "over"
    <3>1. initialized <=> \E j \in Inits \ {i} : initAt[j] = "over"
      BY DEF CallsOK
    <3>2. (\E j \in Inits : initAt'[j] = "over")
          <=> ends \/ \E j \in Inits \ {i} : initAt[j] = "over"
      BY <1>6, <1>7
    <3>3. initialized' <=> initialized \/ ends
      BY <1>2
    <3> QED BY <3>1, <3>2, <3>3
  <2> QED BY <2>1, <2>2, <2>3 DEF CallsOK
<1>10. CurrentOK'
  <2>1. SetsUpOnce(engine)' => engine = i \/ SetsUpOnce(engine)
    BY <1>6 DEF SetsUpOnce
  <2>2. SetsUpOnce(engine)' => browsing' = engine /\ Introductions \in registries'[engine].enclaves
    BY <1>5, <2>1 DEF Grows
  <2>3. initAt'[engine] = "moods"
        => /\ moodOf'[engine] = engine
           /\ \A j \in 1..(initCursor'[engine] - 1) : residents[j] \in moods'[engine]
    <3>1. CASE engine = i
      BY <1>7, <3>1
    <3>2. CASE engine # i
      BY <1>6, <3>2
    <3> QED BY <3>1, <3>2
  <2>4. ASSUME initAt'[engine] = "over", NEW j \in 1..n
        PROVE  /\ residents[j] \in moods'[engine]
               /\ \/ residents[j] \in banned'
                  \/ <<Introductions, residents[j]>> \in registries'[engine].members
    <3>1. CASE engine = i
      <4>1. ends
        BY <1>7, <2>4, <3>1
      <4>2. k - 1 = n
        BY <1>1, <4>1 DEF ends
      <4> HIDE DEF n
      <4> QED BY <1>5, <2>4, <3>1, <4>1, <4>2
    <3>2. CASE engine # i
      <4>1. initAt[engine] = "over"
        BY <1>6, <2>4, <3>2
      <4>2. Introductions \in regs[engine].enclaves
        BY <4>1 DEF SetsUpOnce
      <4>3. residents[j] \in moods'[engine]
        BY <3>2, <4>1
      <4>4. CASE ends
        BY <1>5, <4>2, <4>3, <4>4
      <4>5. CASE ~ends
        <5>1. banned' = banned /\ registries' = regs
          BY <1>2, <1>3, <4>5
        <5> QED BY <3>2, <4>1, <4>3, <5>1
      <4> QED BY <4>4, <4>5
    <3> QED BY <3>1, <3>2
  <2>5. Len(residents') = n
    BY <1>1
  <2> HIDE DEF n
  <2> QED BY <2>2, <2>3, <2>4, <2>5 DEF CurrentOK, InMood, Introduced, SetsUpOnce
<1>11. EvolvingOK'
  <2>1. CASE \E j \in Inits : initAt[j] = "failed"
    BY <1>6, <2>1 DEF EvolvingOK
  <2>2. CASE \A j \in 1..(k - 1) : residents[j] \in evolving'
    <3>1. CASE ends
      <4>1. k - 1 = n
        BY <1>1, <3>1 DEF ends
      <4> HIDE DEF n
      <4>2. \A j \in 1..n : residents'[j] \in evolving'
        BY <2>2, <4>1
      <4>3. initAt'[i] = "over" /\ Len(residents') = n
        BY <1>7, <3>1 DEF n
      <4>4. Evolved(i)'
        BY <4>2, <4>3 DEF Evolved
      <4> QED BY <4>4 DEF EvolvingOK
    <3>2. CASE ~ends
      <4>1. Evolved(i)'
        BY <1>7, <2>2, <3>2 DEF Evolved
      <4> QED BY <4>1 DEF EvolvingOK
    <3> QED BY <3>1, <3>2
  <2>3. CASE \E j \in Inits \ {i} : Evolved(j) /\ evolving \subseteq evolving'
    <3>1. PICK j \in Inits \ {i} : Evolved(j) /\ evolving \subseteq evolving'
      BY <2>3
    <3>2. Evolved(j)'
      BY <1>6, <3>1 DEF Evolved
    <3> QED BY <3>2 DEF EvolvingOK
  <2> QED BY <2>1, <2>2, <2>3
<1> QED BY <1>8, <1>9, <1>10, <1>11

(* A call makes the engines anew and begins with the first citizen.        *)
LEMMA SetsUpIntroduces ==
    ASSUME IntroducedInd, NEW i \in Inits, initAt[i] \notin {"over", "failed"},
           NEW regs \in [Inits -> Registry],
           residents' = residents, moods' = moods,
           NEW engine \in Inits, current' = engine, SetsUp(i, regs, engine),
           engine # i => current = engine /\ initAt[engine] # "new"
                         /\ regs[engine] = registries[engine]
    PROVE  SetupTypeOK' /\ CallsOK' /\ CurrentOK' /\ EvolvingOK'
<1> DEFINE ready == [regs EXCEPT ![engine] = CreateDefaults(regs[engine])]
<1>1. ready \in [Inits -> Registry]
  BY CreateDefaultsKeeps
<1>2. /\ Grows(regs[engine], ready[engine])
      /\ Introductions \in ready[engine].enclaves
  BY CreateDefaultsGrows
<1>3. GoesOn(i, 1, ready, engine) /\ browsing' = engine
  BY DEF SetsUp
<1> HIDE DEF ready
<1>4. 1 \in 1..(Len(residents) + 1) /\ moods' \in [Inits -> SUBSET Residents]
  BY DEF IntroducedInd, EnclavesInd, SetupTypeOK
<1>5. engine # i /\ initAt[engine] = "moods"
      => /\ moodOf[engine] = engine
         /\ \A j \in 1..(initCursor[engine] - 1) : residents[j] \in moods'[engine]
  BY DEF IntroducedInd, CurrentOK, InMood
<1>6. engine # i /\ initAt[engine] = "over"
      => \A j \in 1..Len(residents) :
            /\ residents[j] \in moods'[engine]
            /\ residents[j] \in banned \/ <<Introductions, residents[j]>> \in ready[engine].members
  BY <1>2 DEF IntroducedInd, CurrentOK, InMood, Introduced, Grows
<1> QED BY <1>1, <1>2, <1>3, <1>4, <1>5, <1>6, GoesOnIntroduces

LEMMA MoodIntroduces ==
    ASSUME IntroducedInd, NEW i \in Inits, NEW loaded \in BOOLEAN, MoodAnswered(i, loaded)
    PROVE  SetupTypeOK' /\ CallsOK' /\ CurrentOK' /\ EvolvingOK'
<1> USE DEF IntroducedInd, SetupTypeOK
<1> DEFINE c == residents[initCursor[i]]
           asked == IF loaded THEN moodOf[i] ELSE current
<1>1. /\ initAt[i] = "moods" /\ GoesOn(i, initCursor[i] + 1, registries, current)
      /\ moods' = [moods EXCEPT ![asked] = @ \cup {c}] /\ evolving' = evolving \cup {c}
      /\ UNCHANGED <<residents, current, browsing>>
  BY DEF MoodAnswered
<1>2. /\ initCursor[i] \in 1..Len(residents) /\ Len(residents) \in Nat
      /\ current \in Inits /\ initAt[current] # "new"
  BY <1>1 DEF CallsOK, EnclavesInd
<1>3. c \in Residents /\ initCursor[i] + 1 \in 1..(Len(residents) + 1)
  BY <1>2 DEF EnclavesInd
<1>4. registries \in [Inits -> Registry]
  BY DEF EnclavesInd
<1>5. moods' \in [Inits -> SUBSET Residents] /\ \A j \in Inits : moods[j] \subseteq moods'[j]
  BY <1>1, <1>3
<1> DEFINE k == initCursor[i] + 1
<1>6. k - 1 = initCursor[i] /\ \A j \in 1..(k - 1) : j = initCursor[i] \/ j \in 1..(initCursor[i] - 1)
  BY <1>2
<1>7. current = i => \A j \in 1..(k - 1) : residents[j] \in moods'[current]
  <2> SUFFICES ASSUME current = i, NEW j \in 1..(k - 1) PROVE residents[j] \in moods'[current]
    OBVIOUS
  <2>1. moodOf[i] = i /\ \A h \in 1..(initCursor[i] - 1) : residents[h] \in moods[i]
    BY <1>1, <1>2 DEF CurrentOK, InMood
  <2>2. c \in moods'[i]
    BY <1>1, <2>1
  <2> QED BY <1>5, <1>6, <2>1, <2>2
<1>8. current # i /\ initAt[current] = "moods"
      => /\ moodOf[current] = current
         /\ \A j \in 1..(initCursor[current] - 1) : residents[j] \in moods'[current]
  BY <1>2, <1>5 DEF CurrentOK, InMood
<1>9. current # i /\ initAt[current] = "over"
      => \A j \in 1..Len(residents) :
            /\ residents[j] \in moods'[current]
            /\ residents[j] \in banned
               \/ <<Introductions, residents[j]>> \in registries[current].members
  BY <1>2, <1>5 DEF CurrentOK, InMood, Introduced
<1>10. current = i \/ SetsUpOnce(current)
       => browsing' = current /\ Introductions \in registries[current].enclaves
  BY <1>1, <1>2 DEF CurrentOK, SetsUpOnce
<1>11. \/ \E j \in Inits : initAt[j] = "failed"
       \/ \A j \in 1..(k - 1) : residents[j] \in evolving'
       \/ \E j \in Inits \ {i} : Evolved(j) /\ evolving \subseteq evolving'
  <2>1. \/ \E j \in Inits : initAt[j] = "failed"
        \/ \E j \in Inits : Evolved(j)
    BY <1>1 DEF EvolvingOK, SetsUpOnce
  <2>2. evolving \subseteq evolving' /\ c \in evolving'
    BY <1>1
  <2>3. Evolved(i) => \A j \in 1..(k - 1) : residents[j] \in evolving'
    <3>1. Evolved(i) => \A j \in 1..(initCursor[i] - 1) : residents[j] \in evolving
      BY <1>1 DEF Evolved
    <3> QED BY <1>6, <2>2, <3>1
  <2> QED BY <2>1, <2>2, <2>3
<1>12. GoesOn(i, k, registries, current) /\ initAt[i] \notin {"over", "failed"}
  BY <1>1
<1>13. k \in 1..(Len(residents) + 1) /\ residents' = residents /\ current' = current
  BY <1>1, <1>3
<1> HIDE DEF k
<1> QED BY <1>2, <1>4, <1>5, <1>7, <1>8, <1>9, <1>10, <1>11, <1>12, <1>13, GoesOnIntroduces

LEMMA RegistersIntroduces ==
    ASSUME IntroducedInd, EnclavesInd', NEW c \in Residents, RegisterResident(c)
    PROVE  SetupTypeOK' /\ CallsOK' /\ CurrentOK' /\ EvolvingOK'
<1> USE DEF IntroducedInd, SetupTypeOK
<1>1. UNCHANGED setupVars /\ residents \in Seq(Residents) /\ registries \in [Inits -> Registry]
  BY DEF RegisterResident, EnclavesInd
<1>2. residents' = residents \/ residents' = Append(residents, c)
  BY DEF RegisterResident, JoinsMap
<1>3. /\ Len(residents) \in Nat /\ Len(residents') \in Nat /\ Len(residents) <= Len(residents')
      /\ \A k \in 1..Len(residents) : residents'[k] = residents[k]
      /\ \A k \in 1..Len(residents') : k \in 1..Len(residents) \/ residents'[k] = c
  BY <1>1, <1>2
<1>4. SetupTypeOK'
  <2>1. moods' = [moods EXCEPT ![current] = @ \cup {c}] \/ moods' = moods
    BY DEF RegisterResident
  <2>2. moods' \in [Inits -> SUBSET Residents]
    BY <2>1
  <2> QED BY <1>1, <2>2 DEF setupVars
<1>5. CallsOK'
  BY <1>1, <1>3 DEF setupVars, CallsOK
<1>6. CASE ~initialized
  <2>1. UNCHANGED <<moods, evolving, registries, banned>>
    BY <1>6 DEF RegisterResident
  <2>2. \A i \in Inits : initAt[i] # "over"
    BY <1>6 DEF CallsOK
  <2>3. \A i \in Inits : initAt[i] = "moods" =>
            \A k \in 1..(initCursor[i] - 1) : k \in 1..Len(residents)
    BY <1>3 DEF CallsOK
  <2>4. CurrentOK'
    BY <1>1, <1>3, <2>1, <2>2, <2>3 DEF setupVars, CurrentOK, SetsUpOnce, InMood
  <2>5. EvolvingOK'
    BY <1>1, <1>3, <2>1, <2>2, <2>3 DEF setupVars, EvolvingOK, SetsUpOnce, Evolved
  <2> QED BY <1>4, <1>5, <2>4, <2>5
<1>7. CASE initialized
  <2>1. /\ moods' = [moods EXCEPT ![current] = @ \cup {c}]
        /\ evolving' = evolving \cup {c}
        /\ registries' = [registries EXCEPT ![current] = Welcome(@, {c})]
        /\ banned' = banned \ {c}
    BY <1>7 DEF RegisterResident
  <2>2. current \in Inits
    BY <1>7 DEF CallsOK
  <2> DEFINE before == registries[current]
             after == registries'[current]
  <2>3. /\ Grows(before, after)
        /\ Introductions \in before.enclaves => <<Introductions, c>> \in after.members
    <3>1. after = Welcome(before, {c}) /\ before \in Registry
      BY <1>1, <2>1, <2>2
    <3> HIDE DEF before, after
    <3> QED BY <3>1, WelcomeIntroduces
  <2>4. moods[current] \subseteq moods'[current] /\ c \in moods'[current]
    BY <2>1, <2>2
  <2> HIDE DEF before, after
  <2>5. \A i \in Inits : initAt[i] = "moods" =>
            \A k \in 1..(initCursor[i] - 1) : k \in 1..Len(residents)
    BY <1>3 DEF CallsOK
  <2>6. CurrentOK'
    <3>1. SetsUpOnce(current) => browsing = current /\ Introductions \in after.enclaves
      BY <2>2, <2>3 DEF CurrentOK, Grows, before
    <3>2. initAt[current] = "moods"
          => /\ moodOf[current] = current
             /\ \A k \in 1..(initCursor[current] - 1) : residents'[k] \in moods'[current]
      BY <1>3, <2>2, <2>4, <2>5 DEF CurrentOK, InMood
    <3>3. ASSUME initAt[current] = "over", NEW k \in 1..Len(residents')
          PROVE  /\ residents'[k] \in moods'[current]
                 /\ residents'[k] \in banned' \/ <<Introductions, residents'[k]>> \in after.members
      <4>1. Introductions \in before.enclaves
        BY <2>2, <3>3 DEF CurrentOK, SetsUpOnce, before
      <4>2. CASE residents'[k] = c
        BY <2>3, <2>4, <4>1, <4>2
      <4>3. CASE residents'[k] # c
        <5>1. k \in 1..Len(residents) /\ residents'[k] = residents[k]
          BY <1>3, <4>3
        <5>2. InMood(k) /\ Introduced(k)
          BY <2>2, <3>3, <5>1 DEF CurrentOK
        <5> QED BY <2>1, <2>3, <2>4, <4>3, <5>1, <5>2 DEF InMood, Introduced, Grows, before
      <4> QED BY <4>2, <4>3
    <3> QED BY <1>1, <3>1, <3>2, <3>3 DEF setupVars, CurrentOK, SetsUpOnce, InMood, Introduced, after
  <2>7. EvolvingOK'
    <3>1. \A i \in Inits : Evolved(i) => Evolved(i)'
      BY <1>1, <1>3, <2>1, <2>5 DEF setupVars, Evolved
    <3> QED BY <1>1, <3>1 DEF setupVars, EvolvingOK, SetsUpOnce
  <2> QED BY <1>4, <1>5, <2>6, <2>7
<1> QED BY <1>6, <1>7

LEMMA BanIntroduces ==
    ASSUME IntroducedInd, EnclavesInd', NEW i \in Inits, NEW c \in Residents,
           NEW scope \in {{}} \cup {{n} : n \in EnclaveNames}, AgentBanned(i, c, scope)
    PROVE  SetupTypeOK' /\ CallsOK' /\ CurrentOK' /\ EvolvingOK'
<1> USE DEF IntroducedInd, SetupTypeOK
<1> DEFINE pairs == IF scope = {} THEN {p \in registries[i].subscriptions : p[1] = c}
                    ELSE {c} \X scope
<1>1. registries' = [registries EXCEPT ![i] = Unsubscribe(registries[i], pairs)]
  BY DEF AgentBanned
<1>2. UNCHANGED <<residents, setupVars, moods, evolving>>
  BY DEF AgentBanned
<1>3. banned' = IF i = current /\ (scope = {} \/ Introductions \in scope)
                THEN banned \cup {c} ELSE banned
  BY DEF AgentBanned
<1>4. registries \in [Inits -> Registry] /\ residents \in Seq(Residents)
  BY DEF EnclavesInd
<1>5. pairs \in SUBSET (Seeds \X EnclaveNames)
  BY <1>4 DEF Registry, Shapes, Seeds
<1>6. \A d \in Seeds : <<d, Introductions>> \in pairs => d = c /\ (scope = {} \/ Introductions \in scope)
  OBVIOUS
<1> HIDE DEF pairs
<1>7. SetupTypeOK' /\ CallsOK' /\ EvolvingOK'
  BY <1>2 DEF setupVars, CallsOK, EvolvingOK, Evolved, SetsUpOnce
<1>8. ASSUME current \in Inits
      PROVE  /\ registries'[current].enclaves = registries[current].enclaves
             /\ \A d \in Seeds : <<Introductions, d>> \in registries[current].members
                    => d \in banned' \/ <<Introductions, d>> \in registries'[current].members
  <2>1. CASE i = current
    <3>1. Introductions \in EnclaveNames
      BY EnclavesAssumption
    <3> DEFINE r == registries[current]
               s == registries'[current]
    <3>2. s = Unsubscribe(r, pairs) /\ r \in Registry
      BY <1>1, <1>4, <1>8, <2>1
    <3> HIDE DEF r, s
    <3>3. /\ s.enclaves = r.enclaves
          /\ \A d \in Seeds : <<Introductions, d>> \in r.members /\ <<d, Introductions>> \notin pairs
                              => <<Introductions, d>> \in s.members
      BY <1>5, <3>1, <3>2, UnsubscribeSpares
    <3>4. \A d \in Seeds : <<d, Introductions>> \in pairs => d \in banned'
      BY <1>3, <1>6, <2>1
    <3> QED BY <3>3, <3>4 DEF r, s
  <2>2. CASE i # current
    BY <1>1, <1>4, <1>8, <2>2
  <2> QED BY <2>1, <2>2
<1>9. banned \subseteq banned'
  BY <1>3
<1>10. CurrentOK'
  <2>1. \A k \in 1..Len(residents) : residents[k] \in Seeds
    BY <1>4 DEF Seeds
  <2> QED BY <1>2, <1>8, <1>9, <2>1 DEF setupVars, CurrentOK, SetsUpOnce, InMood, Introduced
<1> QED BY <1>7, <1>10

LEMMA IntroducedStep ==
    ASSUME IntroducedInd, [EnclavesNext]_enclaveVars
    PROVE  IntroducedInd'
<1> DEFINE Goal == SetupTypeOK' /\ CallsOK' /\ CurrentOK' /\ EvolvingOK'
<1>0. EnclavesInd'
  BY EnclavesStep DEF IntroducedInd
<1>1. ASSUME NEW i \in Inits, InitializeEnclaveSystem(i) PROVE Goal
  <2> USE DEF IntroducedInd, SetupTypeOK
  <2>1. initAt[i] = "new" /\ ~initialized /\ current' = i /\ UNCHANGED <<residents, moods>>
    BY <1>1 DEF InitializeEnclaveSystem
  <2>2. CASE ~enclaveStore
    <3>1. SetsUp(i, registries, i)
      BY <1>1, <2>2 DEF InitializeEnclaveSystem
    <3>2. registries \in [Inits -> Registry] /\ initAt[i] \notin {"over", "failed"}
      BY <2>1 DEF EnclavesInd
    <3> QED BY <2>1, <3>1, <3>2, SetsUpIntroduces
  <2>3. CASE enclaveStore
    <3>1. /\ initAt' = [initAt EXCEPT ![i] = "enclaves"]
          /\ UNCHANGED <<initialized, browsing, initCursor, moodOf, registries, evolving, banned>>
      BY <1>1, <2>3 DEF InitializeEnclaveSystem
    <3>2. SetupTypeOK' /\ CallsOK'
      BY <2>1, <3>1 DEF CallsOK
    <3>3. CurrentOK'
      BY <2>1, <3>1 DEF CurrentOK, SetsUpOnce
    <3>4. EvolvingOK'
      BY <2>1, <3>1 DEF EvolvingOK, Evolved, SetsUpOnce
    <3> QED BY <3>2, <3>3, <3>4
  <2> QED BY <2>2, <2>3
<1>2. ASSUME NEW i \in Inits, EnclavesLoaded(i) PROVE Goal
  <2> USE DEF IntroducedInd, SetupTypeOK
  <2>1. PICK r : registries' = [registries EXCEPT ![i] = r]
    BY <1>2 DEF EnclavesLoaded
  <2>2. /\ initAt[i] = "enclaves" /\ initAt' = [initAt EXCEPT ![i] = "memberships"]
        /\ UNCHANGED <<residents, initialized, current, moods, browsing, evolving, initCursor,
                       moodOf, banned>>
    BY <1>2 DEF EnclavesLoaded
  <2>3. SetupTypeOK' /\ CallsOK'
    BY <2>2 DEF CallsOK
  <2>4. CurrentOK'
    <3>1. CASE current = i
      BY <2>2, <3>1 DEF CurrentOK, SetsUpOnce
    <3>2. CASE current # i
      <4>1. registries'[current] = registries[current] /\ initAt'[current] = initAt[current]
        BY <2>1, <2>2, <3>2
      <4> QED BY <2>2, <4>1 DEF CurrentOK, SetsUpOnce, InMood, Introduced
    <3> QED BY <3>1, <3>2
  <2>5. EvolvingOK'
    BY <2>2 DEF EvolvingOK, Evolved, SetsUpOnce
  <2> QED BY <2>3, <2>4, <2>5
<1>3. ASSUME NEW i \in Inits, MembershipsLoaded(i) PROVE Goal
  <2>1. PICK pairs \in SUBSET Stored :
            SetsUp(i, [registries EXCEPT ![i] = LoadMemberships(@, pairs)], current)
    BY <1>3 DEF MembershipsLoaded
  <2> DEFINE regs == [registries EXCEPT ![i] = LoadMemberships(@, pairs)]
  <2>2. pairs \in SUBSET (Seeds \X EnclaveNames)
    BY EnclavesAssumption DEF Seeds
  <2>3. registries \in [Inits -> Registry]
    BY DEF IntroducedInd, EnclavesInd
  <2>4. regs \in [Inits -> Registry] /\ (current # i => regs[current] = registries[current])
    BY <2>2, <2>3, LoadMembershipsKeeps
  <2>5. SetsUp(i, regs, current)
    BY <2>1
  <2>6. initAt[i] = "memberships" /\ UNCHANGED <<residents, current, moods>>
    BY <1>3 DEF MembershipsLoaded
  <2>7. current \in Inits /\ initAt[current] # "new"
    BY <2>6 DEF IntroducedInd, CallsOK
  <2> HIDE DEF regs
  <2> QED BY <2>4, <2>5, <2>6, <2>7, SetsUpIntroduces
<1>4. ASSUME NEW i \in Inits, NEW loaded \in BOOLEAN, MoodAnswered(i, loaded) PROVE Goal
  BY <1>4, MoodIntroduces
<1>5. ASSUME NEW i \in Inits, InitializationFails(i) PROVE Goal
  <2> USE DEF IntroducedInd, SetupTypeOK
  <2>1. /\ initAt[i] \in {"enclaves", "memberships", "moods"}
        /\ initAt' = [initAt EXCEPT ![i] = "failed"]
        /\ UNCHANGED <<residents, initialized, current, registries, moods, browsing, evolving,
                       initCursor, moodOf, banned>>
    BY <1>5 DEF InitializationFails
  <2>2. SetupTypeOK' /\ CallsOK'
    BY <2>1 DEF CallsOK
  <2>3. CurrentOK'
    BY <2>1 DEF CurrentOK, SetsUpOnce, InMood, Introduced
  <2>4. EvolvingOK'
    BY <2>1 DEF EvolvingOK
  <2> QED BY <2>2, <2>3, <2>4
<1>6. ASSUME NEW c \in Residents, RegisterResident(c) PROVE Goal
  BY <1>0, <1>6, RegistersIntroduces
<1>7. ASSUME NEW c \in Residents, UnregisterResident(c) PROVE Goal
  <2>1. moods' \in [Inits -> SUBSET Residents]
        /\ UNCHANGED <<residents, setupVars, moods, evolving, registries, banned>>
    BY <1>7 DEF UnregisterResident, IntroducedInd, SetupTypeOK
  <2>2. current \in Inits => Grows(registries[current], registries'[current])
    BY <2>1 DEF Grows
  <2> QED BY <1>0, <2>1, <2>2, QuietStep
<1>8. ASSUME NEW c \in Residents, NEW n \in EnclaveNames, TryCreateAgentEnclave(c, n) PROVE Goal
  <2>1. moods' \in [Inits -> SUBSET Residents]
        /\ UNCHANGED <<residents, setupVars, moods, evolving, banned>>
    BY <1>8 DEF TryCreateAgentEnclave, IntroducedInd, SetupTypeOK
  <2>2. PICK best \in IF Matches(n) = {} THEN {n} ELSE Matches(n) :
            registries' = [registries EXCEPT ![current] =
                IF Matches(n) = {} /\ Full THEN @
                ELSE IF Creates(n) THEN CreateEnclave(@, n, c) ELSE Subscribe(@, {<<c, best>>})]
    BY <1>8 DEF TryCreateAgentEnclave
  <2>3. registries \in [Inits -> Registry]
    BY DEF IntroducedInd, EnclavesInd
  <2>4. ASSUME current \in Inits PROVE Grows(registries[current], registries'[current])
    <3>1. best \in EnclaveNames /\ c \in Seeds
      BY <2>2, <2>3, <2>4 DEF Matches, Registry, Shapes, Seeds
    <3>2. CASE Matches(n) = {} /\ Full
      BY <2>2, <2>3, <3>2 DEF Grows
    <3>3. CASE ~(Matches(n) = {} /\ Full) /\ Creates(n)
      <4>1. registries'[current] = CreateEnclave(registries[current], n, c)
        BY <2>2, <2>3, <2>4, <3>3
      <4> QED BY <2>3, <2>4, <3>1, <3>3, <4>1, CreateEnclaveGrows DEF Creates
    <3>4. CASE ~(Matches(n) = {} /\ Full) /\ ~Creates(n)
      <4>1. registries'[current] = Subscribe(registries[current], {<<c, best>>})
        BY <2>2, <2>3, <2>4, <3>4
      <4>2. {<<c, best>>} \in SUBSET (Seeds \X EnclaveNames)
        BY <3>1
      <4> QED BY <2>3, <2>4, <4>1, <4>2, SubscribeGrows
    <3> QED BY <3>2, <3>3, <3>4
  <2> QED BY <1>0, <2>1, <2>4, QuietStep
<1>9. ASSUME DayPasses PROVE Goal
  <2>1. moods' \in [Inits -> SUBSET Residents]
        /\ UNCHANGED <<residents, setupVars, moods, evolving, registries, banned>>
    BY <1>9 DEF DayPasses, IntroducedInd, SetupTypeOK
  <2>2. current \in Inits => Grows(registries[current], registries'[current])
    BY <2>1 DEF Grows
  <2> QED BY <1>0, <2>1, <2>2, QuietStep
<1>10. ASSUME NEW i \in Inits, NEW c \in Residents, NEW n \in EnclaveNames, EnclaveApproved(i, c, n)
       PROVE  Goal
  <2>1. moods' \in [Inits -> SUBSET Residents]
        /\ UNCHANGED <<residents, setupVars, moods, evolving, banned>>
    BY <1>10 DEF EnclaveApproved, IntroducedInd, SetupTypeOK
  <2>2. registries \in [Inits -> Registry] /\ n \notin registries[i].enclaves /\ c \in Seeds
    BY <1>10 DEF IntroducedInd, EnclavesInd, EnclaveApproved, Seeds
  <2> DEFINE r == CreateEnclave(registries[i], n, c)
             s == [r EXCEPT !.moderators = @ \cup {<<c, n>>}]
  <2>3. r \in Registry /\ Grows(registries[i], r)
    BY <2>2, CreateEnclaveKeeps, CreateEnclaveGrows
  <2>4. registries' = [registries EXCEPT ![i] = s]
    BY <1>10 DEF EnclaveApproved
  <2> HIDE DEF r
  <2>5. s.enclaves = r.enclaves /\ s.members = r.members
    BY <2>3 DEF Registry, Shapes
  <2> HIDE DEF s
  <2>6. current \in Inits => Grows(registries[current], registries'[current])
    BY <2>2, <2>3, <2>4, <2>5 DEF Grows
  <2> QED BY <1>0, <2>1, <2>6, QuietStep
<1>11. ASSUME NEW i \in Inits, NEW c \in Residents,
              NEW scope \in {{}} \cup {{n} : n \in EnclaveNames}, AgentBanned(i, c, scope)
       PROVE  Goal
  BY <1>0, <1>11, BanIntroduces
<1>12. ASSUME UNCHANGED enclaveVars PROVE Goal
  <2>1. moods' \in [Inits -> SUBSET Residents]
        /\ UNCHANGED <<residents, setupVars, moods, evolving, registries, banned>>
    BY <1>12 DEF enclaveVars, IntroducedInd, SetupTypeOK
  <2>2. current \in Inits => Grows(registries[current], registries'[current])
    BY <2>1 DEF Grows
  <2> QED BY <1>0, <2>1, <2>2, QuietStep
<1> HIDE DEF Goal
<1>13. Goal
  BY <1>1, <1>2, <1>3, <1>4, <1>5, <1>6, <1>7, <1>8, <1>9, <1>10, <1>11, <1>12
     DEF EnclavesNext, AgentCreatesEnclave, PostProposesEnclave
<1> QED BY <1>0, <1>13 DEF Goal, IntroducedInd

(* Once no call of initializeEnclaveSystem is under way, and none failed,  *)
(* every citizen has a mood, evolves and is in the introductions enclave   *)
(* unless it was banned, however the calls overlapped with each other and  *)
(* with registrations (WonderlandNetwork.ts, initializeEnclaveSystem).     *)
THEOREM EveryCitizenIsIntroduced == EnclavesSpec => []CitizensIntroduced
<1>1. EnclavesInit => IntroducedInd
  <2>1. EnclavesInit => EnclavesInd
    BY DEF EnclavesInit, EnclavesInd, Registry, Shapes, Mirrored, Founded
  <2>2. EnclavesInit => SetupTypeOK
    <3> SUFFICES ASSUME EnclavesInit PROVE SetupTypeOK
      OBVIOUS
    <3>1. moods \in [Inits -> SUBSET Residents] /\ initCursor \in [Inits -> Nat]
      BY DEF EnclavesInit
    <3>2. initAt \in [Inits -> {"new", "enclaves", "memberships", "moods", "over", "failed"}]
      BY DEF EnclavesInit
    <3>3. /\ initialized \in BOOLEAN /\ current \in Inits \cup {NoInit}
          /\ moodOf \in [Inits -> Inits \cup {NoInit}]
      BY DEF EnclavesInit
    <3> QED BY <3>1, <3>2, <3>3 DEF SetupTypeOK
  <2>3. EnclavesInit => CallsOK /\ CurrentOK /\ EvolvingOK
    BY EnclavesAssumption DEF EnclavesInit, CallsOK, CurrentOK, EvolvingOK, SetsUpOnce
  <2> QED BY <2>1, <2>2, <2>3 DEF IntroducedInd
<1>2. IntroducedInd => CitizensIntroduced
  <2> SUFFICES ASSUME IntroducedInd, initialized, \A i \in Inits : initAt[i] \in {"new", "over"}
               PROVE  /\ browsing = current
                      /\ \A c \in ToSet(residents) :
                            /\ c \in moods[current] /\ c \in evolving
                            /\ c \in banned \/ <<Introductions, c>> \in registries[current].members
    BY DEF CitizensIntroduced
  <2>1. PICK i \in Inits : initAt[i] = "over"
    BY DEF IntroducedInd, CallsOK
  <2>2. current \in Inits /\ initAt[current] = "over"
    BY <2>1 DEF IntroducedInd, CallsOK
  <2>3. browsing = current /\ \A k \in 1..Len(residents) : InMood(k) /\ Introduced(k)
    BY <2>2 DEF IntroducedInd, CurrentOK, SetsUpOnce
  <2>4. \A k \in 1..Len(residents) : residents[k] \in evolving
    BY <2>1 DEF IntroducedInd, EvolvingOK, Evolved, SetsUpOnce
  <2>5. ToSet(residents) = {residents[k] : k \in 1..Len(residents)}
    BY DEF ToSet, IntroducedInd, EnclavesInd
  <2> QED BY <2>3, <2>4, <2>5 DEF InMood, Introduced
<1> QED BY <1>1, <1>2, IntroducedStep, PTL DEF EnclavesSpec
=============================================================================

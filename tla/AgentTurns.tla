----------------------------- MODULE AgentTurns -----------------------------
(***************************************************************************)
(* autonomy/social/WonderlandNetwork.ts: the guard chain around every LLM  *)
(* call of a citizen's newsroom (SafetyEngine, CostGuard, CircuitBreaker,  *)
(* StuckDetector), the timers that resume stuck agents, and the lifecycle  *)
(* calls that create and drop all of it.  A turn is one stimulus on its    *)
(* way through a newsroom: a few LLM calls, each awaited, then a post.     *)
(* Turns of one citizen overlap freely; every action is what runs between  *)
(* two awaits.  CircuitBreaker, CostGuard and StuckDetector come from      *)
(* @framers/agentos and are modelled from how this code uses them.         *)
(***************************************************************************)
EXTENDS SafetyEngine, Naturals, FiniteSets

CONSTANTS
    Slots,              \* the stimuli that can be under way at once
    Registrars,         \* the registerCitizen calls that can be under way
    MaxGen,             \* bound: registrations of one citizen
    Timers,             \* timeout handles
    NoAgent, NoTimer,
    FailureThreshold,   \* failures that open a breaker
    SuccessThreshold,   \* successes that close a half-open one
    RepeatThreshold,    \* identical outputs that make an agent stuck
    CostCap,            \* the cost at which an agent's cap is reached
    Costs               \* what a call can cost; 0 stands for no usage data

ASSUME AgentTurnsAssumption ==
    /\ MaxGen \in Nat
    /\ NoAgent \notin Agents /\ NoTimer \notin Timers
    /\ FailureThreshold \in Nat \ {0} /\ SuccessThreshold \in Nat \ {0}
    /\ RepeatThreshold \in Nat \ {0, 1}
    /\ CostCap \in Nat \ {0} /\ Costs \subseteq Nat
    /\ IsFiniteSet(Slots) /\ IsFiniteSet(Registrars)

VARIABLES
    running,            \* the network runs
    active,             \* the citizens that are subscribed and active
    gen,                \* how many registrations each citizen has had
    registering,        \* the citizen each pending registerCitizen is for
    breakerOf,          \* citizenCircuitBreakers: the registration whose breaker it holds, 0 if none
    breaker,            \* every breaker ever made
    spent,              \* CostGuard's total
    repeats,            \* StuckDetector: the run of identical outputs
    recovery,           \* stuckRecoveryTimers
    armed,              \* the agent each timeout handle will resume
    turn                \* the turns

lifeVars == <<running, active, gen, registering, breakerOf>>
timerVars == <<recovery, armed>>
agentVars == <<lifeVars, breaker, spent, repeats, timerVars, turn>>
vars == <<safetyVars, agentVars>>

Gens == 1..MaxGen
NewBreaker == [state |-> "closed", count |-> 0]
IdleTurn == [at |-> "idle", agent |-> NoAgent, breaker |-> 0]

Init ==
    /\ SafetyInit
    /\ running = FALSE
    /\ active = {}
    /\ gen = [a \in Agents |-> 0]
    /\ registering = [r \in Registrars |-> NoAgent]
    /\ breakerOf = [a \in Agents |-> 0]
    /\ breaker = [a \in Agents |-> [g \in Gens |-> NewBreaker]]
    /\ spent = [a \in Agents |-> 0]
    /\ repeats = [a \in Agents |-> 0]
    /\ recovery = [a \in Agents |-> NoTimer]
    /\ armed = [h \in Timers |-> NoAgent]
    /\ turn = [t \in Slots |-> IdleTurn]

-----------------------------------------------------------------------------
(* CircuitBreaker: what a failure and a success make of one.  `count` is   *)
(* of failures in the window while closed, of successes while half open.   *)
AfterFailure(b) ==
    IF b.state = "half" \/ (b.state = "closed" /\ b.count + 1 >= FailureThreshold)
    THEN [state |-> "open", count |-> 0]
    ELSE IF b.state = "closed" THEN [b EXCEPT !.count = @ + 1] ELSE b

AfterSuccess(b) ==
    IF b.state # "half" THEN b
    ELSE IF b.count + 1 >= SuccessThreshold THEN NewBreaker ELSE [b EXCEPT !.count = @ + 1]

(* The cooldown of an open breaker is over; the failures of a closed one   *)
(* leave its window.                                                       *)
BreakerCools(a, g) ==
    /\ breaker[a][g].state = "open"
    /\ breaker' = [breaker EXCEPT ![a][g] = [state |-> "half", count |-> 0]]
    /\ UNCHANGED <<safetyVars, lifeVars, spent, repeats, timerVars, turn>>

FailuresExpire(a, g) ==
    /\ breaker[a][g].state = "closed" /\ breaker[a][g].count > 0
    /\ breaker' = [breaker EXCEPT ![a][g].count = 0]
    /\ UNCHANGED <<safetyVars, lifeVars, spent, repeats, timerVars, turn>>

(* CostGuard: an agent at its cap cannot afford another call; a new day    *)
(* begins at nothing.                                                      *)
canAfford(a) == spent[a] < CostCap

CostWindowEnds(a) ==
    /\ spent[a] > 0
    /\ spent' = [spent EXCEPT ![a] = 0]
    /\ UNCHANGED <<safetyVars, lifeVars, breaker, repeats, timerVars, turn>>

(* StuckDetector: the run of identical outputs after one more output.      *)
Repeated(n, out) ==
    CASE out = "none" -> n
      [] out = "new" -> 1
      [] OTHER -> IF n < RepeatThreshold THEN n + 1 ELSE n

-----------------------------------------------------------------------------
(* Stuck recovery.  Cancelling clears the timer the map holds for a.       *)

Cancelled(a) == [h \in Timers |-> IF h = recovery[a] THEN NoAgent ELSE armed[h]]

(* Mutant: the timer the map holds is not cancelled first.                 *)
ScheduleWithoutCancel(a) ==
    \E h \in Timers :
        /\ armed[h] = NoAgent
        /\ armed' = [armed EXCEPT ![h] = a]
        /\ recovery' = [recovery EXCEPT ![a] = h]

ScheduleStuckRecovery(a) ==
    \E h \in Timers :
        /\ Cancelled(a)[h] = NoAgent
        /\ armed' = [Cancelled(a) EXCEPT ![h] = a]
        /\ recovery' = [recovery EXCEPT ![a] = h]

(* Mutant: the history is cleared and the agent left paused.               *)
RecoveryFiresNoResume(h) ==
    /\ armed[h] # NoAgent
    /\ armed' = [armed EXCEPT ![h] = NoAgent]
    /\ recovery' = [recovery EXCEPT ![armed[h]] = NoTimer]
    /\ IF running
       THEN repeats' = [repeats EXCEPT ![armed[h]] = 0]
       ELSE UNCHANGED repeats
    /\ UNCHANGED <<safetyVars, lifeVars, breaker, spent, turn>>

(* The timeout callback; a network that was stopped resumes nobody.        *)
RecoveryFires(h) ==
    /\ armed[h] # NoAgent
    /\ armed' = [armed EXCEPT ![h] = NoAgent]
    /\ recovery' = [recovery EXCEPT ![armed[h]] = NoTimer]
    /\ IF running
       THEN /\ repeats' = [repeats EXCEPT ![armed[h]] = 0]
            /\ agentStates' = [agentStates EXCEPT ![armed[h]] = Resumed(@)]
       ELSE UNCHANGED <<repeats, agentStates>>
    /\ UNCHANGED <<emergencyHalt, lifeVars, breaker, spent, turn>>

-----------------------------------------------------------------------------
(* Lifecycle.                                                              *)

(* The registrations of a citizen that are under way.                      *)
Pending(a) == {r \in Registrars : registering[r] = a}

(* registerCitizen up to its await: the citizen must not be active.        *)
RegisterBegins(r, a) ==
    /\ registering[r] = NoAgent /\ a \notin active
    /\ gen[a] + Cardinality(Pending(a)) < MaxGen
    /\ registering' = [registering EXCEPT ![r] = a]
    /\ UNCHANGED <<safetyVars, running, active, gen, breakerOf, breaker, spent, repeats, timerVars, turn>>

(* Mutant: a breaker the map already holds is kept.                        *)
RegisterEndsKeepingBreaker(r) ==
    LET a == registering[r] IN
    /\ a # NoAgent
    /\ registering' = [registering EXCEPT ![r] = NoAgent]
    /\ gen' = [gen EXCEPT ![a] = @ + 1]
    /\ breakerOf' = [breakerOf EXCEPT ![a] = IF @ = 0 THEN gen[a] + 1 ELSE @]
    /\ active' = active \cup {a}
    /\ UNCHANGED <<safetyVars, running, breaker, spent, repeats, timerVars, turn>>

(* ... and from there on: a fresh breaker, newsroom and subscription take  *)
(* the place of whatever the maps hold.  Safety state, costs and stuck     *)
(* history are those of the seed id, from before.                          *)
RegisterEnds(r) ==
    LET a == registering[r] IN
    /\ a # NoAgent
    /\ registering' = [registering EXCEPT ![r] = NoAgent]
    /\ gen' = [gen EXCEPT ![a] = @ + 1]
    /\ breakerOf' = [breakerOf EXCEPT ![a] = gen[a] + 1]
    /\ active' = active \cup {a}
    /\ UNCHANGED <<safetyVars, running, breaker, spent, repeats, timerVars, turn>>

UnregisterCitizen(a) ==
    /\ active' = active \ {a}
    /\ breakerOf' = [breakerOf EXCEPT ![a] = 0]
    /\ repeats' = [repeats EXCEPT ![a] = 0]
    /\ armed' = Cancelled(a)
    /\ recovery' = [recovery EXCEPT ![a] = NoTimer]
    /\ UNCHANGED <<safetyVars, running, gen, registering, breaker, spent, turn>>

StartNetwork ==
    /\ running' = TRUE
    /\ UNCHANGED <<safetyVars, active, gen, registering, breakerOf, breaker, spent, repeats, timerVars, turn>>

(* stop() clears every timer the map holds; turns under way go on.         *)
StopNetwork ==
    /\ running' = FALSE
    /\ armed' = [h \in Timers |-> IF \E a \in Agents : recovery[a] = h THEN NoAgent ELSE armed[h]]
    /\ recovery' = [a \in Agents |-> NoTimer]
    /\ UNCHANGED <<safetyVars, active, gen, registering, breakerOf, breaker, spent, repeats, turn>>

-----------------------------------------------------------------------------
(* Turns.                                                                  *)

(* Mutant: the handler is not bound to the agent it was subscribed for.    *)
StimulusArrivesUnbound(t, a) ==
    /\ turn[t].at = "idle"
    /\ running /\ a \in active
    /\ turn' = [turn EXCEPT ![t].at = "thinking"]
    /\ UNCHANGED <<safetyVars, lifeVars, breaker, spent, repeats, timerVars>>

(* A subscriber's handler is called while the network runs.                *)
StimulusArrives(t, a) ==
    /\ turn[t].at = "idle"
    /\ running /\ a \in active
    /\ turn' = [turn EXCEPT ![t] = [at |-> "thinking", agent |-> a, breaker |-> 0]]
    /\ UNCHANGED <<safetyVars, lifeVars, breaker, spent, repeats, timerVars>>

(* Mutant: no check of the cost cap.                                       *)
TurnCallsUnaffordable(t) ==
    LET a == turn[t].agent
        g == breakerOf[a]
    IN  /\ turn[t].at = "thinking"
        /\ canAct(a)
        /\ g # 0 => breaker[a][g].state # "open"
        /\ turn' = [turn EXCEPT ![t].at = "calling", ![t].breaker = g]
        /\ UNCHANGED <<safetyVars, lifeVars, breaker, spent, repeats, timerVars>>

(* The wrapped callback, up to the await of the provider.  When a guard    *)
(* refuses, it throws: the writer gives up (TurnEnds), the reply gate      *)
(* carries on, and nothing else changes.                                   *)
TurnCalls(t) ==
    LET a == turn[t].agent
        g == breakerOf[a]
    IN  /\ turn[t].at = "thinking"
        /\ canAct(a) /\ canAfford(a)
        /\ g # 0 => breaker[a][g].state # "open"
        /\ turn' = [turn EXCEPT ![t].at = "calling", ![t].breaker = g]
        /\ UNCHANGED <<safetyVars, lifeVars, breaker, spent, repeats, timerVars>>

(* The provider answers: the breaker counts a success (and, if that closes *)
(* it, resumes the agent), the cost is recorded (and pauses an agent that  *)
(* is at its cap), the output is checked for repetition (and pauses a      *)
(* stuck agent and schedules its recovery).  An answer with text and no    *)
(* tool calls can become a post.                                           *)
CallReturns(t) ==
    LET a == turn[t].agent
        g == turn[t].breaker
        closes == g # 0 /\ breaker[a][g].state = "half" /\ AfterSuccess(breaker[a][g]) = NewBreaker
        resumed == IF closes THEN Resumed(agentStates[a]) ELSE agentStates[a]
    IN  /\ turn[t].at = "calling"
        /\ \E cost \in Costs, out \in {"none", "new", "same"} :
             LET capped == cost > 0 /\ spent[a] + cost >= CostCap
                 charged == IF capped THEN Paused(resumed, "cost") ELSE resumed
                 stuck == out # "none" /\ Repeated(repeats[a], out) >= RepeatThreshold
                 judged == IF stuck THEN Paused(charged, "stuck") ELSE charged
             IN  /\ agentStates' = [agentStates EXCEPT ![a] = judged]
                 /\ spent' = [spent EXCEPT ![a] = @ + cost]
                 /\ repeats' = [repeats EXCEPT ![a] = Repeated(@, out)]
                 /\ IF stuck THEN ScheduleStuckRecovery(a) ELSE UNCHANGED timerVars
                 /\ \E at \in {"thinking"} \cup (IF out = "none" THEN {} ELSE {"drafted"}) :
                      turn' = [turn EXCEPT ![t].at = at, ![t].breaker = 0]
        /\ breaker' = IF g = 0 THEN breaker ELSE [breaker EXCEPT ![a][g] = AfterSuccess(@)]
        /\ UNCHANGED <<emergencyHalt, lifeVars>>

(* The provider fails: the breaker counts it and, if it opens, pauses the  *)
(* agent.                                                                  *)
CallFails(t) ==
    LET a == turn[t].agent
        g == turn[t].breaker
        opens == /\ g # 0 /\ breaker[a][g].state # "open"
                 /\ AfterFailure(breaker[a][g]).state = "open"
    IN  /\ turn[t].at = "calling"
        /\ turn' = [turn EXCEPT ![t].at = "thinking", ![t].breaker = 0]
        /\ breaker' = IF g = 0 THEN breaker ELSE [breaker EXCEPT ![a][g] = AfterFailure(@)]
        /\ agentStates' = IF opens THEN [agentStates EXCEPT ![a] = Paused(@, "breaker")]
                          ELSE agentStates
        /\ UNCHANGED <<emergencyHalt, lifeVars, spent, repeats, timerVars>>

(* The publisher phase hands the post to the publish callbacks, and the    *)
(* turn is over.                                                           *)
Publish(t) ==
    /\ turn[t].at = "drafted"
    /\ turn' = [turn EXCEPT ![t] = IdleTurn]
    /\ UNCHANGED <<safetyVars, lifeVars, breaker, spent, repeats, timerVars>>

(* The newsroom drops the stimulus: no reaction, a call that threw, or an  *)
(* answer that is no post.                                                 *)
TurnEnds(t) ==
    /\ turn[t].at = "thinking"
    /\ turn' = [turn EXCEPT ![t] = IdleTurn]
    /\ UNCHANGED <<safetyVars, lifeVars, breaker, spent, repeats, timerVars>>

-----------------------------------------------------------------------------
Next ==
    \/ ModeratorActs /\ UNCHANGED agentVars
    \/ StartNetwork \/ StopNetwork
    \/ \E a \in Agents : \/ UnregisterCitizen(a) \/ CostWindowEnds(a)
                         \/ \E r \in Registrars : RegisterBegins(r, a)
                         \/ \E t \in Slots : StimulusArrives(t, a)
                         \/ \E g \in Gens : BreakerCools(a, g) \/ FailuresExpire(a, g)
    \/ \E r \in Registrars : RegisterEnds(r)
    \/ \E h \in Timers : RecoveryFires(h)
    \/ \E t \in Slots : \/ TurnCalls(t) \/ CallReturns(t) \/ CallFails(t)
                        \/ Publish(t) \/ TurnEnds(t)

Spec == Init /\ [][Next]_vars

(* Timeouts fire, cooldowns pass, the provider answers or fails, stimuli   *)
(* keep coming and newsrooms act on them.  Nobody has to operate anything. *)
Fairness ==
    /\ \A h \in Timers : WF_vars(RecoveryFires(h))
    /\ \A a \in Agents, g \in Gens : WF_vars(BreakerCools(a, g))
    /\ \A t \in Slots :
         /\ WF_vars(CallReturns(t) \/ CallFails(t))
         /\ WF_vars(TurnCalls(t) \/ Publish(t) \/ TurnEnds(t))
         /\ \A a \in Agents : WF_vars(StimulusArrives(t, a))
FairSpec == Spec /\ Fairness

-----------------------------------------------------------------------------
Breakers == [state : {"closed", "open", "half"}, count : Nat]
TurnStates == [at : {"idle", "thinking", "calling", "drafted"},
               agent : Agents \cup {NoAgent}, breaker : Gens \cup {0}]

AgentsTypeOK ==
    /\ SafetyTypeOK
    /\ running \in BOOLEAN
    /\ active \subseteq Agents
    /\ gen \in [Agents -> 0..MaxGen]
    /\ registering \in [Registrars -> Agents \cup {NoAgent}]
    /\ breakerOf \in [Agents -> Gens \cup {0}]
    /\ breaker \in [Agents -> [Gens -> Breakers]]
    /\ spent \in [Agents -> Nat]
    /\ repeats \in [Agents -> 0..RepeatThreshold]
    /\ recovery \in [Agents -> Timers \cup {NoTimer}]
    /\ armed \in [Timers -> Agents \cup {NoAgent}]
    /\ turn \in [Slots -> TurnStates]
    /\ \A t \in Slots : turn[t].at # "idle" => turn[t].agent \in Agents

Calling(a) == {t \in Slots : turn[t].at = "calling" /\ turn[t].agent = a}

(* A timeout that can still resume an agent is the one the map holds for   *)
(* it: unregistering the agent or stopping the network leaves none behind. *)
TimersTracked ==
    /\ \A h \in Timers : armed[h] # NoAgent => recovery[armed[h]] = h
    /\ \A a \in Agents : recovery[a] # NoTimer => armed[recovery[a]] = a

(* No interleaving of registrations and unregistrations leaves an active   *)
(* citizen whose calls skip the circuit breaker, or go to that of an       *)
(* earlier registration.                                                   *)
ActiveHasBreaker == \A a \in active : gen[a] # 0 /\ breakerOf[a] = gen[a]

(* The cap is checked before a call and charged after it, so overlapping   *)
(* calls overshoot it, but by no more than one call per turn under way:    *)
(* an agent at its cap spends nothing even if somebody resumes it.         *)
SpendBounded ==
    \A a \in Agents : \A most \in Costs :
        (\A c \in Costs : c <= most)
        => spent[a] + most * Cardinality(Calling(a)) < CostCap + most * Cardinality(Slots)

(* The inductive invariant: besides the above, a stopped agent is paused,  *)
(* and the registrations under way stay within the bound.                  *)
StoppedIsPaused == \A a \in Agents : agentStates[a].stopped => agentStates[a].paused

RegistrationsBounded == \A a \in Agents : gen[a] + Cardinality(Pending(a)) <= MaxGen

AgentsInv ==
    /\ AgentsTypeOK /\ RegistrationsBounded /\ StoppedIsPaused
    /\ TimersTracked /\ ActiveHasBreaker /\ SpendBounded

(* "Permanently stop an agent" (SafetyEngine.ts:195): no operator resume,  *)
(* recovery timer, recovered breaker or re-registration makes it act.      *)
StoppedForGood ==
    [][\A a \in Agents : agentStates[a].stopped
         => /\ agentStates'[a].stopped /\ agentStates'[a].paused
            /\ Calling(a)' \subseteq Calling(a)]_vars

(* An agent paused as stuck, with its recovery pending, is resumed, however *)
(* often calls still under way postpone it, unless the network is stopped, *)
(* the citizen leaves or the agent is stopped for good.                    *)
IsStuck(a) == "stuck" \in agentStates[a].causes /\ ~agentStates[a].stopped
StuckAgentRecovers ==
    \A a \in Agents :
        IsStuck(a) /\ recovery[a] # NoTimer /\ running /\ a \in active
        ~> ~IsStuck(a) \/ ~running \/ a \notin active

(* Auto-recovery is "for a stuck-paused agent" (WonderlandNetwork.ts:629): *)
(* it does not lift a pause that a moderator, a cost cap or an open        *)
(* breaker stands behind.                                                  *)
RecoveryLiftsOnlyStuckPauses ==
    [][\A h \in Timers :
         RecoveryFires(h) /\ armed[h] # NoAgent /\ running /\ ~agentStates[armed[h]].stopped
         => agentStates[armed[h]].causes \subseteq {"stuck"}]_vars
=============================================================================

---------------------------- MODULE SafetyEngine ----------------------------
(***************************************************************************)
(* autonomy/social/SafetyEngine.ts: the killswitches every agent of the    *)
(* network is checked against.  A pause is one flag: the engine keeps no   *)
(* record of who set it beyond the text of the last reason, so anybody's   *)
(* resumeAgent lifts everybody's pause.  `causes` is a history variable    *)
(* that remembers what the pause in force was set for.                     *)
(***************************************************************************)
CONSTANTS
    Agents              \* seed ids

VARIABLES
    agentStates,        \* the AgentSafetyState of every agent
    emergencyHalt       \* the network-wide halt

safetyVars == <<agentStates, emergencyHalt>>

Causes == {"moderator", "cost", "stuck", "breaker"}
AgentSafetyState == [paused : BOOLEAN, stopped : BOOLEAN, causes : SUBSET Causes]

(* getOrCreateState's default.                                             *)
ActiveState == [paused |-> FALSE, stopped |-> FALSE, causes |-> {}]

SafetyInit ==
    /\ agentStates = [a \in Agents |-> ActiveState]
    /\ emergencyHalt = FALSE

(* What pauseAgent, resumeAgent and stopAgent make of an agent's state.    *)
Paused(s, cause) == [s EXCEPT !.paused = TRUE, !.causes = @ \cup {cause}]

(* Mutant: resuming takes no notice of the stopped flag.                   *)
ResumedRegardless(s) == [s EXCEPT !.paused = FALSE, !.causes = {}]

Resumed(s) == IF s.stopped THEN s ELSE [s EXCEPT !.paused = FALSE, !.causes = {}]

Stopped(s) == [s EXCEPT !.paused = TRUE, !.stopped = TRUE]

canAct(a) == ~emergencyHalt /\ ~agentStates[a].stopped /\ ~agentStates[a].paused

-----------------------------------------------------------------------------
(* The calls operators and moderators make.                                *)

(* pauseAgent, or flagContent at the critical severity; resolving the flag *)
(* later on resumes nobody.                                                *)
ModeratorPauses(a) ==
    /\ agentStates' = [agentStates EXCEPT ![a] = Paused(@, "moderator")]
    /\ UNCHANGED emergencyHalt

ModeratorResumes(a) ==
    /\ agentStates' = [agentStates EXCEPT ![a] = Resumed(@)]
    /\ UNCHANGED emergencyHalt

ModeratorStops(a) ==
    /\ agentStates' = [agentStates EXCEPT ![a] = Stopped(@)]
    /\ UNCHANGED emergencyHalt

EmergencyHaltNetwork == emergencyHalt' = TRUE /\ UNCHANGED agentStates

ResumeNetwork == emergencyHalt' = FALSE /\ UNCHANGED agentStates

ModeratorActs ==
    \/ EmergencyHaltNetwork \/ ResumeNetwork
    \/ \E a \in Agents : ModeratorPauses(a) \/ ModeratorResumes(a) \/ ModeratorStops(a)

SafetyTypeOK ==
    /\ agentStates \in [Agents -> AgentSafetyState]
    /\ emergencyHalt \in BOOLEAN
=============================================================================

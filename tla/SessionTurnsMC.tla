--------------------------- MODULE SessionTurnsMC ---------------------------
(* The turns of a process: agent turns queueing on one session while /chat *)
(* requests come in on the same or another one, with caps small enough to  *)
(* trim after two turns; a session of one of the other entry points; the   *)
(* outcomes of overlapping turns of one scope; and the text log of two     *)
(* sessions.  They share no state, so an instance runs one of them,        *)
(* `part`, and the others stand still.                                     *)
EXTENDS SessionTurns, Conversations, AdaptiveExecution, SessionLog, TLC

VARIABLE part

MCLoops == [d \in Doors |-> IF d = "library" THEN 1 ELSE 2]
MCNameOf == [s \in LogSessions |-> CHOOSE f \in LogNames : TRUE]
MCSymmetry == Permutations(Exchanges)

OddCall == CHOOSE c \in Calls : TRUE
OddChat == CHOOSE r \in Chats : TRUE

(* The turns stand in two scenes: the agent turns with one /chat request   *)
(* ("locked"), and one agent turn with all of them ("chats").              *)
Bystanders(scene) == IF scene = "locked" THEN Chats \ {OddChat} ELSE Calls \ {OddCall}

(* The agent turns are alike and so are the sessions, so it is enough to   *)
(* let one turn have a session of its own or share that of the others.     *)
SessionsInit ==
    LET first == CHOOSE k \in Keys : TRUE IN
    /\ part \in {"locked", "chats", "others", "outcomes", "log"}
    /\ TurnsInit /\ ConversationInit /\ AdaptiveInit /\ SessionLogInit
    /\ \A c \in Calls \ {OddCall} : keyOf[c] = first
    /\ \A r \in Chats \ {OddChat} : chatKey[r] = first
    /\ part # "locked" => keyOf[OddCall] = first /\ chatKey[OddChat] = first
    /\ part \notin {"locked", "chats"} => canUseLLM
    /\ part # "others" => door = "library"
    /\ part # "outcomes" => postgres /\ connected
    /\ part # "log" => \A c \in LogCalls : logCall[c].session = CHOOSE s \in LogSessions : TRUE

SessionsNext ==
    /\ UNCHANGED part
    /\ \/ /\ part \in {"locked", "chats"} /\ TurnsNext
          /\ \A t \in Bystanders(part) : IF t \in Calls THEN pc'[t] = "idle" ELSE stage'[t] = "new"
          /\ UNCHANGED <<conversationVars, adaptiveVars, logVars>>
       \/ part = "others" /\ ConversationNext /\ UNCHANGED <<vars, adaptiveVars, logVars>>
       \/ part = "outcomes" /\ AdaptiveNext /\ UNCHANGED <<vars, conversationVars, logVars>>
       \/ part = "log" /\ SessionLogNext /\ UNCHANGED <<vars, conversationVars, adaptiveVars>>

SessionsSpec ==
    SessionsInit /\ [][SessionsNext]_<<vars, conversationVars, adaptiveVars, logVars, part>>
=============================================================================

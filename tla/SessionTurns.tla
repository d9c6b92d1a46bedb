---------------------------- MODULE SessionTurns ----------------------------
(***************************************************************************)
(* Turns on the sessions of one server process: agent turns started by     *)
(* webhooks and cron (cli/commands/start/agent-turn.ts), which take the    *)
(* session's lock of KeyedMutex, and POST /chat turns                      *)
(* (cli/commands/start/routes/chat.ts), which do not.  Both work on        *)
(* deps.sessions, a plain Map from session key to a JavaScript array that  *)
(* is shared by reference, so arrays have an identity here: an array is    *)
(* named after the turn that allocated it.                                 *)
(***************************************************************************)
EXTENDS KeyedMutex, Sequences

CONSTANTS
    Chats,          \* the /chat requests; Calls are the agent turns
    NoArray,        \* no entry in the Map, or no array taken yet
    HardCap,        \* HISTORY_HARD_CAP: longer histories are trimmed
    KeepTail,       \* HISTORY_KEEP_TAIL: messages kept besides the system prompt
    Resets,         \* the values `reset` takes in the chat requests
    MaxToolCalls,   \* bound: tool calls the model makes in one tool round
    MaxRounds       \* maxRounds: iterations of the model and its tools in a turn

ASSUME TurnsAssumption ==
    /\ Chats \cap Calls = {}
    /\ NoArray \notin (Calls \cup Chats) \X {"base", "commit"}
    /\ HardCap \in Nat /\ KeepTail \in 1..(HardCap - 1)
    /\ Resets \subseteq BOOLEAN
    /\ MaxToolCalls \in Nat /\ MaxRounds \in Nat

VARIABLES
    canUseLLM,      \* deps.canUseLLM: the server was started with a model to call
    chatKey,        \* the session each /chat request names
    stage,          \* how far each turn's handling of the history has come
    sessions,       \* deps.sessions: session key -> array
    heap,           \* the contents of every array
    messages,       \* the array a turn got hold of when it began
    working,        \* the private copy a turn hands to runToolCallingTurn
    rounds          \* full tool rounds a /chat turn has behind it

histVars == <<canUseLLM, chatKey, stage, sessions, heap, messages, working, rounds>>
vars == <<mutexVars, histVars>>

Turns == Calls \cup Chats
Arrays == Turns \X {"base", "commit"}
Key(t) == IF t \in Chats THEN chatKey[t] ELSE keyOf[t]

(* A message: who says it, in which turn, and how many tool calls it makes. *)
(* "context" is the system message that starts with [Capability Context].  *)
Message(role, t) == [role |-> role, turn |-> t, calls |-> 0]

ToolCalls(t, n) == [role |-> "assistant", turn |-> t, calls |-> n]
ToolResults(t, n) == [i \in 1..n |-> Message("tool", t)]

TurnsInit ==
    /\ Init
    /\ canUseLLM \in BOOLEAN
    /\ chatKey \in [Chats -> Keys]
    /\ stage = [t \in Turns |-> "new"]
    /\ sessions = [k \in Keys |-> NoArray]
    /\ heap = [a \in Arrays |-> <<>>]
    /\ messages = [t \in Turns |-> NoArray]
    /\ working = [t \in Turns |-> <<>>]
    /\ rounds = [r \in Chats |-> 0]

(* Mutant: the cap is never applied.                                       *)
TrimmedNever(h) == h

(* Over the cap, the system prompt and the newest messages are kept.       *)
Trimmed(h) ==
    IF Len(h) > HardCap
    THEN <<Head(h)>> \o SubSeq(h, Len(h) - KeepTail + 1, Len(h))
    ELSE h

(* The synchronous stretch both kinds of turn begin with: take the array   *)
(* of the session, or seed or trim one into a new array; append the user   *)
(* message; copy the result.  `found` is what the Map holds at this point. *)
LoadAndPush(t, found) ==
    LET h == IF found = NoArray
             THEN <<Message("system", t)>>
             ELSE Trimmed(heap[found])
        fresh == found = NoArray \/ Len(heap[found]) > HardCap
        arr == IF fresh THEN <<t, "base">> ELSE found
        pushed == Append(h, Message("user", t))
    IN  /\ heap' = [heap EXCEPT ![arr] = pushed]
        /\ sessions' = [sessions EXCEPT ![Key(t)] = arr]
        /\ messages' = [messages EXCEPT ![t] = arr]
        /\ working' = [working EXCEPT ![t] = pushed]

-----------------------------------------------------------------------------
(* Agent turns, inside sessionMutex.runExclusive.                          *)

RunAgentTurn(c) == Enqueue(c) /\ UNCHANGED histVars

(* Mutant: the turn does not wait for the session's lock.                  *)
AgentBeginUnlocked(c) ==
    /\ canUseLLM /\ pc[c] = "waiting"
    /\ pc' = [pc EXCEPT ![c] = "running"]
    /\ LoadAndPush(c, sessions[keyOf[c]])
    /\ stage' = [stage EXCEPT ![c] = "calling"]
    /\ UNCHANGED <<canUseLLM, chatKey, rounds, keyOf, prior, tails, stamp, arrivals>>

AgentBegin(c) ==
    /\ canUseLLM /\ Start(c)
    /\ LoadAndPush(c, sessions[keyOf[c]])
    /\ stage' = [stage EXCEPT ![c] = "calling"]
    /\ UNCHANGED <<canUseLLM, chatKey, rounds>>

(* A server with no model to call reports the turn failed and leaves the   *)
(* history alone.                                                          *)
AgentRefuse(c) ==
    /\ ~canUseLLM /\ Start(c)
    /\ stage' = [stage EXCEPT ![c] = "refused"]
    /\ UNCHANGED <<canUseLLM, chatKey, sessions, heap, messages, working, rounds>>

(* Mutant: the reply only reaches the copy.                                *)
AgentReplyToCopy(c) ==
    /\ c \in Calls /\ stage[c] = "calling"
    /\ stage' = [stage EXCEPT ![c] = "replied"]
    /\ working' = [working EXCEPT ![c] = <<>>]
    /\ UNCHANGED <<mutexVars, canUseLLM, chatKey, sessions, heap, messages, rounds>>

(* runToolCallingTurn answers: the reply goes onto the array the turn took *)
(* at its beginning, whatever the Map holds by now; the copy is dropped.   *)
AgentReply(c) ==
    /\ c \in Calls /\ stage[c] = "calling"
    /\ stage' = [stage EXCEPT ![c] = "replied"]
    /\ heap' = [heap EXCEPT ![messages[c]] = Append(@, Message("assistant", c))]
    /\ working' = [working EXCEPT ![c] = <<>>]
    /\ UNCHANGED <<mutexVars, canUseLLM, chatKey, sessions, messages, rounds>>

(* It throws: the turn is reported failed, its user message stays.         *)
AgentFail(c) ==
    /\ c \in Calls /\ stage[c] = "calling"
    /\ stage' = [stage EXCEPT ![c] = "failed"]
    /\ working' = [working EXCEPT ![c] = <<>>]
    /\ UNCHANGED <<mutexVars, canUseLLM, chatKey, sessions, heap, messages, rounds>>

AgentLeave(c) ==
    /\ stage[c] \in {"replied", "failed", "refused"}
    /\ Release(c)
    /\ UNCHANGED histVars

-----------------------------------------------------------------------------
(* /chat turns: the same history handling, with no lock around it.         *)

ChatBegin(r) ==
    /\ stage[r] = "new"
    /\ \E reset \in Resets :
         LoadAndPush(r, IF reset THEN NoArray ELSE sessions[chatKey[r]])
    /\ stage' = [stage EXCEPT ![r] = "calling"]
    /\ UNCHANGED <<mutexVars, canUseLLM, chatKey, rounds>>

(* The capability context goes behind the system prompt and replaces the   *)
(* one of an earlier turn, which can only stand there (ContextsSecond).    *)
ContextReplaced(h, t) ==
    LET older == IF h[2].role = "context" THEN 2 ELSE 1 IN
    <<Head(h), Message("context", t)>> \o SubSeq(h, older + 1, Len(h))

(* discoverForTurn answers; when it fails, has no answer or is not there   *)
(* at all, the turn goes on without this step.                             *)
ChatDiscover(r) ==
    /\ stage[r] = "calling" /\ canUseLLM
    /\ rounds[r] = 0 /\ working[r][2] # Message("context", r)
    /\ working' = [working EXCEPT ![r] = ContextReplaced(@, r)]
    /\ UNCHANGED <<mutexVars, canUseLLM, chatKey, stage, sessions, heap, messages, rounds>>

(* The messages of a tool round: the calls asked for, those answered.      *)
Round(t, asked, answered) == <<ToolCalls(t, asked)>> \o ToolResults(t, answered)

(* runToolCallingTurn pushes a full round of tool calls onto the copy.     *)
ChatRound(r) ==
    /\ stage[r] = "calling" /\ canUseLLM
    /\ rounds[r] < MaxRounds
    /\ \E n \in 1..MaxToolCalls :
         working' = [working EXCEPT ![r] = @ \o Round(r, n, n)]
    /\ rounds' = [rounds EXCEPT ![r] = @ + 1]
    /\ UNCHANGED <<mutexVars, canUseLLM, chatKey, stage, sessions, heap, messages>>

(* What it pushes last before it returns: the reply; nothing when the      *)
(* rounds are used up or the checkpoint behind one is rejected; or, under  *)
(* fail_closed, a round cut short at the first tool that failed, with the  *)
(* failure as the reply.  Without a model nothing is pushed either.        *)
Endings(r) ==
    LET reply == <<Message("assistant", r)>>
        cut == {p \in (1..MaxToolCalls) \X (1..MaxToolCalls) : p[2] <= p[1]}
    IN  IF ~canUseLLM \/ rounds[r] = MaxRounds THEN {<<>>}
        ELSE {reply}
             \cup {w \in {<<>>} : rounds[r] > 0}
             \cup {Round(r, p[1], p[2]) \o reply : p \in cut}

ChatCommit(r) ==
    /\ stage[r] = "calling"
    /\ \E said \in Endings(r) :
         heap' = [heap EXCEPT ![<<r, "commit">>] = working[r] \o said]
    /\ sessions' = [sessions EXCEPT ![chatKey[r]] = <<r, "commit">>]
    /\ stage' = [stage EXCEPT ![r] = "replied"]
    /\ working' = [working EXCEPT ![r] = <<>>]
    /\ UNCHANGED <<mutexVars, canUseLLM, chatKey, messages, rounds>>

ChatFail(r) ==
    /\ stage[r] = "calling" /\ canUseLLM
    /\ stage' = [stage EXCEPT ![r] = "failed"]
    /\ working' = [working EXCEPT ![r] = <<>>]
    /\ UNCHANGED <<mutexVars, canUseLLM, chatKey, sessions, heap, messages, rounds>>

TurnsNext ==
    \/ \E c \in Calls : \/ RunAgentTurn(c) \/ AgentBegin(c) \/ AgentRefuse(c)
                        \/ AgentReply(c) \/ AgentFail(c) \/ AgentLeave(c)
    \/ \E r \in Chats : \/ ChatBegin(r) \/ ChatDiscover(r) \/ ChatRound(r)
                        \/ ChatCommit(r) \/ ChatFail(r)

TurnsSpec == TurnsInit /\ [][TurnsNext]_vars
-----------------------------------------------------------------------------
Messages ==
    [role : {"system", "context", "user", "assistant", "tool"}, turn : Turns, calls : 0..MaxToolCalls]
TurnStages == {"new", "calling", "replied", "failed", "refused"}

TurnsTypeOK ==
    /\ TypeOK
    /\ canUseLLM \in BOOLEAN
    /\ chatKey \in [Chats -> Keys]
    /\ stage \in [Turns -> TurnStages]
    /\ sessions \in [Keys -> Arrays \cup {NoArray}]
    /\ heap \in [Arrays -> Seq(Messages)]
    /\ messages \in [Turns -> Arrays \cup {NoArray}]
    /\ working \in [Turns -> Seq(Messages)]
    /\ rounds \in [Chats -> 0..MaxRounds]

History(k) == IF sessions[k] = NoArray THEN <<>> ELSE heap[sessions[k]]
Says(k, m) == \E i \in 1..Len(History(k)) : History(k)[i] = m
AgentsOnly(k) == \A r \in Chats : chatKey[r] # k
Begun(k) == {c \in Calls : keyOf[c] = k /\ stage[c] \notin {"new", "refused"}}

(* On a session only agent turns use, the read-modify-write of two turns   *)
(* never interleaves: a reply stands directly behind the message it        *)
(* answers (which trimming may have cut off, leaving the reply second).    *)
ReplyAnswersItsMessage ==
    \A k \in {x \in Keys : AgentsOnly(x)} :
        \A i \in 3..Len(History(k)) :
            LET m == History(k)[i] IN
            m.role = "assistant" => History(k)[i - 1] = Message("user", m.turn)

(* ... and no turn's message or reply is lost otherwise than by trimming,  *)
(* which takes the oldest turns first and never the newest.                *)
NoTurnLost ==
    \A k \in {x \in Keys : AgentsOnly(x)} :
        /\ \A c, d \in Begun(k) :
             Ahead(c, d) /\ Says(k, Message("user", c)) => Says(k, Message("user", d))
        /\ Begun(k) # {} => \E c \in Begun(k) : Says(k, Message("user", c))
        /\ \A c \in Begun(k) :
             Says(k, Message("user", c)) /\ stage[c] = "replied"
             => Says(k, Message("assistant", c))

(* What the session's lock is there for: no turn's part of the history is  *)
(* torn apart or lost to another turn.                                     *)
LockedTurnsKept == ReplyAnswersItsMessage /\ NoTurnLost

(* However agent and /chat turns interleave, a session's history stays     *)
(* within the cap plus what a single turn adds - its message, a context,   *)
(* the rounds, the reply - and carries one capability context at most,     *)
(* behind the system prompt: an older one never survives further down.     *)
Longest == HardCap + 3 + MaxRounds * (MaxToolCalls + 1)
ContextsSecond(h) == \A i \in 1..Len(h) : h[i].role = "context" => i = 2
HistoryBounded ==
    \A k \in Keys : Len(History(k)) <= Longest /\ ContextsSecond(History(k))

(* keyed-mutex.ts:6-10 says turns on a session are serialised, a webhook   *)
(* turn and a /chat request among them, so that none corrupts the history: *)
(* the reply of a turn that succeeded is in its session.  (Stated for      *)
(* histories short enough never to be trimmed, no reset, and a server      *)
(* with a model to call.)                                                  *)
NoReplyLost ==
    \A t \in Turns :
        stage[t] = "replied" /\ canUseLLM => \E i \in 1..Len(History(Key(t))) :
            History(Key(t))[i].turn = t /\ History(Key(t))[i].role = "assistant"
=============================================================================

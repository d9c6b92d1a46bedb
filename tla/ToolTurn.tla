------------------------------ MODULE ToolTurn -------------------------------
(***************************************************************************)
(* A conversation of an agent with its user, one turn after the other:     *)
(* runToolCallingTurn (runtime/tools/tool-calling.ts) and its streaming    *)
(* variant streamToolCallingTurn (ToolStreamProcessor.ts), which the voice *)
(* sessions of cli/commands/chat.ts use, with what both delegate to        *)
(* ToolApprovalHandler.ts: the permission prompts, the folder guardrails   *)
(* (SafeGuardrails.ts, FolderPermissions.ts) and the execution of a tool,  *)
(* request_folder_access among them.                                       *)
(*                                                                         *)
(* A turn asks the model; the model answers with text, which ends the      *)
(* turn, or with tool calls, which are worked off one by one before the    *)
(* model is asked again.  Each await is a stage, "at".  Of the messages    *)
(* only counts are kept: the calls of the last assistant message, how many *)
(* were taken up, how many tool messages answer them, and how many calls   *)
(* of finished turns no message answers.                                   *)
(***************************************************************************)
EXTENDS Integers, Sequences

CONSTANTS Paths,       \* files and directories a tool call may touch
          Protected,   \* those NON_ESCALATABLE_PATTERNS match
          Around,      \* Around[p]: the paths in the directory that holds p
          Below,       \* Below[p]: the paths under p
          Configs,     \* folder configurations the agent may start with
          MaxTurns,    \* bound: turns of the conversation
          MaxRounds,   \* maxRounds
          MaxCalls     \* bound: tool calls in one assistant message

Ops == {"read", "write"}

(* A rule of the agent's folder configuration: the paths its pattern       *)
(* matches and what it permits there.                                      *)
Rules == [covers : SUBSET Paths, ops : SUBSET Ops]

ASSUME ToolTurnAssumption ==
    /\ Protected \subseteq Paths
    /\ Around \in [Paths -> SUBSET Paths] /\ \A p \in Paths : p \in Around[p]
    /\ Below \in [Paths -> SUBSET Paths]
    /\ Configs \subseteq [rules : Seq(Rules), open : SUBSET (Paths \X Ops)]
    /\ MaxTurns \in Nat /\ MaxRounds \in Nat \ {0} /\ MaxCalls \in Nat \ {0}

(* A call the model may make: of a tool that is not in the tool map, of    *)
(* request_folder_access, or of any other tool, with its risk tier, the    *)
(* paths in its arguments, what getOperation takes the call for, and what  *)
(* the escalation takes it for, which goes by the tool's name alone and so *)
(* may miss a write.                                                       *)
Calls == {c \in [tool : {"unknown", "request", "plain"}, tier : 1..3,
                 paths : SUBSET Paths, op : Ops, named : Ops] :
             /\ c.named = "write" => c.op = "write"
             /\ c.tool = "unknown" => c.paths = {} /\ c.tier = 1 /\ c.op = "read"
             /\ c.tool = "request" => c.named = c.op /\ \E p \in Paths : c.paths = {p}}

NoCall == [tool |-> "none"]

VARIABLES
    mode,      \* options of the session: streaming, dangerouslySkipPermissions,
               \* toolFailureMode, askCheckpoint; the initial configuration
    turns,     \* turns begun
    at,        \* what the turn waits for
    round,     \* currentRound
    aborted,   \* the turn's signal (streaming only)
    asked,     \* tool calls of the last assistant message
    taken,     \* how many of them were taken up
    answered,  \* tool messages after it
    orphans,   \* calls of finished turns without a tool message
    replies,   \* assistant messages without calls that the turn pushed
    garbled,   \* a tool message's content is a promise
    call,      \* the call being worked on
    agreed,    \* hitlApproved: its permission prompt was answered yes
    rules,     \* folderPermissions.rules of the agent
    grants,    \* history: the paths and operations addFolderRule opened
    consents   \* history: those the user agreed to

turnVars == <<turns, at, round, aborted>>
talkVars == <<asked, taken, answered, orphans, replies, garbled>>
callVars == <<call, agreed>>
folderVars == <<rules, grants, consents>>
toolVars == <<mode, turnVars, talkVars, callVars, folderVars>>

-----------------------------------------------------------------------------
(* Folders.                                                                *)

(* checkFolderAccess: the first rule that matches decides.                 *)
RuleAllows(rs, f, op) ==
    \E i \in DOMAIN rs : /\ f \in rs[i].covers
                         /\ op \in rs[i].ops
                         /\ \A j \in 1..(i - 1) : f \notin rs[j].covers

Matched(rs, f) == \E i \in DOMAIN rs : f \in rs[i].covers

(* Where no rule matches, the default policy or the security tier does.    *)
Allowed(rs, f, op) ==
    RuleAllows(rs, f, op) \/ (~ Matched(rs, f) /\ <<f, op>> \in mode.config.open)

Wanted(c) == {"read"} \cup {c.named}

(* addFolderRule pushes: the new rule is the last to be tried.  The rules  *)
(* for the paths of one call stand for one.                                *)
Grant(c, ps, Scope) ==
    /\ rules' = Append(rules, [covers |-> UNION {Scope[p] : p \in ps}, ops |-> Wanted(c)])
    /\ grants' = grants \cup (ps \X Wanted(c))

Agree(c, ps) == consents' = consents \cup (ps \X Wanted(c))

(* validateBeforeExecution; request_folder_access is no filesystem tool.   *)
Denied(c) == IF c.tool = "plain" THEN {p \in c.paths : ~ Allowed(rules, p, c.op)} ELSE {}

-----------------------------------------------------------------------------
(* Ways a stage is left.                                                   *)

Goes(stage) == at' = stage /\ UNCHANGED <<turns, round, aborted>>

(* The turn returns, having pushed this many more tool messages and        *)
(* replies; calls it leaves unanswered stay so.                            *)
Ends(pushed, said) ==
    /\ at' = "idle" /\ round' = 0 /\ aborted' = FALSE /\ turns' = turns
    /\ orphans' = orphans + (asked - answered - pushed)
    /\ replies' = replies + said
    /\ asked' = 0 /\ taken' = 0 /\ answered' = 0
    /\ call' = NoCall /\ agreed' = FALSE

(* The call got its tool message and the turn goes on to the next.         *)
Answered ==
    /\ Goes("next")
    /\ taken' = taken + 1 /\ answered' = answered + 1
    /\ call' = NoCall /\ agreed' = FALSE
    /\ UNCHANGED <<asked, orphans, replies>>

(* Mutant: no tool message for a call that failed.                         *)
FailedUnanswered(said) ==
    IF mode.failClosed THEN Ends(0, said)
    ELSE /\ Goes("next")
         /\ taken' = taken + 1
         /\ call' = NoCall /\ agreed' = FALSE
         /\ UNCHANGED <<asked, answered, orphans, replies>>

(* A call that failed: under fail_closed its message ends the turn, with   *)
(* the failure as the reply.                                               *)
Failed(said) == IF mode.failClosed THEN Ends(1, said) ELSE Answered

(* buildToolResultPayload is async; only runToolCallingTurn awaits it.     *)
Payload == garbled' = (garbled \/ mode.streaming)

(* What sendText does with the text of a turn that was cut short: it       *)
(* records it, if there is any.                                            *)
Partial == IF mode.streaming THEN {0, 1} ELSE {0}

AskModel == at' = "asking" /\ round' = round + 1 /\ UNCHANGED <<turns, aborted>>
-----------------------------------------------------------------------------
ToolInit ==
    /\ mode \in {m \in [streaming : BOOLEAN, skip : BOOLEAN, failClosed : BOOLEAN,
                        checkpoint : BOOLEAN, config : Configs] :
                   m.checkpoint => ~ m.streaming /\ ~ m.skip}
    /\ turns = 0 /\ at = "idle" /\ round = 0 /\ aborted = FALSE
    /\ asked = 0 /\ taken = 0 /\ answered = 0
    /\ orphans = 0 /\ replies = 0 /\ garbled = FALSE
    /\ call = NoCall /\ agreed = FALSE
    /\ rules = mode.config.rules /\ grants = {} /\ consents = {}

(* The next user message; the security pipeline may answer it right away.  *)
UserSpeaks ==
    /\ at = "idle" /\ turns < MaxTurns
    /\ turns' = turns + 1
    /\ \/ at' = "asking" /\ round' = 1 /\ replies' = 0
       \/ at' = "idle" /\ round' = 0 /\ replies' = 1
    /\ UNCHANGED <<mode, aborted, asked, taken, answered, orphans, garbled, callVars, folderVars>>

(* Barge-in: abort() of the voice session raises the turn's signal.        *)
Abort ==
    /\ mode.streaming /\ at # "idle" /\ ~ aborted
    /\ aborted' = TRUE
    /\ UNCHANGED <<mode, turns, at, round, talkVars, callVars, folderVars>>

(* Text: think tags off, the pipeline's verdict, and the reply is pushed.  *)
ModelReplies ==
    /\ at = "asking" /\ ~ aborted
    /\ Ends(0, 1)
    /\ UNCHANGED <<mode, garbled, folderVars>>

(* Tool calls: the assistant message that carries them is pushed.          *)
ModelCalls ==
    /\ at = "asking" /\ ~ aborted
    /\ Goes("next")
    /\ asked' \in 1..MaxCalls /\ taken' = 0 /\ answered' = 0
    /\ UNCHANGED <<mode, orphans, replies, garbled, callVars, folderVars>>

(* Neither provider answers: the turn throws.                              *)
ModelFails ==
    /\ at = "asking"
    /\ Ends(0, 0)
    /\ UNCHANGED <<mode, garbled, folderVars>>

StreamAborted ==
    /\ at = "asking" /\ aborted
    /\ \E said \in Partial : Ends(0, said)
    /\ UNCHANGED <<mode, garbled, folderVars>>
-----------------------------------------------------------------------------
(* The next call is looked up and authorized; only the server registers    *)
(* request_folder_access, and not in skip mode.  Tiers 1 and 2 pass; so does *)
(* everything in skip mode; for tier 3 the manager's own callback always   *)
(* declines, which makes authorizeToolCall ask the user.                   *)
NextCall ==
    /\ at = "next" /\ taken < asked /\ ~ aborted
    /\ \E c \in {d \in Calls : d.tool = "request" => ~ mode.skip /\ ~ mode.streaming} :
         IF c.tool = "unknown" THEN Failed(1)
         ELSE /\ Goes(IF c.tier = 3 /\ ~ mode.skip THEN "permission" ELSE "guardrails")
              /\ call' = c
              /\ UNCHANGED <<asked, taken, answered, orphans, replies, agreed>>
    /\ UNCHANGED <<mode, garbled, folderVars>>

AbortedBetweenCalls ==
    /\ at = "next" /\ aborted
    /\ \E said \in Partial : Ends(0, said)
    /\ UNCHANGED <<mode, garbled, folderVars>>

(* All calls of the round are answered: the operator's checkpoint, the     *)
(* model again, or the end of the rounds.                                  *)
RoundOver ==
    /\ at = "next" /\ taken = asked /\ ~ aborted
    /\ \/ round = MaxRounds /\ \E said \in Partial : Ends(0, said)
       \/ /\ round < MaxRounds
          /\ IF mode.checkpoint THEN Goes("checkpoint") ELSE AskModel
          /\ UNCHANGED <<asked, taken, answered, orphans, replies, callVars>>
    /\ UNCHANGED <<mode, garbled, folderVars>>

CheckpointAnswered ==
    /\ at = "checkpoint"
    /\ \/ AskModel /\ UNCHANGED <<asked, taken, answered, orphans, replies, callVars>>
       \/ Ends(0, 0)
    /\ UNCHANGED <<mode, garbled, folderVars>>

PermissionGiven ==
    /\ at = "permission"
    /\ agreed' = TRUE /\ Goes("guardrails")
    /\ Agree(call, call.paths)
    /\ UNCHANGED <<mode, talkVars, call, rules, grants>>

(* Mutant: a refusal in skip-less mode is taken for an answer like another.*)
PermissionRefusedIgnored ==
    /\ at = "permission"
    /\ Goes("guardrails")
    /\ UNCHANGED <<mode, talkVars, callVars, folderVars>>

(* authorizeToolCall pushes the denial and, under fail_closed, the reply;  *)
(* the streaming loop pushes the reply once more.                          *)
PermissionRefused ==
    /\ at = "permission"
    /\ Failed(IF mode.streaming THEN 2 ELSE 1)
    /\ UNCHANGED <<mode, garbled, folderVars>>
-----------------------------------------------------------------------------
(* executeWithGuardrails.                                                  *)

(* file_read of a directory fails before anything else is looked at.       *)
ReadsDirectory ==
    /\ at = "guardrails" /\ call.tool = "plain" /\ call.op = "read"
    /\ Failed(1) /\ Payload
    /\ UNCHANGED <<mode, folderVars>>

(* Mutant: one path that may be escalated is enough.                       *)
GuardrailsAnyEscalatable ==
    /\ at = "guardrails"
    /\ LET D == Denied(call) IN
       \/ D = {} /\ Goes("executing") /\ UNCHANGED <<talkVars, callVars, folderVars>>
       \/ D # {} /\ D \subseteq Protected /\ Failed(1) /\ Payload /\ UNCHANGED folderVars
       \/ /\ D \ Protected # {}
          /\ IF agreed \/ mode.skip
             THEN Goes("executing") /\ Grant(call, D, Around)
             ELSE Goes("folders") /\ UNCHANGED <<rules, grants>>
          /\ UNCHANGED <<talkVars, callVars, consents>>
    /\ UNCHANGED mode

(* The folders of the call are allowed, or not to be had, or granted       *)
(* because the user agreed to the call itself, or asked for.               *)
Guardrails ==
    /\ at = "guardrails"
    /\ LET D == Denied(call) IN
       \/ D = {} /\ Goes("executing") /\ UNCHANGED <<talkVars, callVars, folderVars>>
       \/ D \cap Protected # {} /\ Failed(1) /\ Payload /\ UNCHANGED folderVars
       \/ /\ D # {} /\ D \cap Protected = {}
          /\ IF agreed \/ mode.skip
             THEN Goes("executing") /\ Grant(call, D, Around)
             ELSE Goes("folders") /\ UNCHANGED <<rules, grants>>
          /\ UNCHANGED <<talkVars, callVars, consents>>
    /\ UNCHANGED mode

FoldersGiven ==
    /\ at = "folders"
    /\ Goes("executing")
    /\ Grant(call, Denied(call), Around) /\ Agree(call, Denied(call))
    /\ UNCHANGED <<mode, talkVars, callVars>>

FoldersRefused ==
    /\ at = "folders"
    /\ Failed(1) /\ Payload
    /\ UNCHANGED <<mode, folderVars>>

(* tool.execute succeeds, reports a failure or throws.                     *)
ToolRuns ==
    /\ at = "executing" /\ call.tool = "plain"
    /\ Answered \/ Failed(1)
    /\ Payload
    /\ UNCHANGED <<mode, folderVars>>

(* request_folder_access: a protected folder fails, one that is open is    *)
(* reported so; its check does not know the security tier.                 *)
FolderRequested ==
    /\ at = "executing" /\ call.tool = "request"
    /\ \E f \in call.paths :
         \/ f \in Protected /\ Failed(1) /\ Payload
         \/ f \notin Protected /\ Allowed(rules, f, call.op) /\ Answered /\ Payload
         \/ /\ f \notin Protected /\ ~ RuleAllows(rules, f, call.op)
            /\ Goes("request") /\ UNCHANGED <<talkVars, callVars>>
    /\ UNCHANGED <<mode, folderVars>>

RequestGiven ==
    /\ at = "request"
    /\ Grant(call, call.paths, Below) /\ Agree(call, call.paths)
    /\ Answered /\ Payload
    /\ UNCHANGED mode

(* A refusal is a success of the tool: it reports what the user said.      *)
RequestRefused ==
    /\ at = "request"
    /\ Answered /\ Payload
    /\ UNCHANGED <<mode, folderVars>>

ToolNext ==
    \/ UserSpeaks \/ Abort
    \/ ModelReplies \/ ModelCalls \/ ModelFails \/ StreamAborted
    \/ NextCall \/ AbortedBetweenCalls \/ RoundOver \/ CheckpointAnswered
    \/ PermissionGiven \/ PermissionRefused
    \/ ReadsDirectory \/ Guardrails \/ FoldersGiven \/ FoldersRefused
    \/ ToolRuns \/ FolderRequested \/ RequestGiven \/ RequestRefused

ToolSpec == ToolInit /\ [][ToolNext]_toolVars
-----------------------------------------------------------------------------
(* Properties.                                                             *)

Stages == {"idle", "asking", "next", "checkpoint", "permission", "guardrails",
           "folders", "executing", "request"}

AtCall == at \in {"permission", "guardrails", "folders", "executing", "request"}

(* The paths a grant for p can have opened.                                *)
Scope(p) == Around[p] \cup Below[p]

(* Opened to the operation by a grant, for the path itself or for another. *)
Opened(p, op) == \E g \in grants : p \in Scope(g[1]) /\ op = g[2]

TurnTypeOK ==
    /\ mode \in [streaming : BOOLEAN, skip : BOOLEAN, failClosed : BOOLEAN,
                 checkpoint : BOOLEAN, config : Configs]
    /\ at \in Stages /\ turns \in 0..MaxTurns /\ round \in 0..MaxRounds
    /\ aborted \in BOOLEAN /\ garbled \in BOOLEAN /\ agreed \in BOOLEAN
    /\ asked \in 0..MaxCalls /\ taken \in Nat /\ answered \in Nat
    /\ orphans \in Nat /\ replies \in Nat
    /\ IF AtCall THEN call \in Calls ELSE call = NoCall
    /\ rules \in Seq(Rules)
    /\ grants \subseteq Paths \X Ops /\ consents \subseteq Paths \X Ops

(* The counts of tool messages keep step with the calls: each call that    *)
(* was taken up has one message, and one being worked on has none yet.     *)
CountsOK ==
    /\ taken = answered /\ taken <= asked
    /\ AtCall => taken < asked
    /\ at = "idle" => asked = 0
    /\ aborted => mode.streaming

(* The model is asked again, and the operator's checkpoint put, only when  *)
(* every call of the last assistant message has its tool message, which    *)
(* the providers insist on; a conversation keeps an unanswered call only   *)
(* when fail_closed or a barge-in cut a turn short.                        *)
CallsAnswered ==
    /\ at \in {"asking", "checkpoint"} => answered = asked
    /\ orphans > 0 => mode.failClosed \/ mode.streaming

(* A turn moves through its stages with well-formed data, the calls taken  *)
(* up are the calls answered, one tool message each, whatever way each of  *)
(* them ended, and none is left unanswered where the turn goes on.         *)
ToolTurnInv == TurnTypeOK /\ CountsOK /\ CallsAnswered

(* A tool runs only with the consent it needs: outside skip mode the user  *)
(* said yes to a tier 3 call, and whatever unprotected path the call       *)
(* touches the initial configuration opens, or it lies in the scope of a   *)
(* path that is not protected and that the user agreed to open.            *)
OnlyConsentedCallsRun ==
    at = "executing" =>
        /\ call.tier = 3 /\ ~ mode.skip => agreed
        /\ call.tool = "plain" =>
               \A p \in call.paths \ Protected :
                   \/ Allowed(mode.config.rules, p, call.op)
                   \/ \E g \in grants :
                         /\ p \in Scope(g[1]) /\ g[1] \notin Protected
                         /\ mode.skip \/ g \in consents

(* The folder rules grow only by what the user agreed to, never by a rule  *)
(* asked for a protected path, and open no unprotected path that the       *)
(* initial configuration closes beyond the scope of those grants.          *)
GrantsMatchConsent ==
    /\ \A g \in grants : g[1] \notin Protected /\ (mode.skip \/ g \in consents)
    /\ \A p \in Paths \ Protected, op \in Ops :
           Allowed(rules, p, op) => Allowed(mode.config.rules, p, op) \/ Opened(p, op)

(* SafeGuardrails.ts:149-153: paths "that can NEVER be escalated, even     *)
(* with explicit user approval", which only the configuration opens.       *)
ProtectedStayClosed ==
    \A p \in Protected, op \in Ops :
        Allowed(rules, p, op) => Allowed(mode.config.rules, p, op)

(* buildToolResultPayload returns the text to push into the conversation:  *)
(* no tool message carries a promise in its place.                         *)
ToolMessagesCarryText == ~ garbled
=============================================================================

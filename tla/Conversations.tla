--------------------------- MODULE Conversations ----------------------------
(***************************************************************************)
(* The histories of the sessions that no KeyedMutex guards, one session of *)
(* one entry point: the library's session object (public/index.ts), POST   *)
(* /chat of the API server (channels/api/routes/chat.ts), and the inbound  *)
(* messages of a conversation (channels/api/server.ts and the CLI's        *)
(* channel-handler.ts), which a chain of promises puts in a queue.  All    *)
(* hand the live history to runToolCallingTurn, and the library also       *)
(* copies it to checkpoints and back.  A history is a JavaScript array,    *)
(* held by reference, so arrays have names here: that of the exchange,     *)
(* checkpoint or resume call that allocated it.                            *)
(***************************************************************************)
EXTENDS Naturals, Sequences, FiniteSets

CONSTANTS
    Exchanges,      \* the user messages that come in, each with its turn
    MaxDirect,      \* bound: how many come in where there is no queue
    Checkpoints, Resumes,   \* the calls of checkpoint() and resume()
    NoExchange, NoList,
    HistoryCap, HistoryTail,    \* 200 and 120 in the code
    MaxLoops,       \* maxRounds of each entry point
    MaxAsked        \* bound: tool calls in one message of the model

Doors == {"library", "api", "channel"}

ASSUME ConversationAssumption ==
    /\ IsFiniteSet(Exchanges) /\ NoExchange \notin Exchanges /\ MaxDirect \in Nat
    /\ Exchanges \cap (Checkpoints \cup Resumes) = {} /\ Checkpoints \cap Resumes = {}
    /\ LET named == Exchanges \cup Checkpoints \cup Resumes
           copies == Checkpoints \X {"copy"}
       IN  named \cap copies = {} /\ NoList \notin named \cup copies
    /\ HistoryTail \in Nat \ {0} /\ HistoryCap \in Nat /\ HistoryTail <= HistoryCap
    /\ MaxLoops \in [Doors -> Nat \ {0}] /\ MaxAsked \in Nat \ {0}

VARIABLES
    door,       \* the entry point: "library", "api" or "channel"
    phase,      \* how far each exchange is
    before,     \* the promise a queued exchange follows
    queueTail,  \* channelQueues: the last promise of the chain
    live,       \* the entry of the sessions Map
    lists,      \* the contents of every array
    held,       \* the array an exchange or a checkpoint took
    toolStart,  \* toolMessagesStartIdx
    loops,      \* answers of the model so far
    owing,      \* tool calls of the last one still to be answered
    announced,  \* onToolCall: tool calls recorded
    results,    \* the tool outputs attached to those records
    step,       \* how far each checkpoint and resume call is
    stored,     \* the copy the checkpoint store would load, the newest
    said,       \* history: what each exchange has put into its array
    shared,     \* history: another turn was under way on its array
    kept        \* history: what each checkpoint saved

queueVars == <<before, queueTail>>
historyVars == <<live, lists, held>>
turnState == <<toolStart, loops, owing, announced, results>>
checkpointVars == <<step, stored>>
talkHistory == <<said, shared, kept>>
conversationVars == <<door, phase, queueVars, historyVars, turnState, checkpointVars, talkHistory>>

Lists == Exchanges \cup Checkpoints \cup Resumes
CopyOf(c) == <<c, "copy">>
AllLists == Lists \cup {CopyOf(c) : c \in Checkpoints}

(* One entry of a history: who it is for, what it is, and for a tool       *)
(* message the record of onToolCall it belongs to (0: there is none).      *)
Entry(x, what, n) == [by |-> x, what |-> what, n |-> n]
SystemPrompt == Entry(NoExchange, "system", 0)
Context == Entry(NoExchange, "context", 0)

ConversationInit ==
    /\ door \in Doors
    /\ phase = [x \in Exchanges |-> "new"]
    /\ before = [x \in Exchanges |-> NoExchange] /\ queueTail = NoExchange
    /\ live = NoList /\ lists = [l \in AllLists |-> <<>>]
    /\ held = [y \in Exchanges \cup Checkpoints |-> NoList]
    /\ toolStart = [x \in Exchanges |-> 0]
    /\ loops = [x \in Exchanges |-> 0] /\ owing = [x \in Exchanges |-> 0]
    /\ announced = [x \in Exchanges |-> 0] /\ results = [x \in Exchanges |-> <<>>]
    /\ step = [c \in Checkpoints \cup Resumes |-> "new"] /\ stored = <<>>
    /\ said = [x \in Exchanges |-> <<>>] /\ shared = [x \in Exchanges |-> FALSE]
    /\ kept = [c \in Checkpoints |-> <<>>]

-----------------------------------------------------------------------------
UnderWay(x) == phase[x] \in {"preparing", "model", "tools", "recording", "failing"}
Enters(x, to) == phase' = [phase EXCEPT ![x] = to]

(* The entries of a history at some places, in order: an array's filter.   *)
Place(places, i) == Cardinality({j \in places : j <= i})
Chosen(h, places) ==
    [n \in 1..Cardinality(places) |-> h[CHOOSE i \in places : Place(places, i) = n]]

(* What runToolCallingTurn pushes goes to the array it was given.          *)
Pushes(x, entries) ==
    /\ lists' = [lists EXCEPT ![held[x]] = @ \o entries]
    /\ said' = [said EXCEPT ![x] = @ \o entries]
    /\ UNCHANGED <<live, held, shared, kept>>

(* enqueueChannelTurn: behind the last promise, if there is one.           *)
MessageArrives(x) ==
    /\ door = "channel" /\ phase[x] = "new"
    /\ Enters(x, "queued")
    /\ before' = [before EXCEPT ![x] = queueTail]
    /\ queueTail' = x
    /\ UNCHANGED <<door, historyVars, turnState, checkpointVars, talkHistory>>

(* Mutant: the turn runs as soon as it is enqueued.                        *)
ItsTurnAtOnce(x) == door = "channel" /\ phase[x] = "queued"

ItsTurn(x) ==
    /\ door = "channel" /\ phase[x] = "queued"
    /\ before[x] \in {NoExchange} \cup {y \in Exchanges : phase[y] = "over"}

(* An unpaired sender gets a code, an empty message nothing.               *)
MessageRefused(x) ==
    /\ ItsTurn(x)
    /\ Enters(x, "failing")
    /\ UNCHANGED <<door, queueVars, historyVars, turnState, checkpointVars, talkHistory>>

(* The array of the session, a new one if there is none or none is wanted, *)
(* or the trimmed copy of one that is too long; then the user's message.   *)
(* The library has no cap, and keeps where its tool messages will start.   *)
TakesHistory(x, fresh) ==
    LET found == IF fresh \/ live = NoList THEN <<SystemPrompt>> ELSE lists[live]
        long == door # "library" /\ Len(found) > HistoryCap
        newest == IF long THEN <<Head(found)>> \o SubSeq(found, Len(found) - HistoryTail + 1, Len(found))
                  ELSE found
        l == IF fresh \/ live = NoList \/ long THEN x ELSE live
        user == Entry(x, "user", 0)
        others == {y \in Exchanges \ {x} : UnderWay(y) /\ held[y] = l}
    IN  /\ live' = l
        /\ lists' = [lists EXCEPT ![l] = Append(newest, user)]
        /\ held' = [held EXCEPT ![x] = l]
        /\ toolStart' = [toolStart EXCEPT ![x] = Len(newest) + 1]
        /\ said' = [said EXCEPT ![x] = <<user>>]
        /\ shared' = [y \in Exchanges |-> shared[y] \/ y \in others \/ (y = x /\ others # {})]
        /\ kept' = kept

(* The API's /chat may be told to reset the session, the channel handler   *)
(* starts anew for a slash command; the other two await before the model.  *)
TurnBegins(x) ==
    /\ IF door = "channel" THEN ItsTurn(x)
       ELSE phase[x] = "new" /\ Cardinality({y \in Exchanges : phase[y] # "new"}) < MaxDirect
    /\ \E fresh \in IF door = "library" THEN {FALSE} ELSE BOOLEAN : TakesHistory(x, fresh)
    /\ Enters(x, IF door = "api" THEN "model" ELSE "preparing")
    /\ UNCHANGED <<door, queueVars, loops, owing, announced, results, checkpointVars>>

WithContext(h) == <<Head(h), Context>> \o Chosen(h, {i \in 2..Len(h) : h[i] # Context})

(* Mutant: the context of the last turn stays.                             *)
DiscoveryAnswersAndAdds(x) ==
    /\ phase[x] = "preparing"
    /\ lists' = [lists EXCEPT ![held[x]] = <<Head(@), Context>> \o Tail(@)]
    /\ Enters(x, "model")
    /\ UNCHANGED <<door, queueVars, live, held, turnState, checkpointVars, talkHistory>>

(* Capability discovery: older contexts go, the new one is put in behind   *)
(* the system prompt of the array the turn holds.                          *)
DiscoveryAnswers(x) ==
    /\ phase[x] = "preparing"
    /\ lists' = [lists EXCEPT ![held[x]] = WithContext(@)]
    /\ Enters(x, "model")
    /\ UNCHANGED <<door, queueVars, live, held, turnState, checkpointVars, talkHistory>>

(* It is off, finds nothing or fails.                                      *)
DiscoverySkipped(x) ==
    /\ phase[x] = "preparing"
    /\ Enters(x, "model")
    /\ UNCHANGED <<door, queueVars, historyVars, turnState, checkpointVars, talkHistory>>

-----------------------------------------------------------------------------
(* runToolCallingTurn.                                                     *)

ModelAsksTools(x) ==
    /\ phase[x] = "model" /\ loops[x] < MaxLoops[door]
    /\ \E n \in 1..MaxAsked : /\ Pushes(x, <<Entry(x, "ask", n)>>)
                              /\ owing' = [owing EXCEPT ![x] = n]
    /\ loops' = [loops EXCEPT ![x] = @ + 1]
    /\ Enters(x, "tools")
    /\ UNCHANGED <<door, queueVars, toolStart, announced, results, checkpointVars>>

(* One call after the other; a call of an unknown tool is answered but not *)
(* recorded, and only the library keeps records.  Under fail_closed a      *)
(* failure ends the turn, with a reply.                                    *)
ToolAnswered(x) ==
    /\ phase[x] = "tools" /\ owing[x] > 0
    /\ \E known \in IF door = "library" THEN BOOLEAN ELSE {TRUE}, cut \in BOOLEAN :
         LET n == IF known THEN announced[x] + 1 ELSE 0
             output == Entry(x, "tool", n)
         IN  /\ Pushes(x, IF cut THEN <<output, Entry(x, "reply", 0)>> ELSE <<output>>)
             /\ announced' = IF known THEN [announced EXCEPT ![x] = n] ELSE announced
             /\ owing' = [owing EXCEPT ![x] = IF cut THEN 0 ELSE @ - 1]
             /\ Enters(x, IF cut THEN "recording" ELSE IF owing[x] = 1 THEN "model" ELSE "tools")
    /\ UNCHANGED <<door, queueVars, toolStart, loops, results, checkpointVars>>

ModelAnswers(x) ==
    /\ phase[x] = "model" /\ loops[x] < MaxLoops[door]
    /\ Pushes(x, <<Entry(x, "reply", 0)>>)
    /\ loops' = [loops EXCEPT ![x] = @ + 1]
    /\ Enters(x, "recording")
    /\ UNCHANGED <<door, queueVars, toolStart, owing, announced, results, checkpointVars>>

(* max_iterations_reached: the turn returns without a reply.               *)
LoopsUsedUp(x) ==
    /\ phase[x] = "model" /\ loops[x] = MaxLoops[door]
    /\ Enters(x, "recording")
    /\ UNCHANGED <<door, queueVars, historyVars, turnState, checkpointVars, talkHistory>>

ModelThrows(x) ==
    /\ phase[x] = "model" /\ loops[x] < MaxLoops[door]
    /\ Enters(x, "failing")
    /\ UNCHANGED <<door, queueVars, historyVars, turnState, checkpointVars, talkHistory>>

(* The first tool messages from toolStart on go to the records of          *)
(* onToolCall in turn, whoever's they are.                                 *)
ToolMessages(h, from) == Chosen(h, {i \in (from + 1)..Len(h) : h[i].what = "tool"})

(* Mutant: from the beginning of the history.                              *)
AttachedFromStart(x) ==
    LET tools == ToolMessages(lists[held[x]], 0)
    IN  SubSeq(tools, 1, IF announced[x] < Len(tools) THEN announced[x] ELSE Len(tools))

Attached(x) ==
    LET tools == ToolMessages(lists[held[x]], toolStart[x])
    IN  SubSeq(tools, 1, IF announced[x] < Len(tools) THEN announced[x] ELSE Len(tools))

(* The promise of the queue settles and leaves the Map if it is the last.  *)
LeavesQueue(x) ==
    /\ queueTail' = IF queueTail = x THEN NoExchange ELSE queueTail
    /\ UNCHANGED before

(* recordTurnOutcome is awaited before the outputs are looked up, the      *)
(* reply is delivered to the channel after.                                *)
TurnReturns(x) ==
    /\ phase[x] = "recording"
    /\ Enters(x, "over")
    /\ results' = IF door = "library" THEN [results EXCEPT ![x] = Attached(x)] ELSE results
    /\ LeavesQueue(x)
    /\ UNCHANGED <<door, historyVars, toolStart, loops, owing, announced, checkpointVars, talkHistory>>

TurnFails(x) ==
    /\ phase[x] = "failing"
    /\ Enters(x, "over")
    /\ LeavesQueue(x)
    /\ UNCHANGED <<door, historyVars, turnState, checkpointVars, talkHistory>>

-----------------------------------------------------------------------------
(* Checkpoints of the library's session.                                   *)

(* After the import: the array of the session is taken, and a copy of it   *)
(* handed to the store.                                                    *)
CheckpointTakes(c) ==
    /\ door = "library" /\ step[c] = "new"
    /\ LET l == IF live = NoList THEN c ELSE live
           h == IF live = NoList THEN <<SystemPrompt>> ELSE lists[live]
       IN  /\ live' = l /\ lists' = [lists EXCEPT ![l] = h]
           /\ held' = [held EXCEPT ![c] = l]
           /\ stored' = h
    /\ step' = [step EXCEPT ![c] = "saving"]
    /\ UNCHANGED <<door, phase, queueVars, turnState, talkHistory>>

(* After the store's save: a second copy, of what that array holds now.    *)
CheckpointSaved(c) ==
    /\ step[c] = "saving"
    /\ lists' = [lists EXCEPT ![CopyOf(c)] = lists[held[c]]]
    /\ kept' = [kept EXCEPT ![c] = lists[held[c]]]
    /\ step' = [step EXCEPT ![c] = "saved"]
    /\ UNCHANGED <<door, phase, queueVars, live, held, turnState, stored, said, shared>>

(* Mutant: the saved copy itself becomes the session's history.            *)
ResumesInPlace(r) ==
    /\ step[r] = "new"
    /\ \E c \in Checkpoints : step[c] = "saved" /\ live' = CopyOf(c)
    /\ step' = [step EXCEPT ![r] = "saved"]
    /\ UNCHANGED <<door, phase, queueVars, lists, held, turnState, stored, talkHistory>>

(* A copy of the copy becomes the session's history; turns under way keep  *)
(* the array they hold.  An id that is not known gets what the store has   *)
(* for the session, or an error.                                           *)
ResumesFrom(r) ==
    /\ step[r] = "new"
    /\ \E h \in {lists[CopyOf(c)] : c \in {d \in Checkpoints : step[d] = "saved"}}
               \cup (IF stored = <<>> THEN {} ELSE {stored}) :
           lists' = [lists EXCEPT ![r] = h]
    /\ live' = r
    /\ step' = [step EXCEPT ![r] = "saved"]
    /\ UNCHANGED <<door, phase, queueVars, held, turnState, stored, talkHistory>>

ConversationNext ==
    \/ \E x \in Exchanges :
         \/ MessageArrives(x) \/ MessageRefused(x) \/ TurnBegins(x)
         \/ DiscoveryAnswers(x) \/ DiscoverySkipped(x)
         \/ ModelAsksTools(x) \/ ToolAnswered(x) \/ ModelAnswers(x)
         \/ LoopsUsedUp(x) \/ ModelThrows(x) \/ TurnReturns(x) \/ TurnFails(x)
    \/ \E c \in Checkpoints : CheckpointTakes(c) \/ CheckpointSaved(c)
    \/ \E r \in Resumes : ResumesFrom(r)

ConversationSpec == ConversationInit /\ [][ConversationNext]_conversationVars
-----------------------------------------------------------------------------
Phases == {"new", "queued", "preparing", "model", "tools", "recording", "failing", "over"}

ConversationTypeOK ==
    /\ door \in Doors
    /\ phase \in [Exchanges -> Phases]
    /\ queueTail \in Exchanges \cup {NoExchange}
    /\ live \in AllLists \cup {NoList}
    /\ \A x \in Exchanges : UnderWay(x) /\ phase[x] # "failing" => held[x] \in AllLists

(* A history begins with the system prompt, and at most one capability     *)
(* context stands in it, right behind that prompt.                         *)
OneContextOnTop ==
    \A l \in AllLists : \A i \in DOMAIN lists[l] :
        /\ lists[l][i].what = "system" <=> i = 1
        /\ lists[l][i].what = "context" => i = 2

(* What of exchange x stands in history h.                                 *)
Of(x, h) == Chosen(h, {i \in DOMAIN h : h[i].by = x})

(* The array a turn took has all the turn said, in order.                  *)
SaysAllItSaid ==
    \A x \in Exchanges : held[x] # NoList => Of(x, lists[held[x]]) = said[x]

(* A copy that was saved never changes, whoever resumes from it.           *)
CopiesFrozen == \A c \in Checkpoints : lists[CopyOf(c)] = kept[c]

(* In a conversation of a channel the turns stand one behind the other in  *)
(* the history, each in one piece, and whole unless trimming cut off its   *)
(* beginning.                                                              *)
QueuedTurnsStandTogether ==
    door = "channel" =>
        \A l \in AllLists : LET h == lists[l] IN
            /\ \A i, j, k \in DOMAIN h :
                 i < j /\ j < k /\ h[i].by = h[k].by /\ h[i].by # NoExchange => h[j].by = h[i].by
            /\ \A x \in Exchanges :
                 LET here == Of(x, h)
                 IN  here # <<>> => here = SubSeq(said[x], Len(said[x]) - Len(here) + 1, Len(said[x]))

(* The histories stay well-formed however turns, trimming, checkpoints and *)
(* resumes overlap: one system prompt, one capability context, everything  *)
(* a turn said in the array it took, the copies as they were saved, and    *)
(* queued turns one behind the other.                                      *)
ConversationInv ==
    /\ ConversationTypeOK
    /\ OneContextOnTop /\ SaysAllItSaid /\ CopiesFrozen /\ QueuedTurnsStandTogether

(* The outputs a turn of the library reports are its own, record by        *)
(* record, if no other turn shared its array and it asked for no unknown   *)
(* tool: neither the context put in after the start was noted nor a resume *)
(* in the meantime shifts them.                                            *)
ReportsOwnResults ==
    \A x \in Exchanges :
        /\ door = "library" /\ phase[x] = "over" /\ ~ shared[x]
        /\ \A i \in DOMAIN said[x] : said[x][i].what = "tool" => said[x][i].n > 0
        => results[x] = [i \in DOMAIN results[x] |-> Entry(x, "tool", i)]
=============================================================================

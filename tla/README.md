# Verification of wunderland

This directory holds TLA+ models of the stateful core of wunderland, the TLC
configurations that check them on small instances, and TLAPS proofs of the
properties that matter most. Paths are those of the repository; `tla/` models
what is under `src/`.

## Inventory

| Part (source) | State it keeps | Operations | What is hard | What makes it correct |
|---|---|---|---|---|
| Session lock (`runtime/execution/keyed-mutex.ts`) | Map key -> tail promise | `runExclusive` | callers interleave at `await prior`; entries must go, but not too early | mutual exclusion, call order, no leaked entries, every call served |
| Server turns (`cli/commands/start/agent-turn.ts`, `routes/chat.ts`) | `deps.sessions`: Map key -> message array shared by reference | agent turn (webhook, cron), `POST /chat` | read-modify-write over a long LLM call; only agent turns take the lock | replies answer their message, nothing lost but by trimming, bounded history, no half-finished tool rounds |
| Other conversations (`public/index.ts`, `channels/api/routes/chat.ts`, `channels/api/server.ts`, `cli/commands/start/channel-handler.ts`) | one history per session, a queue of promises, checkpoints | `sendText`, `/chat`, inbound messages, `checkpoint`, `resume` | turns, trimming, checkpoints and resumes share one array | well-formed history, frozen copies, queued turns apart, own tool results |
| Adaptive execution (`runtime/execution/adaptive-execution.ts`) | windows of outcomes, their table, alerts | decide, record, save, restart | saves overlap, fail and are lost with the process | window and table agree, one alert per cooldown, successes restore |
| Tool loops (`runtime/tools/tool-calling.ts`, `ToolStreamProcessor.ts`, `ToolApprovalHandler.ts`, `security/SafeGuardrails.ts`, `FolderPermissions.ts`) | the messages of a turn, folder rules | rounds, prompts, grants, execution, abort | every error path has to answer its call; grants outlive turns | one answer per call, nothing runs without consent |
| Cron scheduler (`autonomy/scheduling/CronScheduler.ts`, used by `runtime/tools/CronTool.ts`) | jobs Map, `ticking`, `inFlight`, interval | `start`, `stop`, tick, `runJobNow`, CRUD, `restoreJob` | handlers awaited inside the loop over a live Map; any CRUD call in between | one run per id, no occurrence twice, no stale firing, every due job fires |
| Safety engine (`autonomy/social/SafetyEngine.ts`) | per-agent paused/stopped, halt, rate windows | pause, resume, stop, halt, flag, rate limits | one flag set and cleared by many parties; check apart from recording | a stop is final; a pause is lifted by whoever may |
| Wonderland network (`autonomy/social/WonderlandNetwork.ts`) | citizens, newsrooms, breakers, recovery timers, enclaves | start, stop, register, unregister, guarded LLM calls, approvals, initialization | guards checked before an await and charged after; timers; overlapping initializations | bounded overspend, tracked timers, stuck agents recover, consistent registries |
| Newsroom (`autonomy/social/NewsroomAgency.ts`, `StimulusRouter.ts`) | pending approvals, hourly post count | `processStimulus`, approve, reject | overlapping stimuli, late approvals | each approval once, hourly limit |
| Browsing and engagement (`autonomy/social/BrowsingSessionRunner.ts`, `EngagementProcessor.ts`) | counts, budgets, deduplication | sessions, engagement, reactions | sessions of one agent overlap | limits, one count per agent, budgets |
| Sentiment analysis (`autonomy/social/LLMSentimentAnalyzer.ts`) | running calls, waiters, a cache of answers | `analyzeSentiment`, `analyzeMoodImpact`, `clearCache` | calls fail, wait and overlap on one content | limit on calls, nobody passed or forgotten, bounded cache |
| Job market (`autonomy/jobs`) | bid sets, timers, active executions, retry counts | scan, bid, withdraw, execute, retry | overlapping polls, stop/start, stale answers | one bid per loop, one withdrawal per watch, concurrency limit |
| Step-up authorization (`security/StepUpAuthorizationManager.ts`) | review queue, statistics | authorize, decide, review, reset | humans answer in any order, counters across resets | tier 3 needs a yes, statistics balance |
| Audit log (`autonomy/social/ActionAuditLog.ts`) | ring of entries, flush buffer | log, flush, clear | failing and overlapping flushes | order, no loss, no duplicate |
| Pairing (`channels/pairing/PairingManager.ts`) | requests and allow list in two files | request, approve, reject, expire | whole files rewritten from snapshots, crashes | limits, only the approved are admitted |
| Daemons (`cli/daemon`, `cli/commands/agent/serve.ts`, `agent/stop.ts`, `dashboard/routes/index.ts`) | files of a directory, signals, processes | serve, watchdog, stop, clean | processes share nothing but files | restart budget, one agent, a stop is final |
| Session text log (`platform/observability/session-text-log.ts`) | a promise per session, sessions begun, a file per day | `logTurn`, `logEvent` | writes fail, days change, sessions share a file | complete, in order, one start line |
| Others: orchestration, channel adapters, builders and presets, prompts, memory, inference, the rest of the platform | little or none shared | - | I/O, text | not state machines |

How they interact: the server's routes start session turns; webhooks and cron
dispatch call `runAgentTurn`, which takes the session lock; `/chat` does not.
All turns run the tool loop, which asks the approval handler and the guardrails
before a tool runs, and report their outcome to adaptive execution, which decides
the failure mode of the next turn. CronTool drives one scheduler per process,
whose handlers start turns. The network subscribes each citizen's newsroom to the
stimulus router and wraps the LLM callback of the newsroom in the guard chain
SafetyEngine -> CostGuard -> CircuitBreaker -> provider -> CostGuard ->
StuckDetector; CostGuard, the breaker and the detector call back into
SafetyEngine. Published and approved posts come back to the network, browsing
sessions record engagement through it, and its audit log is flushed beside all of
it. The commands of the CLI run in processes of their own and meet in files. Within
a process everything runs on one event loop: what happens between two awaits is
atomic, and everything else interleaves.

## Modules

| Module | Models | Notes |
|---|---|---|
| `FifoLock` | what KeyedMutex promises | abstract specification: calls on a key are served one at a time in the order they were made |
| `KeyedMutex` | `keyed-mutex.ts` | a tail promise is named after the call that made it; `stamp`, `arrivals` are history |
| `SessionTurns` | agent turns and `/chat` turns over `deps.sessions` | extends `KeyedMutex`; arrays have identity (`heap`), because turns share them by reference |
| `Conversations` | the sessions no lock guards: library, API server, channels | one session of one entry point (`door`); arrays have names, checkpoints and resumes copy them |
| `AdaptiveExecution` | the windows of outcomes and their table | a turn decides when it starts and records when it ends; scores in hundredths as in the code |
| `ToolTurn` | both tool loops with prompts, guardrails and grants | each await is a stage; of the messages only counts are kept |
| `CronScheduler` | the scheduler | one action per stretch between two awaits; a job object is `<<id, incarnation>>` |
| `SafetyEngine` | the killswitches | `causes` is history: why the pause in force was set |
| `AgentTurns` | lifecycle, guard chain and recovery timers of `WonderlandNetwork.ts` | extends `SafetyEngine`; breaker, cost guard and stuck detector are external (`@framers/agentos`) |
| `Enclaves` | initialization, registry and governance of the enclaves | registries go by the initialization that made them; the stores are external and may reject |
| `Newsroom` | stimulus to post, approvals, hourly limit | a post goes by its stimulus; what models decide is left open |
| `Browsing` | browsing sessions, engagement, rate limits, reflection | overlapping sessions of one agent; windows expire |
| `JobScanner`, `BidLifecycle` | scan loops and bids; watching and withdrawing bids | several loops or watches are alive after stop and start |
| `JobExecutor` | the execution loop of `JobExecutor.ts`, with the submission of `DeliverableManager.ts` | a job is numbered by its age; the backend that lists and marks jobs is external |
| `AuditLog` | ring buffer and flushes | the adapter is external: it stores a batch whole or not at all |
| `SentimentAnalyzer` | model calls about moods, their limit and cache | a content goes by its hash; the model is external |
| `SessionLog` | the text log of the sessions | a block is one `appendFile`, whole or failed; names of files are shortened ids |
| `Authorization` | the step-up manager, its queue and statistics | triggers and overrides only move a request's tier |
| `Pairing` | the pairing files and their callers | reads and writes of whole files are steps of their own; `Crash` ends a call anywhere |
| `Daemons` | serve, watchdog, stop, dashboard stop, cleaning | processes are numbered by birth; files and signals are all that is shared |
| `*Proofs` | the proofs | |
| `*MC` | instances for TLC | |

The action boundaries are the awaits of the source. `Enqueue` of `KeyedMutex` is
`runExclusive` up to `await prior`, `Start` the resumption, `Release` the
`finally` block. `LoadAndPush` of `SessionTurns` is the synchronous head of
either kind of turn; `AgentReply` pushes onto the array the turn took then, and
`AgentRefuse` is the turn of a server that was started without a model. A `/chat`
turn works on a copy of its own: `ChatDiscover` replaces its capability context,
`ChatRound` appends a round of tool calls with their results, and `ChatCommit`
appends what the turn ends with and puts the copy into the Map. In
`CronScheduler`, `Scan` is the loop of `tick` from one await to the next,
`Started` the synchronous head of `executeJob`, `HandlersDone` what follows the
last handler, `RunSettled` what follows the last settlement handler. In
`AgentTurns`, `TurnCalls` is the guard chain up to the provider, `CallReturns`
and `CallFails` what follows it, including every callback into `SafetyEngine`,
in the order of the code. In `JobExecutor`, `StartExecutor` and `IntervalFires` are
`pollAndExecute` up to its await and `PollDelivered` the loop that follows it,
with a stale answer or not; `QualityFails` is `handleQualityFailure` up to its
sleep, `BackoffOver` the recursive `runExecution`, `ExecutionThrows` its catch,
`SlotFreed` the `finally` that `pollAndExecute` attaches. In `Daemons` the
boundaries are the file operations, spawns and timers of several processes; the
rest of the modules name their stages (`at`, `phase`, `reaction`) after the call
that is awaited.

Several instances put components that share no state beside each other in one
run (`DispatchMC`, `AutonomyMC`, `OversightMC`, `SessionTurnsMC`, `AgentTurnsMC`,
`RecoveryMC`): a variable `part`, chosen at the start, says which of them moves. Interleaving
them would multiply states and show nothing more. Within a part everything that
does share state interleaves.

Operators whose comment says "Mutant" stand in front of the action they distort
and are used by nothing: each shows a plausible slip of the code that one of the
properties catches.

## Runs

| Run | Instance | Shows |
|---|---|---|
| `dispatch` | 2 keys, 4 calls of which 2, 3 or 4 share a key; or 2 jobs, 2 overlapping polls, 2 executions, 1 slot, 2 attempts, 1 direct execution | the inductive invariant of the lock, exclusion, no leaked entries, refinement of `FifoLock` with its fairness, every call is served; exact slots, concurrency limit, counted attempts, waiting jobs are started |
| `session` | 3 agent turns and 1 `/chat`, or 1 agent turn and 2 `/chat`, on 2 sessions with history caps of 4 and 2, each `/chat` of up to 2 rounds of 1 tool call, with a model or without; or 3 channel messages, or 2 overlapping turns of another entry point, with 1 checkpoint and 1 resume; or 3 outcomes of a scope, a window of 2, 1 restart, 1 cooldown; or 3 log calls of 2 sessions that share a file, 1 midnight | replies follow their message and only trimming loses turns; histories stay well-formed and bounded, copies frozen, queued turns apart, a turn reports its own results; windows and table agree, successes lift the degraded mode; the log is complete and in order |
| `session_chat_race` | 1 session, one turn of each kind | violation: the `/chat` commit drops the agent turn's reply |
| `cron` | 2 ids, 2 incarnations, one-shot and periodic schedules, one `runJobNow`, a search window of 4 | the scheduler's invariant, action property and liveness; `computeNextRunAtMs` against a reference definition |
| `agents` | 1 citizen, 2 overlapping turns, 2 overlapping registrations, thresholds of 2; or 2 citizens, 2 overlapping initializations, 2 enclaves, 1 proposal or decision | timers tracked, a breaker for every active citizen, bounded overspend, a stop is final; members and subscriptions mirror each other, every citizen is introduced |
| `agent_recovery` | 1 citizen, 2 turns; or 2 serves, 1 stop, 1 restart for each watchdog, 3 processes, a threshold of 2 failed checks | a stuck agent is resumed; restart budget, one agent, final stops; a watchdog never goes on without an agent |
| `agent_auto_resume` | 1 citizen, 2 turns | violation: the recovery timer lifts other parties' pauses |
| `job_retry_budget` | 1 job, executed by the loop and directly | violation: failures counted before an error are held against the next execution |
| `autonomy` | 2 jobs, 2 scan loops, 1 active bid, any bids seeded; 2 bids, 2 watches, jobs assigned, submitted or over; 3 analyses, 1 call at a time, 3 contents, a cache of 2; 5 entries, 2 flushes, a ring of 3 | bids, withdrawals and audit entries under overlapping activations; calls and cache keep to their limits; a stopped scanner rests, a losing bid ends, a waiting analysis gets its call |
| `oversight` | 2 paths, one protected, 2 rounds of 2 calls; 3 requests; 2 senders, 2 codes, 2 calls, 1 request at most; 2 browsing sessions of 1 decision, limits of 1; 3 stimuli, a limit of 1 post | every tool call is answered once and runs only with consent; statistics balance, tier 3 needs a yes; only the approved are admitted; limits and budgets hold; each post is decided once and shown only if it was |
| `tool_stream_payload` | one turn of the streaming loop | violation: a promise takes the place of a tool message's text |
| `protected_folder` | a file in a directory that holds a protected path | violation: the rule granted for the file opens the protected path |

Bounds. Four calls make chains long enough that a middle call has both a
predecessor and a successor, and two keys drain independently; calls and keys are
interchangeable, so how many calls share a key says all about their assignment. The history caps
are 200 and 120 in the code; the instance has small ones so that trimming
happens after two turns. Up to names two of its three agent turns are on one session and
the third is there too or has one of its own, and these are the starts it has. Two `/chat`
turns are the fewest of which one finds the context that the other committed, and two
rounds the fewest that follow each other. Three channel messages are a head, a middle and a last
of the queue; two direct turns are the fewest that share an array. Three log calls are two of one
session with another session's between them in the same file. With one model call at a
time, a second analysis waits and a third can try to pass it; three contents are one more
than the cache holds. A window of two
with three outcomes drops the oldest. The clock of `cron` only has to tell "due"
from "not yet due" for the run's own time, the next occurrence and a later tick.
`Consulted` adds schedules of every kind for which `computeNextRunAtMs` is only compared
with the first occurrence, cron expressions among them whose next match lies beyond
the search window (366 days in the code).
Two incarnations let a run outlive the removal and the restoration of its job.
Thresholds of two (five failures, three repeats, three failed health checks in the
code) separate "one failure" from "enough". One citizen is enough for the turns of
`agents`: no state is shared between citizens but the network's running and halt
flags; two are needed for enclaves, one that creates and one that joins or is
banned. The instance has both stores or none; `Enclaves` leaves them independent.
In `dispatch` two polls with room for one job is the smallest instance in which
an answer is stale when it arrives, and two jobs the smallest in which one can
starve the other; `Triggerable` bounds how often an operator executes a job
directly, and one agent is executed for. Two scan loops, watches, flushes, pairing
calls and browsing sessions are the fewest that overlap, with limits of one so that
the second meets a full one. A protected and an unprotected path in one directory
tell a grant's scope from its path; two rounds let a grant of the first be used in
the second. Two watchdogs are the fewest that can race; the third process is a
restart beside two first agents. Deadlock is not checked where the instance ends by
itself (every call made, every registration used up, every command run); the
scheduler never stops, and its run checks it.

Fairness. The event loop runs ready continuations, so `Start`, `TickResume`,
`HandlersDone` and their like are weakly fair; a task given to the lock settles
(`MutexFairness`), because agent turns bound their rounds and catch their errors. The
interval keeps firing (`TickBegin` in `CronFairness`). For agents: timeouts fire, cooldowns pass, the
provider answers or fails, stimuli keep arriving; no fairness is assumed of
operators, moderators, starting, stopping or registering. For the executor (`ExecutorFairness`):
callbacks settle, sleeps end and the interval fires (weak fairness); of the
backend, which may fail any call, that it does not fail every one of endlessly
many (strong fairness of `PollAnswered` and `StartRecorded`). `ScannerFairness`:
timers fire and calls settle. `LifecycleFairness`: the same, and the market, asked
about a bid or told to end it again and again, does its part in the end.
`AnalyzerFairness`: a model call settles, one way or the other (the code
sets no timeout of its own; its invoker has to). `DaemonsFairness`: a watchdog's timers fire and its file operations end; nobody has
to run a command, and no process has to live or die.

## Disagreements found

Shown by a run:

1. `/chat` does not take the session lock that `keyed-mutex.ts:6-10` says it
   shares with webhook turns, and commits a stale copy (`routes/chat.ts:472`).
   Run `session_chat_race`.
2. An execution that ends with an error leaves its failures in `retryCounts`, so
   the next execution of the job has fewer attempts than `docs/features/JOBS.md:157-159`
   describes (`JobExecutor.ts:325`). Run `job_retry_budget`.
3. The stuck-recovery timer lifts pauses it did not set
   (`WonderlandNetwork.ts:643`). Run `agent_auto_resume`.
4. The streaming tool loop pushes a promise where `ToolApprovalHandler.ts:316`
   returns "the message content string" (`ToolStreamProcessor.ts:551`). Run
   `tool_stream_payload`.
5. "Paths that can NEVER be escalated, even with explicit user approval"
   (`SafeGuardrails.ts:149-153`) are refused when they are asked for, but a grant for a
   path beside them is a rule `dir/**` (`ToolApprovalHandler.ts:271-277`): one for
   `~/notes.txt` opens `~/.ssh`. Run `protected_folder`; `GrantsMatchConsent` and
   `OnlyConsentedCallsRun` speak of unprotected paths.

Met while modelling, part of the models as the code has them, and kept here in
prose:

- The copy that should keep orphaned tool calls out of the history
  (`routes/chat.ts:249-253`) is committed with them under `fail_closed`, because
  `runToolCallingTurn` returns instead of throwing (`tool-calling.ts:843-847`);
  a barge-in of the streaming loop leaves them too, and its denial under
  `fail_closed` pushes the reply twice.
- A breaker that opened never closes, since its pause keeps calls away from it
  (`WonderlandNetwork.ts:1787`), and a draft is published after its agent was
  paused, stopped or halted (`NewsroomAgency.ts:1253`, `1298`). No property of a
  run covers these two: they would state what the code does not do.
- `initializeEnclaveSystem` is "Safe to call multiple times (idempotent)"
  (`WonderlandNetwork.ts:1407`), but a second call that overlaps the first replaces
  its registry; a load that rejects leaves the system initialized with an incomplete
  one; a global ban does not take the moderator's role; a network started before
  the initialization never gets its browsing subscription.
- `addFolderRule` says that it inserts before the last rule (`SafeGuardrails.ts:250`)
  and pushes at the end; whether a call writes is decided by tool name in one place
  and by operation in another.
- An approved post is handled twice: `newsroom.approvePost` awaits the publish callback,
  which is `handlePostPublished` (`WonderlandNetwork.ts:519-521`), and the network calls
  it again (`724-734`), so that its author gets the XP of `types.ts:322-323` twice and
  its "Total posts published" (`types.ts:377-378`) grows by two, as do the audit log and
  the safety engine's windows. A queue entry has a `timeoutMs` "Auto-expire after this many
  ms" (`types.ts:462-463`), which nothing reads. `Newsroom` does both as the code does;
  `NewsroomInv` says of an approved post only that it is counted, and of the queue only
  that what is in it is undecided, so that neither is asserted.
- `/chat` without a model commits a history that ends with the user's message
  (`routes/chat.ts:465-472`): the notice it answers with is not part of it.
- A resume of an unknown checkpoint id restores the store's latest
  (`public/index.ts:1109-1125`). A checkpoint is a "frozen copy" of the history "at
  checkpoint time" (`public/index.ts:674`), but copies it a second time after an
  await.
- Overlapping `sendText` calls attach each other's tool outputs, and a call of an
  unknown tool shifts the outputs of its own turn; `ReportsOwnResults` excludes
  these two cases by name.
- With a target above 85% adaptive execution never leaves the degraded mode, because
  a success counts 0.85 while degraded. At 85% it depends on the window: seven such
  successes average 0.8499999999999999 in floating point, which does not reach it.
  `Reaches` leaves a mean that equals the target open to either rounding, and
  `SuccessRestores` is stated of targets below 85%.
- `nextCronMatch` looks 366 days ahead (`CronScheduler.ts:82-92`, `158-159`), so that three years
  in four `0 0 29 2 *` has no next run: the job stays enabled and does not fire until it is
  resumed or updated within a year of the day. In a process whose own zone sets the clock
  back, its search skips the repeated hour.
- `setActiveBids` takes whatever it is handed (`JobScanner.ts:144-150`), and overlapping
  loops can leave more bids on chain than the capacity: `CapacityKept` counts from what was
  seeded.
- A losing bid whose job is already `submitted` when a watch asks stays active, as
  `JOBS.md:445` says ("No action"), until the job is completed or cancelled
  (`BidLifecycleManager.ts:221-236`): `LosingBidEnds` leaves it out.
- Two scan loops bid on the same job if both looked at it before either bid: the
  invariant is one bid per loop.
- If the first write of a session's log fails, its `SESSION_START` line never appears,
  since the session counts as started before the write (`session-text-log.ts:171-172`);
  the file of a later day has none either, and a session's promise never leaves the Map.
- A cache entry that is set again keeps its old place in the order of eviction, and
  evicts another entry if the cache is full (`LLMSentimentAnalyzer.ts:124-131`); contents
  whose hashes collide share an answer.
- Nothing sets the audit log's adapter, so `pendingFlush` grows as long as the process
  lives.
- Daemons. `serve` looks for the watchdog at `cli/commands/daemon/watchdog.js`
  (`serve.ts:246-249`), but it is built from `cli/daemon/watchdog.ts`, so that at this commit
  `--restart` ends with "Watchdog module not found". `ServeStarted` may or may not
  spawn it, and the rest of `Daemons` says what happens where one runs.
  A look at the daemons (`ps`, `monitor`, the dashboard) during a backoff
  removes the directory, and every restart then fails until the budget is used up, so
  "Auto-restart on crash" (`cli/index.ts:146`) is defeated without a word. A stop that
  acts on what it read earlier (`--all` reads all targets first), or that comes between
  a spawn and the update of `daemon.json`, leaves the restarted agent running and
  unrecorded, in spite of `stop.ts:65`. `serve` during a backoff makes two agents
  and two watchdogs that share one pid file. A pid file that could not be written counts
  a restart twice. `consecutiveFailures` survives a failed restart, so a new agent can
  be killed after one failed check. An agent moves to the next port when its own
  is taken (`startup-display.ts:60-82`) while the watchdog asks the configured one.
  `OneAgent` and `StopIsFinal` name the conditions under which the promises hold.

## Proofs

Every theorem holds for all values of the constants that satisfy the assumption of its
module; TLC evaluates these assumptions on the instances. Each proof shows that an
inductive invariant holds initially and that every action keeps it; the strengthened
invariants were checked with TLC first.

`SessionProofs` has four parts.

- The lock, for any `Keys` and `Calls`, from `NoCallAssumption` alone. Exclusion is not
  inductive: two calls could share a prior. `MutexInv` adds that a key's tail is its
  youngest call and still pending, that a call's prior is the call just ahead of it on its
  key, and that whatever is ahead of a call that runs or ran is done. Exclusion and
  `EntryIffPending` follow, and the refinement proof maps every step to `Ask`, `Grant` or
  `Leave`: that `Grant`'s "oldest first" holds needs the part about priors.
- The turns. `TurnsInd` ties what an array holds to the turns that wrote it: on a session
  that agent turns alone use, the turn that holds the lock knows that everything in its
  array but its own messages belongs to turns that are over, so that its reply lands behind
  its message (`LockedOK`, over the operator `Threads`). `OwnersOK` says that an array
  belongs to the session of the turn that allocated it, `LengthsOK` how long it may be at
  each stage: the cap, the turn's message, a context, as many rounds as it has behind it. That
  a context stands second and nowhere else is what makes the next turn's replacement of it
  exact. Trimming shortens only if `KeepTail < HardCap` (120 and 200 in the code),
  an assumption of the module.
- The windows. `AdaptiveInd` says that memory, table and payloads are windows in the order
  of recording, and that a save that nothing has overtaken is alone and carries the window
  in memory. `SuccessRestores` adds the values of a window of any size; that every partial
  sum of a run of successes stays above the target's share is shown by the least window
  position at which it would not, since induction over data is not available.
- The text log. `LogInd` adds that a session's promises form one chain in the order of the
  calls (`ChainOK`), so that a task is entered once all before it are over and no earlier in
  the days (`OneAtATime`), and that a session counts as started from its first task on.

`CronSchedulerProofs`: for any ids, schedules, persisted jobs and number of
manual runs, from `CronAssumption`. `CronInv` adds to exclusion and exactness of
`inFlight` that the times runs and passes carry are behind the clock, that a
time that fired is behind the run of its job that is under way, and that
objects that fired were inserted. `NoOccurrenceTwice` rests on
`computeNextRunAtMs` being strictly later than its argument (a lemma about
`NextRun`), on fired times being in the past for CRUD calls, and on them being
behind the run's own time when the run advances the job. That `NextRun` is the first
occurrence is arithmetic of multiples of the period, for all anchors; of a cron expression it
is shown for any search window. The action property
`TickFiresOnlyDueJobs` is shown action by action.

`NetworkProofs` has two parts. `AgentTurns`, for any agents, turns, registrations, timers, thresholds and
costs, from `AgentTurnsAssumption`. `AgentsInv` is one invariant because its parts
need each other: a resumption must know that a stopped agent is paused, a
registration that ends finds a breaker number left because registrations under
way are counted (`RegistrationsBounded`), and a charge stays within
`SpendBounded` because the call that is charged leaves `Calling`. The proofs of
the killswitch steps (`Paused`, `Resumed`, `Stopped`) are lemmas of their own,
used by every guard, timer and moderator that calls them. `StoppedForGood`
follows step by step: the only clearing of `paused` tests `stopped`, and the only
step that enters `Calling` tests `canAct`.

`Enclaves`, for any citizens, enclaves, stored memberships and number of
overlapping initializations. `Registry` is the set of registries in which members and
subscriptions mirror each other and only enclaves that exist have members or
moderators. Every operation of `EnclaveRegistry.ts` maps a member of it to a member of it
(one lemma each, loading what a store holds included), and a step changes registries by such
operations only. `EnclavesInd` adds that citizens are citizens, for the welcome that
ends an initialization. For `CitizensIntroduced`, `IntroducedInd` adds that the registry in
use is that of the initialization that began last, so that no later one takes its moods,
its default enclaves or its welcome elsewhere (`CurrentOK`), while the trait evolution in
use is that of the last one that set up, which need not be the same (`EvolvingOK`).

`JobExecutorProofs`: for any jobs, polls, executions, limit and number of
retries, from `JobExecutorAssumption`. The limit is a statement about executions,
the code's test one about the set of their jobs: `ActiveExact` makes the one an
injection into the other. `AttemptsBounded` is not inductive; `AttemptsCounted`
says that an execution's attempts are covered by its job's count, which holds
because a job that was not executed directly has one execution, so that nothing
but that execution's own end removes the count.

`AutonomyProofs`: scanner, bids, analyzer and audit log, for any jobs, loops, capacity,
bids, watches, analyses, contents, entries, flushes, limits and sizes.

- The scanner's bound on bids needs the loops that evaluate: bids made and bids being
  evaluated together exceed the larger of the capacity and what `setActiveBids` was handed
  by no more than the loops (`CapacityKept`), and no
  loop has pending what it bid on (`NothingPendingTwice`). For the watches, a bid that is
  looked at is out of the list of those left (`LookedAtOnce`), and one that is being
  withdrawn belongs to a job that is lost or over (`LosersOnly`), which it stays.
- `AnalyzerInv` is inductive as it stands, because its parts need each other: the head of
  the queue takes over the slot of a call that ends only if it is known to wait and not to
  run, and a newcomer finds no free slot while anybody waits only if the counter is exact.
- `AuditInd` says of the places an entry can be in - stored, a batch on its way, the
  pending list - that they have no entry in common and cover what was logged since the last
  clearing, that there is one batch at most as long as no two flushes overlapped, so that one that comes back
  comes back where it belongs, and that the ring is a function of two counters.

`OversightProofs`: approvals, step-up authorization, pairing, browsing and tool turns, for
any sets of stimuli, requests, senders, codes, calls, agents, posts, sessions and paths and
for any limits. The strengthenings are small where an invariant was already stated about
everybody under way: for `NewsroomInv`, that a post is decided only after it was queued and
that drafts and posts together keep to the limit; for `AuthorizationInv`, that verdicts
are reviewers'; for `PairingInv`, that what each call is about to write is well-formed like
the file itself, which is what makes lost updates harmless to the promise. `BrowsingInd`
adds what a session at each stage knows, that the counters are the numbers of the keys
kept for them, and that sessions counted and under way together exceed the limit by no
more than ever overlapped. `ToolInd` adds what a call may take for granted at the stages
past the prompt and past the guardrails: the agreement covers the paths, and none of
those still denied is protected.

`ConversationsProofs`: for any exchanges, checkpoints, resumes, caps, rounds and tool calls,
from `ConversationAssumption`, which says that arrays have names of their own. The lemmas
come first. `Chosen`, the filter of an array, is shown to be the one increasing enumeration
of the places that pass (`EnumIsUnique`), which gives what it does to an append, a cut and a
renaming without induction. `Carried` is what trimming and a capability context have in
common: the history has another beginning, its end is the same, so that what a turn said
at the end of an array stays there. `TalkInd` is `ConversationInv` and `ReportsOwnResults`
made inductive. It adds that an array is nobody's before its call begins and that who took
none stands in none (`NewUnused`, `NobodyElse`); that arrays in use are not empty, which
trimming needs (`Filled`); that the queue of a channel is one chain of promises of which
only the first is under way, and that this one is the last voice in its array (`QueueOK`,
`TogetherOK`); and that behind the start of a turn of the library that shares its array
with no other stand exactly its own tool outputs, as many as it announced (`RecordsOK`,
`ResultsOK`). TLC checked it before the proof. There is one lemma per kind of step
(`PushKeeps`, `BeginKeeps`, `ContextKeeps`, `QuietKeeps`, three for checkpoints and
resumes), since most actions differ only in which entries they push.

`DaemonsProofs`: for any number of serves, stops, processes and restarts.
`DaemonsInv` is far from inductive, since what a command does follows from what it
read, spawned and was told many steps before. `IInv` adds `Budgets` (a watchdog has
started no more processes than it has counted restarts, and is below its limit while it
restarts), `Sessions` (while no serve was blind, the agent is the youngest process, and
whoever may start another knows that there is none or knows of the one there is),
`Names` (a watchdog named by a file, a command or a process was once started) and, per
stop, `StopEnds` (a watchdog that was told to stop starts nothing any more). What a
step of a watchdog, a serve or a stop can do to the files, the processes and the
other commands are lemmas of their own, so that each part of `IInv` is shown without
going through all actions again.

Conjuncts that were stated for themselves are part of these invariants and follow
from the theorems: `TimersTracked` and `ActiveHasBreaker` from `AgentsInvariant`,
`EntryIffPending` from `MutexInvariant`, `OneRunPerId`, `InFlightExact` and `TickGuarded`
from `CronInvariant`, `ActiveExact`, `ConcurrencyLimit` and `AttemptsCounted` from
`ExecutorInvariant`, `OneBidPerLoop` and `CapacityKept` from `ScannerInvariant`,
`ReplyAnswersItsMessage` and `NoTurnLost` of `LockedTurnsKept`, `HourlyPostLimit` of
`NewsroomInv`, `LogComplete` and `StartsOnce` of `SessionLogInv`.

Every invariant and every action property that a passing run checks is stated by a
theorem. Checked by TLC only is what TLAPS cannot reach: liveness, and the refinement of
fairness (`ImplementsFairLock`, `EveryCallServed`, `DueJobFires`, `StuckAgentRecovers`,
`DeadAgentHandled`, `WaitingJobStarts`, `StoppedScannerRests`, `LosingBidEnds` and
`WaitingAnalysisInvoked`).

## Not modelled

Left out of the modelled parts: DM switches and persistence of the safety engine
(the repository has no adapter for it); telemetry, trust and world feed of the
network; cron expression syntax and time zones (an expression is the set of times it
matches), and what a job rescheduled during its
run is owed; prompts, content filters, quality scores and tool outputs (each passes,
fails or is one of a few outcomes); writes that are torn, pid reuse, the death of a
watchdog itself and failing closes of log descriptors (`Daemons`).

Left out entirely, with the reason:

- Graph runner, planner and streaming pipeline: they translate a graph and hand it to
  the runtime of `@framers/agentos`, which is not in the repository, so that nothing here
  decides order, retries or resumption.
- Trust, alliances, revenue, levels, mood values, direct messages: scores and ledgers
  changed by synchronous calls that nothing interleaves with.
- Builders, presets, prompts, skills, classifiers, auditors, signed outputs: functions
  of text and configuration.
- Memory and retrieval, inference routing: wrappers around providers and external stores.
- Channel adapters, configuration, discovery, the usage ledger, the chat REPL, wizards,
  deployment and display: input and output.

--------------------------- MODULE CronScheduler ---------------------------
(***************************************************************************)
(* autonomy/scheduling/CronScheduler.ts: jobs with a schedule, a timer     *)
(* whose tick runs the due ones one after another, and runJobNow, which    *)
(* runs one at once.  A run awaits the due handlers, then advances the     *)
(* job's state, then awaits the settlement handlers; whatever else the     *)
(* program does (another run, the interval timer, a CRUD call) can happen  *)
(* at each await and only there, so every action below is what happens     *)
(* between two awaits.                                                     *)
(*                                                                         *)
(* A job object is a pair <<id, incarnation>>: an id comes back as a new   *)
(* object when a removed job is restored.                                  *)
(***************************************************************************)
EXTENDS Integers

CONSTANTS
    Ids,                \* job ids
    Incarnations,       \* bound: how often one id can be inserted
    Schedules,          \* the schedules callers choose from
    Consulted,          \* schedules computeNextRunAtMs is asked about besides
    Persisted,          \* the job states restoreJob can be handed
    Tick,               \* the run loop of tick()
    Manual,             \* the calls of runJobNow that can be under way at once
    SearchWindow,       \* how far nextCronMatch looks ahead: 366 days
    NoJob,              \* no job object
    Undefined,          \* an absent nextRunAtMs
    MaxInserted,        \* bound: insertions into the Map
    MaxTime             \* bound on the clock

ASSUME CronAssumption ==
    /\ Incarnations \in Nat \ {0} /\ MaxInserted \in Nat /\ MaxTime \in Nat
    /\ Tick \notin Manual
    /\ Undefined \notin Nat
    /\ SearchWindow \in Nat \ {0}
    /\ Schedules # {}
    /\ Persisted \subseteq [enabled : BOOLEAN, schedule : Schedules, next : Nat \cup {Undefined}]
    /\ \A s \in Schedules \cup Consulted :
         \/ s.kind = "at" /\ s.time \in Nat
         \/ s.kind = "every" /\ s.period \in Nat \ {0}
         \/ s.kind = "anchored" /\ s.anchor \in Nat /\ s.period \in Nat \ {0}
         \/ s.kind = "cron" /\ s.matches \subseteq Nat

VARIABLES
    clock,              \* Date.now()
    timer,              \* tickInterval is set
    live,               \* the objects in the jobs Map
    born,               \* the position of each object in the Map's insertion order
    inserted,           \* how many insertions the Map has seen
    job,                \* the fields of every job object
    inFlight,           \* the ids with a run between its start and its state advance
    ticking,            \* the re-entrancy guard of tick()
    pass,               \* the running tick: its `now` and the entry it has come to
    run,                \* the executeJob activations
    fired               \* history: the due time each object was last run at by a tick

cronVars == <<clock, timer, live, born, inserted, job, inFlight, ticking, pass, run, fired>>

Time == 0..MaxTime
Objects == Ids \X (1..Incarnations)
IdOf(o) == o[1]
Runners == {Tick} \cup Manual
NoPass == [now |-> 0, cursor |-> 0]
Idle == [at |-> "idle", obj |-> NoJob, runAt |-> 0]

(* The id is in the Map.                                                   *)
Has(id) == \E o \in live : IdOf(o) = id

-----------------------------------------------------------------------------
(* Mutant: an occurrence at the very time asked about counts as later.     *)
NextRunInclusive(s, after) ==
    CASE s.kind = "at" -> IF s.time >= after THEN s.time ELSE Undefined
      [] s.kind = "every" -> after + s.period
      [] s.kind = "anchored" ->
            IF after < s.anchor
            THEN s.anchor
            ELSE s.anchor + ((after - s.anchor) \div s.period) * s.period
      [] s.kind = "cron" ->
            LET later == {t \in s.matches : t >= after /\ t <= after + SearchWindow}
            IN  IF later = {} THEN Undefined
                ELSE CHOOSE t \in later : \A u \in later : t <= u
      [] OTHER -> Undefined

(* computeNextRunAtMs.  An 'at' schedule has one occurrence, an 'every'    *)
(* schedule one each period, counted from its anchor if it has one, and a  *)
(* cron expression the set of minutes that match it - of those the search  *)
(* visits: in a process whose own zone sets the clock back, it skips the   *)
(* repeated hour.  The search gives up after SearchWindow: three years in  *)
(* four, `0 0 29 2 *` has no next run.                                     *)
NextRun(s, after) ==
    CASE s.kind = "at" ->
            IF s.time > after THEN s.time ELSE Undefined
      [] s.kind = "every" ->
            after + s.period
      [] s.kind = "anchored" ->
            IF after < s.anchor
            THEN s.anchor
            ELSE s.anchor + (((after - s.anchor) \div s.period) + 1) * s.period
      [] s.kind = "cron" ->
            LET later == {t \in s.matches : t > after /\ t <= after + SearchWindow}
            IN  IF later = {} THEN Undefined
                ELSE CHOOSE t \in later : \A u \in later : t <= u
      [] OTHER -> Undefined

NewJob(s, enabled) ==
    [enabled |-> enabled, schedule |-> s,
     next |-> IF enabled THEN NextRun(s, clock) ELSE Undefined]

CronInit ==
    /\ clock = 0
    /\ timer = FALSE
    /\ live = {}
    /\ born = [o \in Objects |-> 0]
    /\ inserted = 0
    /\ job = [o \in Objects |-> [enabled |-> FALSE, schedule |-> CHOOSE s \in Schedules : TRUE,
                                next |-> Undefined]]
    /\ inFlight = {}
    /\ ticking = FALSE
    /\ pass = NoPass
    /\ run = [r \in Runners |-> Idle]
    /\ fired = [o \in Objects |-> Undefined]

-----------------------------------------------------------------------------
(* CRUD and lifecycle: synchronous calls, possible at every await.         *)

Insert(o, fields) ==
    /\ ~Has(IdOf(o)) /\ inserted < MaxInserted
    /\ live' = live \cup {o}
    /\ inserted' = inserted + 1
    /\ born' = [born EXCEPT ![o] = inserted + 1]
    /\ job' = [job EXCEPT ![o] = fields]
    /\ UNCHANGED <<clock, timer, inFlight, ticking, pass, run, fired>>

(* addJob draws a fresh UUID: the id was never used before.                *)
AddJob(id) ==
    /\ born[<<id, 1>>] = 0
    /\ \E s \in Schedules, enabled \in BOOLEAN : Insert(<<id, 1>>, NewJob(s, enabled))

(* restoreJob throws on an id the Map has.                                 *)
RestoreJob(id) ==
    \E n \in 2..Incarnations, p \in Persisted :
        /\ born[<<id, n - 1>>] # 0 /\ born[<<id, n>>] = 0
        /\ Insert(<<id, n>>, p)

RemoveJob(o) ==
    /\ o \in live
    /\ live' = live \ {o}
    /\ UNCHANGED <<clock, timer, born, inserted, job, inFlight, ticking, pass, run, fired>>

ChangeJob(o, fields) ==
    /\ o \in live
    /\ job' = [job EXCEPT ![o] = fields]
    /\ UNCHANGED <<clock, timer, live, born, inserted, inFlight, ticking, pass, run, fired>>

PauseJob(o) == ChangeJob(o, [job[o] EXCEPT !.enabled = FALSE, !.next = Undefined])

ResumeJob(o) ==
    ChangeJob(o, [job[o] EXCEPT !.enabled = TRUE, !.next = NextRun(job[o].schedule, clock)])

(* updateJob with a new schedule; with `enabled`, alone or on top of a new *)
(* schedule, it ends where pauseJob or resumeJob does.                     *)
UpdateJob(o) ==
    \E s \in Schedules, enabled \in BOOLEAN :
        ChangeJob(o, [job[o] EXCEPT !.schedule = s, !.enabled = enabled,
                                    !.next = IF enabled THEN NextRun(s, clock) ELSE Undefined])

-----------------------------------------------------------------------------
(* Mutant: no in-flight guard.                                             *)
StartedUnguarded(r, o, runAt) ==
    /\ inFlight' = inFlight \cup {IdOf(o)}
    /\ run' = [run EXCEPT ![r] = [at |-> "handlers", obj |-> o, runAt |-> runAt]]

(* executeJob up to the first await: a run in flight for the id makes the  *)
(* call a no-op.                                                           *)
Started(r, o, runAt) ==
    IF IdOf(o) \in inFlight
    THEN UNCHANGED <<inFlight, run>>
    ELSE /\ inFlight' = inFlight \cup {IdOf(o)}
         /\ run' = [run EXCEPT ![r] = [at |-> "handlers", obj |-> o, runAt |-> runAt]]

Due(o, now) == job[o].enabled /\ job[o].next # Undefined /\ now >= job[o].next

(* Mutant: the loop goes over a snapshot of the Map.                       *)
ScanSnapshot(now, cursor) ==
    LET ahead == {o \in Objects : born[o] > cursor /\ Due(o, now)} IN
    IF ahead = {}
    THEN /\ ticking' = FALSE
         /\ pass' = NoPass
         /\ UNCHANGED <<inFlight, run, fired>>
    ELSE LET o == CHOOSE x \in ahead : \A y \in ahead : born[x] <= born[y] IN
         /\ ticking' = TRUE
         /\ pass' = [now |-> now, cursor |-> born[o]]
         /\ Started(Tick, o, now)
         /\ fired' = IF IdOf(o) \in inFlight THEN fired ELSE [fired EXCEPT ![o] = job[o].next]

(* tick's loop from the entry `cursor` on, as far as it gets without an    *)
(* await: to the next entry that is due, or to the end of the Map.         *)
Scan(now, cursor) ==
    LET ahead == {o \in live : born[o] > cursor /\ Due(o, now)} IN
    IF ahead = {}
    THEN /\ ticking' = FALSE
         /\ pass' = NoPass
         /\ UNCHANGED <<inFlight, run, fired>>
    ELSE LET o == CHOOSE x \in ahead : \A y \in ahead : born[x] <= born[y] IN
         /\ ticking' = TRUE
         /\ pass' = [now |-> now, cursor |-> born[o]]
         /\ Started(Tick, o, now)
         /\ fired' = IF IdOf(o) \in inFlight THEN fired ELSE [fired EXCEPT ![o] = job[o].next]

(* Mutant: no re-entrancy guard.                                           *)
TickBeginUnguarded ==
    /\ timer
    /\ Scan(clock, 0)
    /\ UNCHANGED <<clock, timer, live, born, inserted, job>>

TickBegin ==
    /\ timer /\ ~ticking
    /\ Scan(clock, 0)
    /\ UNCHANGED <<clock, timer, live, born, inserted, job>>

(* The await of executeJob in the tick is over.                            *)
TickResume ==
    /\ ticking /\ run[Tick].at = "idle"
    /\ Scan(pass.now, pass.cursor)
    /\ UNCHANGED <<clock, timer, live, born, inserted, job>>

(* start() sets the interval and ticks at once.                            *)
StartScheduler ==
    /\ ~timer
    /\ timer' = TRUE
    /\ IF ticking THEN UNCHANGED <<ticking, pass, inFlight, run, fired>> ELSE Scan(clock, 0)
    /\ UNCHANGED <<clock, live, born, inserted, job>>

StopScheduler ==
    /\ timer
    /\ timer' = FALSE
    /\ UNCHANGED <<clock, live, born, inserted, job, inFlight, ticking, pass, run, fired>>

RunJobNow(r, o) ==
    /\ run[r].at = "idle"
    /\ o \in live
    /\ Started(r, o, clock)
    /\ UNCHANGED <<clock, timer, live, born, inserted, job, ticking, pass, fired>>

(* Mutants: the id stays in flight; the job's state does not advance.      *)
HandlersDoneStaysInFlight(r) ==
    LET o == run[r].obj
        s == job[o].schedule
    IN  /\ run[r].at = "handlers"
        /\ job' = [job EXCEPT ![o] =
                     IF s.kind = "at"
                     THEN [job[o] EXCEPT !.enabled = FALSE, !.next = Undefined]
                     ELSE [job[o] EXCEPT !.next = NextRun(s, run[r].runAt)]]
        /\ run' = [run EXCEPT ![r].at = "settling"]
        /\ UNCHANGED <<clock, timer, live, born, inserted, inFlight, ticking, pass, fired>>

HandlersDoneNoAdvance(r) ==
    /\ run[r].at = "handlers"
    /\ inFlight' = inFlight \ {IdOf(run[r].obj)}
    /\ run' = [run EXCEPT ![r].at = "settling"]
    /\ UNCHANGED <<clock, timer, live, born, inserted, job, ticking, pass, fired>>

(* The last due handler has returned or thrown: the job's state advances   *)
(* from the time the run was started with, and the id leaves inFlight.     *)
HandlersDone(r) ==
    LET o == run[r].obj
        s == job[o].schedule
    IN  /\ run[r].at = "handlers"
        /\ job' = [job EXCEPT ![o] =
                     IF s.kind = "at"
                     THEN [job[o] EXCEPT !.enabled = FALSE, !.next = Undefined]
                     ELSE [job[o] EXCEPT !.next = NextRun(s, run[r].runAt)]]
        /\ inFlight' = inFlight \ {IdOf(o)}
        /\ run' = [run EXCEPT ![r].at = "settling"]
        /\ UNCHANGED <<clock, timer, live, born, inserted, ticking, pass, fired>>

(* The settlement handlers have returned, and with them executeJob.        *)
RunSettled(r) ==
    /\ run[r].at = "settling"
    /\ run' = [run EXCEPT ![r] = Idle]
    /\ UNCHANGED <<clock, timer, live, born, inserted, job, inFlight, ticking, pass, fired>>

TimePasses ==
    /\ clock < MaxTime
    /\ clock' = clock + 1
    /\ UNCHANGED <<timer, live, born, inserted, job, inFlight, ticking, pass, run, fired>>

CronNext ==
    \/ \E id \in Ids : AddJob(id) \/ RestoreJob(id)
    \/ \E o \in Objects : \/ RemoveJob(o) \/ PauseJob(o) \/ ResumeJob(o) \/ UpdateJob(o)
                          \/ \E r \in Manual : RunJobNow(r, o)
    \/ \E r \in Runners : HandlersDone(r) \/ RunSettled(r)
    \/ TickBegin \/ TickResume \/ StartScheduler \/ StopScheduler \/ TimePasses

CronSpec == CronInit /\ [][CronNext]_cronVars

(* The interval keeps firing while it is set, and handlers settle.         *)
CronFairness ==
    /\ WF_cronVars(TickBegin) /\ WF_cronVars(TickResume)
    /\ \A r \in Runners : WF_cronVars(HandlersDone(r)) /\ WF_cronVars(RunSettled(r))
CronFairSpec == CronSpec /\ CronFairness
-----------------------------------------------------------------------------
JobFields == [enabled : BOOLEAN, schedule : Schedules, next : Nat \cup {Undefined}]

CronTypeOK ==
    /\ clock \in Nat
    /\ timer \in BOOLEAN
    /\ live \subseteq Objects
    /\ born \in [Objects -> Nat]
    /\ inserted \in Nat
    /\ job \in [Objects -> JobFields]
    /\ inFlight \subseteq Ids
    /\ ticking \in BOOLEAN
    /\ pass \in [now : Nat, cursor : Nat]
    /\ run \in [Runners -> [at : {"idle", "handlers", "settling"},
                            obj : Objects \cup {NoJob}, runAt : Nat]]
    /\ fired \in [Objects -> Nat \cup {Undefined}]

Running(r) == run[r].at = "handlers"

(* Two runs of one job id never overlap, whether they come from the tick,  *)
(* from runJobNow, or from a run that outlived its job's removal and       *)
(* restoration.                                                            *)
OneRunPerId ==
    \A r, q \in Runners :
        Running(r) /\ Running(q) /\ IdOf(run[r].obj) = IdOf(run[q].obj) => r = q

(* An id is in inFlight exactly while a run of it awaits its handlers: no  *)
(* id is left behind, which would bar the job from ever running again.     *)
InFlightExact ==
    \A id \in Ids : id \in inFlight <=> \E r \in Runners : Running(r) /\ IdOf(run[r].obj) = id

(* A slow job keeps the next interval's tick from starting: the tick's     *)
(* activation is only ever in use inside one guarded pass.                 *)
TickGuarded == run[Tick].at # "idle" => ticking

(* Whatever callers and runs do meanwhile, no occurrence of a job is run   *)
(* twice by the tick: a due time that fired is behind the job's next run   *)
(* by the time the job is not running any more.                            *)
NoOccurrenceTwice ==
    \A o \in {x \in Objects : fired[x] # Undefined} :
        \/ job[o].next = Undefined
        \/ job[o].next > fired[o]
        \/ Running(Tick) /\ run[Tick].obj = o /\ run[Tick].runAt >= fired[o]

(* The inductive invariant: besides the above, runs and passes carry times *)
(* that are behind the clock, and what a tick fired lies behind the run of *)
(* that job under way.                                                     *)
TimesArePast == pass.now <= clock /\ \A r \in Runners : run[r].runAt <= clock

LiveIsBorn == \A o \in Objects : o \in live \/ fired[o] # Undefined => born[o] # 0

FiredIsPast ==
    \A o \in {x \in Objects : fired[x] # Undefined} :
        /\ fired[o] <= clock
        /\ \A r \in Runners : Running(r) /\ run[r].obj = o => fired[o] <= run[r].runAt

CronInv ==
    /\ CronTypeOK /\ OneRunPerId /\ InFlightExact /\ TickGuarded
    /\ \A r \in Runners : Running(r) => run[r].obj \in Objects
    /\ TimesArePast /\ LiveIsBorn /\ FiredIsPast /\ NoOccurrenceTwice

(* The occurrences of a schedule that does not count from the time asked.  *)
Occurs(s, t) ==
    \/ s.kind = "at" /\ t = s.time
    \/ s.kind = "anchored" /\ t >= s.anchor /\ (t - s.anchor) % s.period = 0
    \/ s.kind = "cron" /\ t \in s.matches

FirstOccurrence(s, after, n, horizon) ==
    /\ n # Undefined => n > after /\ Occurs(s, n)
    /\ \A t \in (after + 1)..(IF n = Undefined THEN horizon ELSE n - 1) :
         Occurs(s, t) => n = Undefined /\ s.kind = "cron" /\ t > after + SearchWindow

(* computeNextRunAtMs returns the first occurrence of the schedule after   *)
(* the given time, now or later, and undefined only when there is none or, *)
(* for a cron expression, none within the search window.                   *)
NextRunIsFirst ==
    \A s \in Schedules \cup Consulted : s.kind # "every" =>
        \A after \in clock..(clock + 6) :
            FirstOccurrence(s, after, NextRun(s, after), clock + 12)

(* A job that is removed, paused or rescheduled while the tick awaits an   *)
(* earlier job is not run by that tick on the strength of what it was when *)
(* the tick began.                                                         *)
TickFiresOnlyDueJobs ==
    [][Running(Tick)' /\ ~Running(Tick)
       => LET o == run'[Tick].obj IN o \in live /\ Due(o, clock)]_cronVars

(* A due job is run, by this tick or a later one, unless it is removed,    *)
(* stops being due or the scheduler is stopped: no guard stays shut.       *)
DueJobFires ==
    \A o \in Objects :
        o \in live /\ timer /\ Due(o, clock)
        ~> \/ o \notin live \/ ~timer \/ ~Due(o, clock)
           \/ \E r \in Runners : Running(r) /\ run[r].obj = o
=============================================================================

------------------------ MODULE CronSchedulerProofs ------------------------
(***************************************************************************)
(* CronScheduler for any jobs, schedules, clock and number of concurrent   *)
(* runJobNow calls: the in-flight guard is exact, runs of one id exclude   *)
(* each other, the tick runs only jobs that are due at that moment and no  *)
(* occurrence twice, and computeNextRunAtMs skips none.                    *)
(***************************************************************************)
EXTENDS CronScheduler, TLAPS, NaturalsInduction, WellFoundedInduction

(* A set of times has an earliest one (nextCronMatch returns it).          *)
LEMMA EarliestExists ==
    ASSUME NEW S, S \subseteq Nat, S # {}
    PROVE  \E t \in S : \A u \in S : t <= u
<1> DEFINE Less == {p \in Nat \X Nat : p[1] < p[2]}
<1>1. IsWellFoundedOn(Less, Nat)
  BY NatLessThanWellFounded, Zenon DEF OpToRel
<1> HIDE DEF Less
<1>2. PICK t \in S : \A u \in S : ~(<<u, t>> \in Less)
  BY <1>1, WFMin
<1>3. \A u \in S : ~(u < t)
  BY <1>2 DEF Less
<1> QED BY <1>2, <1>3

(* A quotient rounded down, plus one, times the divisor is past the dividend. *)
LEMMA NextMultiple ==
    ASSUME NEW a \in Nat, NEW p \in Nat \ {0}
    PROVE  /\ (a \div p) \in Nat
           /\ ((a \div p) + 1) * p > a
           /\ a % p \in 0..(p - 1) /\ a = (a \div p) * p + (a % p)
<1>1. /\ (a \div p) \in Int /\ (a % p) \in 0..(p - 1)
      /\ a = p * (a \div p) + (a % p)
  BY SMT
<1> QED BY <1>1, SMT

(* computeNextRunAtMs returns a time later than the one it is given, or undefined. *)
LEMMA NextRunIsLater ==
    ASSUME NEW s \in Schedules \cup Consulted, NEW after \in Nat
    PROVE  LET n == NextRun(s, after)
           IN  n \in Nat \cup {Undefined} /\ (n # Undefined => n > after)
<1>1. CASE s.kind = "at"
  BY <1>1, CronAssumption DEF NextRun
<1>2. CASE s.kind = "every"
  BY <1>2, CronAssumption DEF NextRun
<1>3. CASE s.kind = "anchored"
  <2>1. s.anchor \in Nat /\ s.period \in Nat \ {0}
    BY <1>3, CronAssumption
  <2>2. CASE after < s.anchor
    BY <1>3, <2>1, <2>2 DEF NextRun
  <2>3. CASE ~(after < s.anchor)
    <3> DEFINE d == after - s.anchor
    <3>1. d \in Nat
      BY <2>1, <2>3
    <3>2. (d \div s.period) \in Nat /\ ((d \div s.period) + 1) * s.period > d
      BY <2>1, <3>1, NextMultiple
    <3> DEFINE m == ((d \div s.period) + 1) * s.period
    <3>3. m \in Nat /\ m > d
      BY <2>1, <3>2
    <3>4. NextRun(s, after) = s.anchor + m
      BY <1>3, <2>3 DEF NextRun
    <3> HIDE DEF m
    <3> QED BY <2>1, <3>3, <3>4
  <2> QED BY <2>2, <2>3
<1>4. CASE s.kind = "cron"
  <2> DEFINE later == {t \in s.matches : t > after /\ t <= after + SearchWindow}
  <2>1. later \subseteq Nat
    BY <1>4, CronAssumption
  <2>2. NextRun(s, after) = IF later = {} THEN Undefined
                            ELSE CHOOSE t \in later : \A u \in later : t <= u
    BY <1>4 DEF NextRun
  <2>3. later # {} => NextRun(s, after) \in later
    BY <2>1, <2>2, EarliestExists
  <2> QED BY <2>1, <2>2, <2>3
<1> QED BY <1>1, <1>2, <1>3, <1>4, CronAssumption

(* Multiples of p that are less than p apart are equal, and every multiple *)
(* leaves no remainder.                                                    *)
LEMMA Multiples ==
    ASSUME NEW p \in Nat \ {0}
    PROVE  /\ \A j, k \in Int : j * p < k * p => j < k
           /\ \A k \in Nat : (k * p) % p = 0
<1>1. \A j, k \in Int : j * p < k * p => j < k
  <2> SUFFICES ASSUME NEW j \in Int, NEW k \in Int, j >= k PROVE j * p >= k * p
    OBVIOUS
  <2>1. \A u \in Nat : u * p \in Nat
    OBVIOUS
  <2>2. (j - k) * p \in Nat
    BY <2>1
  <2>3. j * p = k * p + (j - k) * p
    OBVIOUS
  <2> QED BY <2>2, <2>3
<1>2. ASSUME NEW k \in Nat PROVE (k * p) % p = 0
  <2>1. k * p \in Nat
    OBVIOUS
  <2> DEFINE x == k * p
             q == x \div p
             m == x % p
  <2>2. q \in Int /\ m \in 0..(p - 1) /\ x = p * q + m
    BY <2>1, SMT
  <2>3. x = k * p
    OBVIOUS
  <2> HIDE DEF q, m, x
  <2>4. m = (k - q) * p
    BY <2>2, <2>3
  <2>5. (k - q) * p < 1 * p /\ (-1) * p < (k - q) * p
    BY <2>2, <2>4
  <2>6. k - q = 0
    BY <1>1, <2>2, <2>5
  <2>7. m = 0
    BY <2>4, <2>6
  <2> QED BY <2>7 DEF x, m
<1> QED BY <1>1, <1>2

(* Between a time and the next run of an anchored schedule nothing occurs, *)
(* and that run is an occurrence.                                          *)
LEMMA AnchoredIsFirst ==
    ASSUME NEW s \in Schedules \cup Consulted, s.kind = "anchored", NEW after \in Nat
    PROVE  /\ Occurs(s, NextRun(s, after))
           /\ \A t \in (after + 1)..(NextRun(s, after) - 1) : ~Occurs(s, t)
<1>1. s.anchor \in Nat /\ s.period \in Nat \ {0}
  BY CronAssumption
<1> DEFINE a == s.anchor
           p == s.period
           OnGrid(t) == t >= a /\ (t - a) % p = 0
<1>2. \A t : Occurs(s, t) <=> OnGrid(t)
  BY DEF Occurs
<1>3. CASE after < a
  <2>1. NextRun(s, after) = a
    BY <1>3 DEF NextRun
  <2>2. 0 * p = 0
    BY <1>1
  <2>3. (0 * p) % p = 0
    BY <1>1, Multiples
  <2>4. OnGrid(a)
    BY <1>1, <2>2, <2>3
  <2> QED BY <1>1, <1>2, <2>1, <2>4
<1>4. CASE ~(after < a)
  <2> DEFINE d == after - a
             m == d \div p
  <2>1. d \in Nat
    BY <1>1, <1>4
  <2>2. m \in Nat /\ (m + 1) * p > d
    BY <1>1, <2>1, NextMultiple
  <2>3. NextRun(s, after) = a + (m + 1) * p
    BY <1>4 DEF NextRun
  <2>4. (m + 1) * p \in Nat
    BY <1>1, <2>2
  <2>5. m * p <= d
    <3>1. d % p \in 0..(p - 1) /\ d = m * p + (d % p)
      BY <1>1, <2>1, NextMultiple
    <3> DEFINE u == m * p
               v == d % p
    <3>2. u \in Nat /\ v \in 0..(p - 1) /\ d = u + v
      BY <1>1, <2>2, <3>1
    <3> HIDE DEF u, v
    <3>3. u <= d
      BY <1>1, <2>1, <3>2
    <3> QED BY <3>3 DEF u
  <2>6. a + d = after
    BY <1>1
  <2> HIDE DEF d, m
  <2>7. OnGrid(a + (m + 1) * p)
    <3>1. ((m + 1) * p) % p = 0
      BY <1>1, <2>2, Multiples
    <3> DEFINE x == (m + 1) * p
    <3>2. x \in Nat /\ x % p = 0
      BY <2>4, <3>1
    <3> HIDE DEF x
    <3>3. (a + x) - a = x /\ a + x >= a
      BY <1>1, <3>2
    <3>4. ((a + x) - a) % p = 0
      BY <3>2, <3>3
    <3>5. OnGrid(a + x)
      BY <3>3, <3>4
    <3> QED BY <3>5 DEF x
  <2> DEFINE n == a + (m + 1) * p
  <2>8. \A t \in (after + 1)..(n - 1) : ~OnGrid(t)
    <3> SUFFICES ASSUME NEW t \in (after + 1)..(n - 1), OnGrid(t) PROVE FALSE
      OBVIOUS
    <3> DEFINE x == t - a
               q == x \div p
    <3>1. t \in Int /\ t > after /\ t < a + (m + 1) * p
      BY <1>1, <2>4
    <3>2. x \in Nat /\ x > d /\ x < (m + 1) * p
      BY <1>1, <2>1, <2>4, <2>6, <3>1
    <3>3. x % p = 0
      OBVIOUS
    <3> HIDE DEF x
    <3>4. q \in Nat /\ x = q * p + (x % p)
      BY <1>1, <3>2, NextMultiple
    <3>5. x = q * p
      BY <1>1, <3>2, <3>3, <3>4
    <3> HIDE DEF q
    <3>6. m * p < q * p /\ q * p < (m + 1) * p
      BY <2>1, <2>2, <2>4, <2>5, <3>2, <3>5, <1>1
    <3>7. m < q /\ q < m + 1
      BY <1>1, <2>2, <3>4, <3>6, Multiples
    <3> QED BY <2>2, <3>4, <3>7
  <2> HIDE DEF OnGrid
  <2>9. NextRun(s, after) = n
    BY <2>3
  <2>10. OnGrid(n)
    BY <2>7
  <2>11. Occurs(s, n)
    BY <1>2, <2>10, Zenon
  <2>12. \A t \in (after + 1)..(n - 1) : ~Occurs(s, t)
    BY <1>2, <2>8, Zenon
  <2> HIDE DEF n
  <2> QED BY <2>9, <2>11, <2>12, Zenon
<1> QED BY <1>3, <1>4, <1>1

(* computeNextRunAtMs answers with the first occurrence of a schedule      *)
(* after any time; when it answers undefined there is none however far one *)
(* looks, or for a cron expression none within the search window.          *)
LEMMA NextRunIsFirstOccurrence ==
    ASSUME NEW s \in Schedules \cup Consulted, s.kind # "every",
           NEW after \in Nat, NEW horizon \in Nat
    PROVE  FirstOccurrence(s, after, NextRun(s, after), horizon)
<1> DEFINE n == NextRun(s, after)
<1>1. n \in Nat \cup {Undefined} /\ (n # Undefined => n > after)
  BY NextRunIsLater
<1>2. Undefined \notin Nat
  BY CronAssumption
<1>3. CASE s.kind = "at"
  <2>1. s.time \in Nat
    BY <1>3, CronAssumption
  <2>2. n = IF s.time > after THEN s.time ELSE Undefined
    BY <1>3 DEF NextRun
  <2>3. \A t : Occurs(s, t) <=> t = s.time
    BY <1>3 DEF Occurs
  <2> HIDE DEF n
  <2> QED BY <1>1, <1>2, <2>1, <2>2, <2>3 DEF FirstOccurrence, n
<1>4. CASE s.kind = "anchored"
  <2>1. n \in Nat
    <3>1. s.anchor \in Nat /\ s.period \in Nat \ {0}
      BY <1>4, CronAssumption
    <3>2. CASE after < s.anchor
      BY <1>4, <3>1, <3>2 DEF NextRun
    <3>3. CASE ~(after < s.anchor)
      <4>1. after - s.anchor \in Nat
        BY <3>1, <3>3
      <4>2. ((after - s.anchor) \div s.period) \in Nat
        BY <3>1, <4>1, NextMultiple
      <4> DEFINE m == (after - s.anchor) \div s.period
      <4>3. n = s.anchor + (m + 1) * s.period
        BY <1>4, <3>3 DEF NextRun
      <4> HIDE DEF m, n
      <4>4. (m + 1) * s.period \in Nat
        BY <3>1, <4>2 DEF m
      <4> QED BY <3>1, <4>3, <4>4
    <3> QED BY <3>2, <3>3
  <2>2. /\ Occurs(s, n)
        /\ \A t \in (after + 1)..(n - 1) : ~Occurs(s, t)
    BY <1>4, AnchoredIsFirst
  <2> HIDE DEF n
  <2> QED BY <1>1, <1>2, <2>1, <2>2 DEF FirstOccurrence, n
<1>5. CASE s.kind = "cron"
  <2> DEFINE later == {t \in s.matches : t > after /\ t <= after + SearchWindow}
  <2>1. s.matches \subseteq Nat
    BY <1>5, CronAssumption
  <2>2. n = IF later = {} THEN Undefined
            ELSE CHOOSE t \in later : \A u \in later : t <= u
    BY <1>5 DEF NextRun
  <2>3. \A t : Occurs(s, t) <=> t \in s.matches
    BY <1>5 DEF Occurs
  <2>4. CASE later = {}
    <3>1. n = Undefined
      BY <2>2, <2>4
    <3>2. \A t \in (after + 1)..horizon : t \in s.matches => t > after + SearchWindow
      BY <2>1, <2>4, CronAssumption
    <3> HIDE DEF n
    <3> QED BY <1>5, <2>3, <3>1, <3>2 DEF FirstOccurrence, n
  <2>5. CASE later # {}
    <3>1. n \in later /\ \A u \in later : n <= u
      BY <2>1, <2>2, <2>5, EarliestExists
    <3> HIDE DEF n
    <3>2. n \in Nat /\ n # Undefined
      BY <1>2, <2>1, <3>1
    <3>3. \A t \in (after + 1)..(n - 1) : t \notin s.matches
      <4>1. n <= after + SearchWindow
        BY <3>1
      <4> HIDE DEF n
      <4> QED BY <2>1, <3>1, <3>2, <4>1, CronAssumption
    <3> QED BY <1>1, <2>3, <3>1, <3>2, <3>3 DEF FirstOccurrence, n
  <2> QED BY <2>4, <2>5
<1> QED BY <1>3, <1>4, <1>5, CronAssumption

-----------------------------------------------------------------------------
LEMMA InitCronInv == CronInit => CronInv
<1> SUFFICES ASSUME CronInit PROVE CronInv
  OBVIOUS
<1> USE CronAssumption DEF CronInit, Idle, NoPass
<1>1. CronTypeOK
  <2>1. (CHOOSE s \in Schedules : TRUE) \in Schedules
    OBVIOUS
  <2> QED BY <2>1 DEF CronTypeOK, JobFields
<1>2. OneRunPerId /\ InFlightExact /\ TickGuarded
  BY DEF OneRunPerId, InFlightExact, TickGuarded, Running, Runners
<1>3. TimesArePast /\ LiveIsBorn /\ FiredIsPast /\ NoOccurrenceTwice
  BY DEF TimesArePast, LiveIsBorn, FiredIsPast, NoOccurrenceTwice
<1> QED BY <1>1, <1>2, <1>3 DEF CronInv, Running

(* What a call that only writes one job's fields, or none, must respect:   *)
(* the new next run lies in the future, or the job was never run.          *)
LEMMA JobWriteKeepsInv ==
    ASSUME CronInv, NEW o \in Objects, NEW f \in JobFields,
           job' = [job EXCEPT ![o] = f],
           fired[o] = Undefined \/ f.next = Undefined \/ f.next > clock,
           live' \subseteq Objects, born' \in [Objects -> Nat], inserted' \in Nat,
           \A x \in Objects : x \in live' \/ fired[x] # Undefined => born'[x] # 0,
           UNCHANGED <<clock, timer, inFlight, ticking, pass, run, fired>>
    PROVE  CronInv'
<1> USE CronAssumption DEF CronInv
<1>1. CronTypeOK'
  BY DEF CronTypeOK
<1>2. OneRunPerId' /\ InFlightExact' /\ TickGuarded' /\ TimesArePast'
  BY DEF OneRunPerId, InFlightExact, TickGuarded, TimesArePast, Running
<1>3. LiveIsBorn' /\ FiredIsPast'
  BY DEF LiveIsBorn, FiredIsPast, Running
<1>4. NoOccurrenceTwice'
  <2> SUFFICES ASSUME NEW x \in Objects, fired[x] # Undefined
               PROVE  \/ job'[x].next = Undefined
                      \/ job'[x].next > fired[x]
                      \/ Running(Tick) /\ run[Tick].obj = x /\ run[Tick].runAt >= fired[x]
    BY DEF NoOccurrenceTwice, Running
  <2>1. CASE x # o
    BY <2>1 DEF NoOccurrenceTwice, CronTypeOK
  <2>2. CASE x = o
    <3>1. fired[o] \in Nat /\ fired[o] <= clock /\ clock \in Nat
      BY <2>2 DEF FiredIsPast, CronTypeOK
    <3>2. job'[o] = f /\ (f.next = Undefined \/ f.next \in Nat)
      BY DEF CronTypeOK, JobFields
    <3> QED BY <2>2, <3>1, <3>2
  <2> QED BY <2>1, <2>2
<1> QED BY <1>1, <1>2, <1>3, <1>4 DEF Running

LEMMA InsertKeepsInv ==
    ASSUME CronInv, NEW o \in Objects, NEW f \in JobFields, born[o] = 0, Insert(o, f)
    PROVE  CronInv'
<1>1. fired[o] = Undefined
  BY DEF CronInv, LiveIsBorn
<1>2. live' \subseteq Objects /\ born' \in [Objects -> Nat] /\ inserted' \in Nat
  BY DEF Insert, CronInv, CronTypeOK
<1>3. \A x \in Objects : x \in live' \/ fired[x] # Undefined => born'[x] # 0
  BY DEF Insert, CronInv, CronTypeOK, LiveIsBorn
<1> QED BY <1>1, <1>2, <1>3, JobWriteKeepsInv DEF Insert

LEMMA ChangeKeepsInv ==
    ASSUME CronInv, NEW o \in Objects, NEW f \in JobFields,
           f.next = Undefined \/ f.next > clock, ChangeJob(o, f)
    PROVE  CronInv'
<1>1. \A x \in Objects : x \in live' \/ fired[x] # Undefined => born'[x] # 0
  BY DEF ChangeJob, CronInv, LiveIsBorn
<1> QED BY <1>1, JobWriteKeepsInv DEF ChangeJob, CronInv, CronTypeOK

(* The entry the tick's loop comes to next is an entry of the Map.         *)
LEMMA FirstAhead ==
    ASSUME CronInv, NEW S, S \subseteq Objects, S # {}
    PROVE  (CHOOSE x \in S : \A y \in S : born[x] <= born[y]) \in S
<1> DEFINE positions == {born[x] : x \in S}
<1>1. positions \subseteq Nat /\ positions # {}
  BY DEF CronInv, CronTypeOK
<1>2. PICK b \in positions : \A c \in positions : b <= c
  BY <1>1, EarliestExists
<1>3. PICK x \in S : b = born[x]
  BY <1>2
<1>4. \A y \in S : born[x] <= born[y]
  BY <1>2, <1>3
<1> QED BY <1>4

(* Entering executeJob for an object that is not running, at a time not    *)
(* after the clock and not before what the tick last fired it for.         *)
LEMMA StartedKeepsInv ==
    ASSUME CronInv, NEW r \in Runners, NEW o \in Objects, NEW t \in Nat,
           t <= clock, run[r].at = "idle", IdOf(o) \notin inFlight, Started(r, o, t),
           r = Tick => ticking',
           NEW d \in Nat \cup {Undefined}, fired' = [fired EXCEPT ![o] = d],
           d # Undefined => d <= t /\ (d = fired[o] \/ (r = Tick /\ o \in live)),
           ticking' \in BOOLEAN, run[Tick].at # "idle" => ticking',
           pass' \in [now : Nat, cursor : Nat], pass'.now <= clock, timer' \in BOOLEAN,
           UNCHANGED <<clock, live, born, inserted, job>>
    PROVE  CronInv'
<1> USE CronAssumption DEF CronInv
<1> DEFINE new == [at |-> "handlers", obj |-> o, runAt |-> t]
<1>1. run' = [run EXCEPT ![r] = new] /\ inFlight' = inFlight \cup {IdOf(o)} /\ IdOf(o) \in Ids
  BY DEF Started, Objects, IdOf
<1>2. CronTypeOK'
  BY <1>1 DEF CronTypeOK
<1>3. run'[r] = new /\ \A q \in Runners \ {r} : run'[q] = run[q]
  BY <1>1 DEF CronTypeOK
<1>4. \A q \in Runners : Running(q) => IdOf(run[q].obj) # IdOf(o)
  BY <1>1 DEF InFlightExact
<1>5. OneRunPerId'
  BY <1>3, <1>4 DEF OneRunPerId, Running
<1>6. InFlightExact'
  <2> SUFFICES ASSUME NEW id \in Ids
               PROVE  id \in inFlight' <=> \E q \in Runners : Running(q)' /\ IdOf(run'[q].obj) = id
    BY DEF InFlightExact
  <2>1. CASE id = IdOf(o)
    BY <2>1, <1>1, <1>3 DEF Running
  <2>2. CASE id # IdOf(o)
    BY <2>2, <1>1, <1>3 DEF InFlightExact, Running
  <2> QED BY <2>1, <2>2
<1>7. TickGuarded'
  BY <1>3 DEF TickGuarded, Runners
<1>8. TimesArePast'
  BY <1>3 DEF TimesArePast
<1>9. LiveIsBorn'
  BY DEF LiveIsBorn, CronTypeOK
<1>10. FiredIsPast'
  <2> SUFFICES ASSUME NEW x \in Objects, fired'[x] # Undefined
               PROVE  /\ fired'[x] <= clock
                      /\ \A q \in Runners : Running(q)' /\ run'[q].obj = x => fired'[x] <= run'[q].runAt
    BY DEF FiredIsPast
  <2>1. CASE x = o
    <3>1. \A q \in Runners : Running(q)' /\ run'[q].obj = x => q = r
      BY <2>1, <1>3, <1>4 DEF Running
    <3>2. fired'[x] = d /\ d \in Nat /\ d <= t /\ clock \in Nat
      BY <2>1 DEF CronTypeOK
    <3> QED BY <3>1, <3>2, <1>3
  <2>2. CASE x # o
    <3>1. fired'[x] = fired[x]
      BY <2>2 DEF CronTypeOK
    <3>2. \A q \in Runners : Running(q)' /\ run'[q].obj = x => q # r /\ Running(q) /\ run'[q] = run[q]
      BY <2>2, <1>3 DEF Running
    <3> QED BY <3>1, <3>2 DEF FiredIsPast
  <2> QED BY <2>1, <2>2
<1>11. NoOccurrenceTwice'
  <2> SUFFICES ASSUME NEW x \in Objects, fired'[x] # Undefined
               PROVE  \/ job[x].next = Undefined
                      \/ job[x].next > fired'[x]
                      \/ Running(Tick)' /\ run'[Tick].obj = x /\ run'[Tick].runAt >= fired'[x]
    BY DEF NoOccurrenceTwice
  <2>1. CASE x = o
    <3>1. fired'[x] = d
      BY <2>1 DEF CronTypeOK
    <3>2. CASE r = Tick
      BY <2>1, <3>1, <3>2, <1>3 DEF Running
    <3>3. CASE r # Tick
      <4>1. ~(Running(Tick) /\ run[Tick].obj = x) /\ d = fired[o]
        BY <2>1, <3>1, <3>3, <1>4 DEF Runners
      <4> QED BY <2>1, <3>1, <4>1 DEF NoOccurrenceTwice
    <3> QED BY <3>2, <3>3
  <2>2. CASE x # o
    <3>1. fired'[x] = fired[x]
      BY <2>2 DEF CronTypeOK
    <3>2. Running(Tick) => run'[Tick] = run[Tick]
      BY <1>3 DEF Running, Runners
    <3> QED BY <3>1, <3>2 DEF NoOccurrenceTwice, Running
  <2> QED BY <2>1, <2>2
<1>12. \A q \in Runners : Running(q)' => run'[q].obj \in Objects
  BY <1>3 DEF Running
<1> QED BY <1>2, <1>5, <1>6, <1>7, <1>8, <1>9, <1>10, <1>11, <1>12

(* Steps that leave jobs, runs and what was fired alone.                   *)
LEMMA BookkeepingKeepsInv ==
    ASSUME CronInv, clock' \in Nat, clock' >= clock, timer' \in BOOLEAN,
           ticking' \in BOOLEAN, run[Tick].at # "idle" => ticking',
           pass' \in [now : Nat, cursor : Nat], pass'.now <= clock',
           live' \subseteq live,
           UNCHANGED <<born, inserted, job, inFlight, run, fired>>
    PROVE  CronInv'
<1> USE CronAssumption DEF CronInv
<1>1. CronTypeOK' /\ OneRunPerId' /\ InFlightExact' /\ TickGuarded'
  BY DEF CronTypeOK, OneRunPerId, InFlightExact, TickGuarded, Running
<1>2. TimesArePast' /\ LiveIsBorn' /\ FiredIsPast' /\ NoOccurrenceTwice'
  <2>1. TimesArePast'
    BY DEF TimesArePast, CronTypeOK
  <2>2. FiredIsPast'
    BY DEF FiredIsPast, Running, CronTypeOK
  <2> QED BY <2>1, <2>2 DEF LiveIsBorn, NoOccurrenceTwice, Running
<1> QED BY <1>1, <1>2 DEF Running

LEMMA ScanKeepsInv ==
    ASSUME CronInv, NEW now \in Nat, now <= clock, NEW cursor \in Nat,
           run[Tick].at = "idle", timer' \in BOOLEAN, Scan(now, cursor),
           UNCHANGED <<clock, live, born, inserted, job>>
    PROVE  CronInv'
<1> DEFINE ahead == {o \in live : born[o] > cursor /\ Due(o, now)}
<1> DEFINE first == CHOOSE x \in ahead : \A y \in ahead : born[x] <= born[y]
<1>1. CASE ahead = {}
  <2>1. ticking' = FALSE /\ pass' = NoPass /\ UNCHANGED <<inFlight, run, fired>>
    BY <1>1 DEF Scan
  <2>2. clock \in Nat /\ pass' \in [now : Nat, cursor : Nat] /\ pass'.now <= clock
    BY <2>1 DEF NoPass, CronInv, CronTypeOK
  <2>3. clock' \in Nat /\ clock' >= clock /\ pass'.now <= clock' /\ live' \subseteq live
    BY <2>2
  <2> QED BY <2>1, <2>2, <2>3, BookkeepingKeepsInv
<1>2. CASE ahead # {}
  <2>1. first \in ahead /\ first \in Objects
    <3>1. ahead \subseteq Objects
      BY DEF CronInv, CronTypeOK
    <3> HIDE DEF ahead
    <3> QED BY <1>2, <3>1, FirstAhead
  <2>2. /\ ticking' = TRUE /\ pass' = [now |-> now, cursor |-> born[first]]
        /\ Started(Tick, first, now)
        /\ fired' = IF IdOf(first) \in inFlight THEN fired ELSE [fired EXCEPT ![first] = job[first].next]
    BY <1>2 DEF Scan
  <2>3. job[first].next \in Nat /\ job[first].next <= now /\ first \in live
    BY <2>1 DEF Due, CronInv, CronTypeOK, JobFields
  <2> HIDE DEF first, ahead
  <2>4. pass' \in [now : Nat, cursor : Nat] /\ pass'.now <= clock
    BY <2>1, <2>2 DEF CronInv, CronTypeOK
  <2>5. CASE IdOf(first) \in inFlight
    BY <2>2, <2>4, <2>5, BookkeepingKeepsInv DEF Started, CronInv, CronTypeOK
  <2>6. CASE IdOf(first) \notin inFlight
    <3>1. Tick \in Runners
      BY DEF Runners
    <3> QED BY <2>1, <2>2, <2>3, <2>4, <2>6, <3>1, StartedKeepsInv DEF CronInv, CronTypeOK
  <2> QED BY <2>5, <2>6
<1> QED BY <1>1, <1>2

(* A run's state advance: the next run is computed from the time the run   *)
(* was started with, which is not before what the tick last fired it for.  *)
LEMMA HandlersDoneKeepsInv ==
    ASSUME CronInv, NEW r \in Runners, HandlersDone(r)
    PROVE  CronInv'
<1> USE CronAssumption DEF CronInv
<1> DEFINE o == run[r].obj
<1>1. Running(r) /\ o \in Objects /\ IdOf(o) \in Ids
  BY DEF HandlersDone, Running, Objects, IdOf
<1>2. PICK f \in JobFields : /\ job' = [job EXCEPT ![o] = f]
                             /\ f.next = Undefined \/ f.next > run[r].runAt
  <2> DEFINE s == job[o].schedule
  <2>1. s \in Schedules /\ run[r].runAt \in Nat
    BY <1>1 DEF CronTypeOK, JobFields
  <2>2. CASE s.kind = "at"
    <3> DEFINE f == [job[o] EXCEPT !.enabled = FALSE, !.next = Undefined]
    <3> job[o] \in JobFields
      BY <1>1 DEF CronTypeOK
    <3>1. f \in JobFields /\ f.next = Undefined
      BY DEF JobFields
    <3>2. job' = [job EXCEPT ![o] = f]
      BY <2>2 DEF HandlersDone
    <3> QED BY <3>1, <3>2
  <2>3. CASE s.kind # "at"
    <3> DEFINE n == NextRun(s, run[r].runAt)
    <3> DEFINE f == [job[o] EXCEPT !.next = n]
    <3>1. n \in Nat \cup {Undefined} /\ (n # Undefined => n > run[r].runAt)
      BY <2>1, NextRunIsLater
    <3>2. job' = [job EXCEPT ![o] = f]
      BY <2>3 DEF HandlersDone
    <3> HIDE DEF n
    <3>3. f \in JobFields /\ f.next = n
      BY <1>1, <3>1 DEF CronTypeOK, JobFields
    <3> QED BY <3>1, <3>2, <3>3
  <2> QED BY <2>2, <2>3
<1>3. /\ inFlight' = inFlight \ {IdOf(o)}
      /\ run' = [run EXCEPT ![r] = [run[r] EXCEPT !.at = "settling"]]
      /\ UNCHANGED <<clock, timer, live, born, inserted, ticking, pass, fired>>
  BY DEF HandlersDone
<1>4. /\ \A q \in Runners \ {r} : run'[q] = run[q]
      /\ run'[r].at = "settling" /\ run'[r].runAt = run[r].runAt
  BY <1>3 DEF CronTypeOK
<1>5. CronTypeOK'
  <2>1. job' \in [Objects -> JobFields]
    BY <1>1, <1>2 DEF CronTypeOK
  <2>2. run' \in [Runners -> [at : {"idle", "handlers", "settling"},
                             obj : Objects \cup {NoJob}, runAt : Nat]]
    BY <1>3 DEF CronTypeOK
  <2> QED BY <1>3, <2>1, <2>2 DEF CronTypeOK
<1>6. OneRunPerId'
  BY <1>4 DEF OneRunPerId, Running
<1>7. InFlightExact'
  <2> SUFFICES ASSUME NEW id \in Ids
               PROVE  id \in inFlight' <=> \E q \in Runners : Running(q)' /\ IdOf(run'[q].obj) = id
    BY DEF InFlightExact
  <2>1. CASE id = IdOf(o)
    BY <2>1, <1>1, <1>3, <1>4 DEF OneRunPerId, Running
  <2>2. CASE id # IdOf(o)
    BY <2>2, <1>1, <1>3, <1>4 DEF InFlightExact, Running
  <2> QED BY <2>1, <2>2
<1>8. TickGuarded'
  BY <1>3, <1>4, <1>1 DEF TickGuarded, Running, Runners
<1>9. TimesArePast' /\ LiveIsBorn'
  BY <1>3, <1>4 DEF TimesArePast, LiveIsBorn
<1>10. FiredIsPast'
  BY <1>3, <1>4 DEF FiredIsPast, Running
<1>11. NoOccurrenceTwice'
  <2> SUFFICES ASSUME NEW x \in Objects, fired[x] # Undefined
               PROVE  \/ job'[x].next = Undefined
                      \/ job'[x].next > fired[x]
                      \/ Running(Tick)' /\ run'[Tick].obj = x /\ run'[Tick].runAt >= fired[x]
    BY <1>3 DEF NoOccurrenceTwice
  <2>1. CASE x = o
    <3>1. fired[x] <= run[r].runAt /\ fired[x] \in Nat /\ run[r].runAt \in Nat
      BY <2>1, <1>1 DEF FiredIsPast, CronTypeOK
    <3>2. job'[x] = f
      BY <2>1, <1>1, <1>2 DEF CronTypeOK
    <3> QED BY <1>2, <3>1, <3>2 DEF JobFields
  <2>2. CASE x # o
    <3>1. job'[x] = job[x]
      BY <2>2, <1>2 DEF CronTypeOK
    <3>2. CASE Running(Tick) /\ run[Tick].obj = x
      BY <2>2, <3>1, <3>2, <1>4 DEF NoOccurrenceTwice, Running, Runners
    <3>3. CASE ~(Running(Tick) /\ run[Tick].obj = x)
      BY <3>1, <3>3 DEF NoOccurrenceTwice
    <3> QED BY <3>2, <3>3
  <2> QED BY <2>1, <2>2
<1>12. \A q \in Runners : Running(q)' => run'[q].obj \in Objects
  BY <1>4 DEF Running
<1> QED BY <1>5, <1>6, <1>7, <1>8, <1>9, <1>10, <1>11, <1>12

LEMMA SettledKeepsInv ==
    ASSUME CronInv, NEW r \in Runners, RunSettled(r)
    PROVE  CronInv'
<1> USE CronAssumption DEF CronInv, Idle
<1>1. /\ \A q \in Runners : Running(q)' <=> Running(q)
      /\ \A q \in Runners : Running(q) => run'[q] = run[q]
      /\ \A q \in Runners : run'[q] \in {run[q], Idle}
      /\ run'[Tick].at # "idle" => run[Tick].at # "idle"
  BY DEF RunSettled, Running, CronTypeOK, Runners
<1>2. CronTypeOK'
  BY DEF RunSettled, CronTypeOK
<1>3. OneRunPerId' /\ InFlightExact' /\ TickGuarded' /\ LiveIsBorn'
  BY <1>1 DEF RunSettled, OneRunPerId, InFlightExact, TickGuarded, LiveIsBorn
<1>4. TimesArePast'
  BY <1>1 DEF RunSettled, TimesArePast, CronTypeOK
<1>5. FiredIsPast'
  BY <1>1 DEF RunSettled, FiredIsPast
<1>6. NoOccurrenceTwice'
  BY <1>1 DEF RunSettled, NoOccurrenceTwice, Runners
<1> QED BY <1>1, <1>2, <1>3, <1>4, <1>5, <1>6

-----------------------------------------------------------------------------
LEMMA NextKeepsInv == CronInv /\ [CronNext]_cronVars => CronInv'
<1> SUFFICES ASSUME CronInv, [CronNext]_cronVars PROVE CronInv'
  OBVIOUS
<1>1. clock \in Nat /\ pass.now \in Nat /\ pass.cursor \in Nat /\ pass.now <= clock
      /\ pass \in [now : Nat, cursor : Nat]
  BY DEF CronInv, CronTypeOK, TimesArePast
<1>2. ASSUME NEW s \in Schedules, NEW e \in BOOLEAN,
             NEW n, n = (IF e THEN NextRun(s, clock) ELSE Undefined)
      PROVE  n \in Nat \cup {Undefined} /\ (n = Undefined \/ n > clock)
  BY <1>1, <1>2, NextRunIsLater
<1>3. ASSUME NEW id \in Ids, AddJob(id) PROVE CronInv'
  <2>1. PICK s \in Schedules, e \in BOOLEAN : Insert(<<id, 1>>, NewJob(s, e)) /\ born[<<id, 1>>] = 0
    BY <1>3 DEF AddJob
  <2>2. NewJob(s, e) \in JobFields
    BY <1>2 DEF NewJob, JobFields
  <2>3. <<id, 1>> \in Objects
    BY CronAssumption DEF Objects
  <2> QED BY <2>1, <2>2, <2>3, InsertKeepsInv
<1>4. ASSUME NEW id \in Ids, RestoreJob(id) PROVE CronInv'
  <2>1. PICK n \in 2..Incarnations, p \in Persisted : born[<<id, n>>] = 0 /\ Insert(<<id, n>>, p)
    BY <1>4 DEF RestoreJob
  <2>2. <<id, n>> \in Objects /\ p \in JobFields
    BY CronAssumption DEF Objects, JobFields
  <2> QED BY <2>1, <2>2, InsertKeepsInv
<1>5. ASSUME NEW o \in Objects, RemoveJob(o) PROVE CronInv'
  BY <1>1, <1>5, BookkeepingKeepsInv DEF RemoveJob, CronInv, CronTypeOK, TickGuarded
<1>6. ASSUME NEW o \in Objects, PauseJob(o) PROVE CronInv'
  <2> DEFINE f == [job[o] EXCEPT !.enabled = FALSE, !.next = Undefined]
  <2>1. f \in JobFields /\ f.next = Undefined
    BY DEF CronInv, CronTypeOK, JobFields
  <2>2. ChangeJob(o, f)
    BY <1>6 DEF PauseJob
  <2> QED BY <2>1, <2>2, ChangeKeepsInv
<1>7. ASSUME NEW o \in Objects, ResumeJob(o) PROVE CronInv'
  <2> DEFINE n == NextRun(job[o].schedule, clock)
  <2> DEFINE f == [job[o] EXCEPT !.enabled = TRUE, !.next = n]
  <2>1. n \in Nat \cup {Undefined} /\ (n = Undefined \/ n > clock)
    BY <1>1, NextRunIsLater DEF CronInv, CronTypeOK, JobFields
  <2>2. ChangeJob(o, f)
    BY <1>7 DEF ResumeJob
  <2> HIDE DEF n
  <2>3. f \in JobFields /\ f.next = n
    BY <2>1 DEF CronInv, CronTypeOK, JobFields
  <2> QED BY <2>1, <2>2, <2>3, ChangeKeepsInv
<1>8. ASSUME NEW o \in Objects, UpdateJob(o) PROVE CronInv'
  <2>1. PICK s \in Schedules, e \in BOOLEAN :
          ChangeJob(o, [job[o] EXCEPT !.schedule = s, !.enabled = e,
                                      !.next = IF e THEN NextRun(s, clock) ELSE Undefined])
    BY <1>8 DEF UpdateJob
  <2> DEFINE n == IF e THEN NextRun(s, clock) ELSE Undefined
  <2> DEFINE f == [job[o] EXCEPT !.schedule = s, !.enabled = e, !.next = n]
  <2>2. n \in Nat \cup {Undefined} /\ (n = Undefined \/ n > clock)
    BY <1>2
  <2>3. ChangeJob(o, f)
    BY <2>1
  <2> HIDE DEF n
  <2>4. f \in JobFields /\ f.next = n
    BY <2>2 DEF CronInv, CronTypeOK, JobFields
  <2> QED BY <2>2, <2>3, <2>4, ChangeKeepsInv
<1>9. ASSUME NEW r \in Manual, NEW o \in Objects, RunJobNow(r, o) PROVE CronInv'
  <2>1. /\ run[r].at = "idle" /\ Started(r, o, clock) /\ r \in Runners /\ r # Tick
        /\ UNCHANGED <<clock, timer, live, born, inserted, job, ticking, pass, fired>>
    BY <1>9, CronAssumption DEF RunJobNow, Runners
  <2>2. CASE IdOf(o) \in inFlight
    BY <1>1, <2>1, <2>2, BookkeepingKeepsInv DEF Started, CronInv, CronTypeOK, TickGuarded
  <2>3. CASE IdOf(o) \notin inFlight
    <3>1. /\ fired[o] \in Nat \cup {Undefined} /\ fired' = [fired EXCEPT ![o] = fired[o]]
          /\ fired[o] # Undefined => fired[o] <= clock
      BY <2>1 DEF CronInv, CronTypeOK, FiredIsPast
    <3>2. /\ ticking' \in BOOLEAN /\ (run[Tick].at # "idle" => ticking') /\ timer' \in BOOLEAN
          /\ pass' \in [now : Nat, cursor : Nat] /\ pass'.now <= clock
      BY <1>1, <2>1 DEF CronInv, CronTypeOK, TickGuarded
    <3>3. PICK d \in Nat \cup {Undefined}, t \in Nat : d = fired[o] /\ t = clock
      BY <1>1, <3>1
    <3>4. t <= clock /\ Started(r, o, t)
      BY <1>1, <2>1, <3>3
    <3>5. fired' = [fired EXCEPT ![o] = d]
      BY <3>1, <3>3
    <3>6. d # Undefined => d <= t /\ (d = fired[o] \/ (r = Tick /\ o \in live))
      BY <3>1, <3>3
    <3>7. UNCHANGED <<clock, live, born, inserted, job>> /\ (r = Tick => ticking')
      BY <2>1
    <3>8. run[r].at = "idle" /\ r \in Runners
      BY <2>1
    <3> QED BY <2>3, <3>2, <3>4, <3>5, <3>6, <3>7, <3>8, StartedKeepsInv
  <2> QED BY <2>2, <2>3
<1>10. ASSUME NEW r \in Runners, HandlersDone(r) \/ RunSettled(r) PROVE CronInv'
  BY <1>10, HandlersDoneKeepsInv, SettledKeepsInv
<1>11. CASE TickBegin
  <2>1. run[Tick].at = "idle"
    BY <1>11 DEF TickBegin, CronInv, TickGuarded
  <2> QED BY <1>1, <1>11, <2>1, ScanKeepsInv DEF TickBegin, CronInv, CronTypeOK
<1>12. CASE TickResume
  BY <1>1, <1>12, ScanKeepsInv DEF TickResume, CronInv, CronTypeOK
<1>13. CASE StartScheduler
  <2>1. CASE ticking
    BY <1>1, <1>13, <2>1, BookkeepingKeepsInv DEF StartScheduler, CronInv, CronTypeOK
  <2>2. CASE ~ticking
    <3>1. run[Tick].at = "idle"
      BY <2>2 DEF CronInv, TickGuarded
    <3> QED BY <1>1, <1>13, <2>2, <3>1, ScanKeepsInv DEF StartScheduler, CronInv, CronTypeOK
  <2> QED BY <2>1, <2>2
<1>14. CASE StopScheduler
  <2>1. timer' \in BOOLEAN /\ ticking' \in BOOLEAN /\ (run[Tick].at # "idle" => ticking')
    BY <1>14 DEF StopScheduler, CronInv, CronTypeOK, TickGuarded
  <2>2. clock' = clock /\ pass' = pass /\ live' \subseteq live
        /\ UNCHANGED <<born, inserted, job, inFlight, run, fired>>
    BY <1>14 DEF StopScheduler
  <2> QED BY <1>1, <2>1, <2>2, BookkeepingKeepsInv
<1>15. CASE TimePasses
  BY <1>1, <1>15, BookkeepingKeepsInv DEF TimePasses, CronInv, CronTypeOK, TickGuarded
<1>16. CASE UNCHANGED cronVars
  BY <1>1, <1>16, BookkeepingKeepsInv DEF cronVars, CronInv, CronTypeOK, TickGuarded
<1> QED BY <1>3, <1>4, <1>5, <1>6, <1>7, <1>8, <1>9, <1>10, <1>11, <1>12, <1>13, <1>14, <1>15, <1>16
       DEF CronNext

(* The scheduler's guards, clock and run records stay consistent in every  *)
(* reachable state.                                                        *)
THEOREM CronInvariant == CronSpec => []CronInv
BY InitCronInv, NextKeepsInv, PTL DEF CronSpec

(* Runs of one job id never overlap (CronScheduler.ts:397).                *)
THEOREM CronRunsExclude == CronSpec => []OneRunPerId
<1>1. CronInv => OneRunPerId
  BY DEF CronInv
<1> QED BY <1>1, CronInvariant, PTL

(* inFlight holds exactly the ids with a run under way, whatever was       *)
(* removed, restored or run by hand meanwhile.                             *)
THEOREM CronInFlightExact == CronSpec => []InFlightExact
<1>1. CronInv => InFlightExact
  BY DEF CronInv
<1> QED BY <1>1, CronInvariant, PTL

(* No occurrence of a job is run twice by the tick, even when it works     *)
(* from a `now` that is long past.                                         *)
THEOREM CronFiresOccurrencesOnce == CronSpec => []NoOccurrenceTwice
<1>1. CronInv => NoOccurrenceTwice
  BY DEF CronInv
<1> QED BY <1>1, CronInvariant, PTL

(* computeNextRunAtMs (CronScheduler.ts:458) never skips an occurrence, for *)
(* any schedule that does not count from the time it is asked at.          *)
THEOREM CronNextRunIsFirst == CronSpec => []NextRunIsFirst
<1>1. CronInv => NextRunIsFirst
  <2> SUFFICES ASSUME CronInv,
                      NEW s \in Schedules \cup Consulted, s.kind # "every",
                      NEW after \in clock..(clock + 6)
               PROVE  FirstOccurrence(s, after, NextRun(s, after), clock + 12)
    BY DEF NextRunIsFirst
  <2>1. after \in Nat /\ clock + 12 \in Nat
    BY DEF CronInv, CronTypeOK
  <2> QED BY <2>1, NextRunIsFirstOccurrence
<1> QED BY <1>1, CronInvariant, PTL

(* The tick enters executeJob only for an object that is in the Map and    *)
(* due at that moment, whatever was removed, paused or rescheduled while   *)
(* it awaited the jobs before (CronScheduler.ts:379).                      *)
THEOREM CronTickFiresOnlyDueJobs == CronSpec => TickFiresOnlyDueJobs
<1> DEFINE FiresDue == Running(Tick)' /\ ~Running(Tick)
                       => LET o == run'[Tick].obj IN o \in live /\ Due(o, clock)
<1>1. ASSUME CronInv, NEW now \in Nat, NEW cursor \in Nat, now <= clock, Scan(now, cursor)
      PROVE  FiresDue
  <2> DEFINE ahead == {o \in live : born[o] > cursor /\ Due(o, now)}
             first == CHOOSE x \in ahead : \A y \in ahead : born[x] <= born[y]
  <2>1. CASE ahead = {}
    BY <1>1, <2>1 DEF Scan, Running
  <2>2. CASE ahead # {}
    <3>1. ahead \subseteq Objects
      BY <1>1 DEF CronInv, CronTypeOK
    <3>2. first \in ahead
      BY <1>1, <2>2, <3>1, FirstAhead
    <3>3. first \in live /\ Due(first, clock)
      BY <1>1, <3>1, <3>2, CronAssumption DEF Due, CronInv, CronTypeOK, JobFields
    <3>4. Started(Tick, first, now)
      BY <1>1, <2>2 DEF Scan
    <3> HIDE DEF first
    <3>5. CASE IdOf(first) \in inFlight
      BY <3>4, <3>5 DEF Started, Running
    <3>6. CASE IdOf(first) \notin inFlight
      <4>1. run'[Tick].obj = first
        BY <1>1, <3>4, <3>6 DEF Started, CronInv, CronTypeOK, Runners
      <4> QED BY <3>3, <4>1
    <3> QED BY <3>5, <3>6
  <2> QED BY <2>1, <2>2
<1>2. ASSUME CronInv, CronNext PROVE FiresDue
  <2> SUFFICES ASSUME Running(Tick)', ~Running(Tick)
               PROVE  LET o == run'[Tick].obj IN o \in live /\ Due(o, clock)
    OBVIOUS
  <2>1. run[Tick].at # "handlers" /\ run'[Tick].at = "handlers"
    BY DEF Running
  <2>2. clock \in Nat /\ pass.now \in Nat /\ pass.cursor \in Nat /\ pass.now <= clock
    BY <1>2 DEF CronInv, CronTypeOK, TimesArePast
  <2>3. (\E id \in Ids : AddJob(id) \/ RestoreJob(id)) => run' = run
    BY DEF AddJob, RestoreJob, Insert
  <2>4. (\E o \in Objects : RemoveJob(o) \/ PauseJob(o) \/ ResumeJob(o) \/ UpdateJob(o))
        => run' = run
    BY DEF RemoveJob, PauseJob, ResumeJob, UpdateJob, ChangeJob
  <2>5. (\E o \in Objects, r \in Manual : RunJobNow(r, o)) => run'[Tick] = run[Tick]
    BY <1>2, CronAssumption DEF RunJobNow, Started, CronInv, CronTypeOK, Runners
  <2>6. ASSUME NEW r \in Runners, HandlersDone(r) \/ RunSettled(r)
        PROVE  run'[Tick].at # "handlers"
    BY <1>2, <2>1, <2>6 DEF HandlersDone, RunSettled, CronInv, CronTypeOK, Runners, Idle
  <2>7. StopScheduler \/ TimePasses => run' = run
    BY DEF StopScheduler, TimePasses
  <2>8. TickBegin => FiresDue
    BY <1>1, <1>2, <2>2 DEF TickBegin
  <2>9. TickResume => FiresDue
    BY <1>1, <1>2, <2>2 DEF TickResume
  <2>10. StartScheduler => run' = run \/ FiresDue
    BY <1>1, <1>2, <2>2 DEF StartScheduler
  <2> QED BY <1>2, <2>1, <2>3, <2>4, <2>5, <2>6, <2>7, <2>8, <2>9, <2>10 DEF CronNext
<1>3. CronInv /\ [CronNext]_cronVars => [FiresDue]_cronVars
  BY <1>2
<1> QED BY <1>3, CronInvariant, PTL DEF CronSpec, TickFiresOnlyDueJobs
=============================================================================

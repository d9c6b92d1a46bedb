------------------------- MODULE SentimentAnalyzer --------------------------
(***************************************************************************)
(* autonomy/social/LLMSentimentAnalyzer.ts: the model calls that turn what *)
(* an agent reads into moods.  At most maxConcurrency of them are under    *)
(* way, the others wait in a queue; the answers about contents are kept in *)
(* a cache that forgets the least recently used first.  A content goes by  *)
(* the hash that is its key; the model is external, it answers or fails.   *)
(* An analysis that is over makes room for another one of the same name.   *)
(***************************************************************************)
EXTENDS Naturals, Sequences, FiniteSets

CONSTANTS
    Analyses,           \* the analyses that can be under way at once: a bound
    Hashes,
    NoHash,             \* of the impact on a mood, which is not cached
    maxConcurrency, maxCacheSize

ASSUME AnalyzerAssumption ==
    /\ IsFiniteSet(Analyses) /\ NoHash \notin Hashes
    /\ maxConcurrency \in Nat \ {0} /\ maxCacheSize \in Nat \ {0}

VARIABLES
    running,
    queue,              \* who waits in acquire()
    analysis,           \* where each analysis is, and its cache key
    cache               \* the Map in insertion order; fresh: before expiresAt

analyzerVars == <<running, queue, analysis, cache>>

Unasked == [at |-> "idle", key |-> NoHash]

AnalyzerInit ==
    /\ running = 0 /\ queue = <<>> /\ cache = <<>>
    /\ analysis = [a \in Analyses |-> Unasked]

-----------------------------------------------------------------------------
(* The cache.  An entry that is set again stays where it was.              *)
Entry(h) == [hash |-> h, fresh |-> TRUE]
Position(s, h) == {i \in 1..Len(s) : s[i].hash = h}
WithoutEntry(s, i) == [j \in 1..(Len(s) - 1) |-> IF j < i THEN s[j] ELSE s[j + 1]]

Evicted(s) == IF Len(s) >= maxCacheSize THEN Tail(s) ELSE s

CacheSet(s, h) ==
    IF Position(s, h) = {} THEN Append(s, Entry(h))
    ELSE [i \in 1..Len(s) |-> IF s[i].hash = h THEN Entry(h) ELSE s[i]]

-----------------------------------------------------------------------------
(* Mutant: a call that finds the limit reached goes on all the same.       *)
AcquireUnlimited(a, h) ==
    /\ running' = running + 1
    /\ analysis' = [analysis EXCEPT ![a] = [at |-> "invoking", key |-> h]]
    /\ UNCHANGED queue

(* acquire(): goes on at once, or waits for a slot.                        *)
Acquire(a, h) ==
    \/ /\ running < maxConcurrency
       /\ running' = running + 1
       /\ analysis' = [analysis EXCEPT ![a] = [at |-> "invoking", key |-> h]]
       /\ UNCHANGED queue
    \/ /\ running >= maxConcurrency
       /\ queue' = Append(queue, a)
       /\ analysis' = [analysis EXCEPT ![a] = [at |-> "waiting", key |-> h]]
       /\ UNCHANGED running

(* analyzeSentiment up to its await: an entry that is fresh is the answer  *)
(* and becomes the most recent, one that is not is dropped.                *)
AnalyzeSentiment(a, h) ==
    /\ analysis[a].at = "idle"
    /\ \/ \E i \in Position(cache, h) :
            /\ cache[i].fresh
            /\ cache' = Append(WithoutEntry(cache, i), cache[i])
            /\ UNCHANGED <<running, queue, analysis>>
       \/ \E i \in Position(cache, h) :
            /\ ~cache[i].fresh
            /\ cache' = WithoutEntry(cache, i)
            /\ Acquire(a, h)
       \/ Position(cache, h) = {} /\ Acquire(a, h) /\ UNCHANGED cache

AnalyzeMoodImpact(a) == analysis[a].at = "idle" /\ Acquire(a, NoHash) /\ UNCHANGED cache

(* Mutant: the slot is free, but who waits for it is not told.             *)
ReleaseUntold(a) ==
    /\ running' = running - 1
    /\ analysis' = [analysis EXCEPT ![a] = Unasked]
    /\ UNCHANGED queue

(* release() in the finally block: the oldest waiter takes the slot.       *)
Release(a) ==
    \/ /\ queue = <<>>
       /\ running' = running - 1
       /\ analysis' = [analysis EXCEPT ![a] = Unasked]
       /\ UNCHANGED queue
    \/ /\ queue # <<>>
       /\ queue' = Tail(queue)
       /\ analysis' = [analysis EXCEPT ![a] = Unasked, ![Head(queue)].at = "invoking"]
       /\ UNCHANGED running

(* The model's answer can be read: it is kept, also when another analysis  *)
(* of the same content has kept one meanwhile.                             *)
Answered(a) ==
    /\ analysis[a].at = "invoking"
    /\ cache' = IF analysis[a].key = NoHash THEN cache ELSE CacheSet(Evicted(cache), analysis[a].key)
    /\ Release(a)

(* The model fails, or its answer is not the JSON that was asked for.      *)
InvocationFails(a) == analysis[a].at = "invoking" /\ Release(a) /\ UNCHANGED cache

Expires(i) ==
    /\ cache[i].fresh
    /\ cache' = [cache EXCEPT ![i].fresh = FALSE]
    /\ UNCHANGED <<running, queue, analysis>>

clearCache == cache' = <<>> /\ UNCHANGED <<running, queue, analysis>>

AnalyzerNext ==
    \/ \E a \in Analyses : \/ \E h \in Hashes : AnalyzeSentiment(a, h)
                           \/ AnalyzeMoodImpact(a)
                           \/ Answered(a) \/ InvocationFails(a)
    \/ \E i \in 1..Len(cache) : Expires(i)
    \/ clearCache

(* The model calls settle.                                                 *)
AnalyzerFairness == \A a \in Analyses : WF_analyzerVars(Answered(a) \/ InvocationFails(a))

AnalyzerSpec == AnalyzerInit /\ [][AnalyzerNext]_analyzerVars /\ AnalyzerFairness

-----------------------------------------------------------------------------
AnalyzerTypeOK ==
    /\ running \in Nat /\ queue \in Seq(Analyses)
    /\ analysis \in [Analyses -> [at : {"idle", "waiting", "invoking"}, key : Hashes \cup {NoHash}]]
    /\ cache \in Seq([hash : Hashes, fresh : BOOLEAN])

Invoking == {a \in Analyses : analysis[a].at = "invoking"}

(* The counter is exact and keeps to the limit.                            *)
SlotsExact == running = Cardinality(Invoking) /\ running <= maxConcurrency

(* Who waits stands in the queue once, and while anybody waits no slot is  *)
(* free, so that a newcomer cannot pass those who wait.                    *)
NobodyIsPassed ==
    /\ \A a \in Analyses : analysis[a].at = "waiting" <=> \E i \in 1..Len(queue) : queue[i] = a
    /\ \A i, j \in 1..Len(queue) : queue[i] = queue[j] => i = j
    /\ queue # <<>> => running = maxConcurrency

(* The cache keeps to its size, whatever overlapping analyses of one       *)
(* content put into it.                                                    *)
CacheBounded ==
    /\ Len(cache) <= maxCacheSize
    /\ \A i, j \in 1..Len(cache) : cache[i].hash = cache[j].hash => i = j

(* Through overlapping, failing and waiting analyses the limit on model    *)
(* calls holds, no slot is lost or idle while somebody waits, and the      *)
(* cache stays bounded: the inductive invariant.                           *)
AnalyzerInv == AnalyzerTypeOK /\ SlotsExact /\ NobodyIsPassed /\ CacheBounded

(* An analysis that waits gets its turn, however many others come.         *)
WaitingAnalysisInvoked ==
    \A a \in Analyses : analysis[a].at = "waiting" ~> analysis[a].at = "invoking"
=============================================================================

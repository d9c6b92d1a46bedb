--------------------------- MODULE SessionProofs ---------------------------
(***************************************************************************)
(* What holds of the sessions of a process for any number of turns, keys,  *)
(* scopes and log calls: the session lock of KeyedMutex, the turns that    *)
(* run under it and the /chat turns that do not (SessionTurns), the        *)
(* outcomes of the turns (AdaptiveExecution) and their text log            *)
(* (SessionLog).                                                           *)
(***************************************************************************)
EXTENDS SessionTurns, AdaptiveExecution, SessionLog, SequenceTheorems,
        NaturalsInduction, WellFoundedInduction, TLAPS

-----------------------------------------------------------------------------
(* The lock: promises chained per key.                                     *)

LEMMA InitMutexInv == Init => MutexInv
BY NoCallAssumption DEF Init, MutexInv, TypeOK, Stages, StampsTellApart, TailIsYoungest,
   PriorIsJustAhead, CallOrder, Ahead, Made, Pending

LEMMA EnqueueMutexInv ==
    ASSUME MutexInv, NEW c \in Calls, Enqueue(c)
    PROVE  MutexInv'
<1> USE NoCallAssumption DEF MutexInv, Stages
<1>1. TypeOK'
  BY DEF TypeOK, Enqueue
<1>2. StampsTellApart'
  BY DEF TypeOK, Enqueue, StampsTellApart, Made
<1>3. TailIsYoungest'
  BY DEF TypeOK, Enqueue, StampsTellApart, TailIsYoungest, Made, Pending
<1>4. PriorIsJustAhead'
  BY DEF TypeOK, Enqueue, StampsTellApart, TailIsYoungest, PriorIsJustAhead, Ahead, Made, Pending
<1>5. CallOrder'
  BY DEF TypeOK, Enqueue, StampsTellApart, CallOrder, Ahead, Made
<1> QED BY <1>1, <1>2, <1>3, <1>4, <1>5

LEMMA StartMutexInv ==
    ASSUME MutexInv, NEW c \in Calls, Start(c)
    PROVE  MutexInv'
<1> USE NoCallAssumption DEF MutexInv, Stages
<1>1. TypeOK'
  BY DEF TypeOK, Start
<1>2. StampsTellApart'
  BY DEF TypeOK, Start, StampsTellApart, Made
<1>3. TailIsYoungest'
  BY DEF TypeOK, Start, TailIsYoungest, Made, Pending
<1>4. PriorIsJustAhead'
  BY DEF TypeOK, Start, PriorIsJustAhead, Ahead, Made
\* Whatever is ahead of c is its prior, which is done, or ahead of that prior, and
\* then done because calls are served in order.
<1>5. \A d \in Calls : Ahead(d, c) => pc[d] = "done"
  <2> SUFFICES ASSUME NEW d \in Calls, Ahead(d, c) PROVE pc[d] = "done"
    OBVIOUS
  <2>1. CASE prior[c] = NoCall
    BY <2>1 DEF PriorIsJustAhead, Ahead
  <2>2. CASE prior[c] # NoCall
    <3>1. prior[c] \in Calls /\ pc[prior[c]] = "done"
      BY <2>2 DEF Start, Settled, TypeOK
    <3>2. d = prior[c] \/ Ahead(d, prior[c])
      BY <2>2, <3>1 DEF PriorIsJustAhead, StampsTellApart, Ahead, Made, TypeOK
    <3> QED BY <3>1, <3>2 DEF CallOrder
  <2> QED BY <2>1, <2>2
<1>6. CallOrder'
  BY <1>5 DEF TypeOK, Start, CallOrder, Ahead, Made
<1> QED BY <1>1, <1>2, <1>3, <1>4, <1>6

LEMMA ReleaseMutexInv ==
    ASSUME MutexInv, NEW c \in Calls, Release(c)
    PROVE  MutexInv'
<1> USE NoCallAssumption DEF MutexInv, Stages
<1>1. TypeOK'
  BY DEF TypeOK, Release
<1>2. StampsTellApart'
  BY DEF TypeOK, Release, StampsTellApart, Made
\* If c is its key's tail, whatever else was made on the key is ahead of c, so done.
<1>3. TailIsYoungest'
  <2> SUFFICES ASSUME NEW k \in Keys PROVE TailIsYoungest!(k)'
    BY DEF TailIsYoungest
  <2>1. CASE k = keyOf[c] /\ tails[k] = c
    <3>1. \A d \in Calls : keyOf[d] = k /\ Made(d) => d = c \/ pc[d] = "done"
      BY <2>1 DEF TailIsYoungest, StampsTellApart, CallOrder, Ahead, Made, Release, TypeOK
    <3> QED BY <2>1, <3>1 DEF Release, TypeOK, Pending, Made
  <2>2. CASE ~(k = keyOf[c] /\ tails[k] = c)
    <3>1. tails'[k] = tails[k] /\ tails[k] # c
      BY <2>2 DEF Release, TypeOK, TailIsYoungest
    <3> QED BY <3>1 DEF Release, TypeOK, TailIsYoungest, Pending, Made
  <2> QED BY <2>1, <2>2
<1>4. PriorIsJustAhead'
  BY DEF TypeOK, Release, PriorIsJustAhead, Ahead, Made
<1>5. CallOrder'
  BY DEF TypeOK, Release, CallOrder, Ahead, Made
<1> QED BY <1>1, <1>2, <1>3, <1>4, <1>5

(* The promise chain keeps its shape: keyed-mutex.ts never loses a waiter, *)
(* points a tail at a finished call or lets a call overtake another.       *)
THEOREM MutexInvariant == Spec => []MutexInv
<1>1. MutexInv /\ [Next]_mutexVars => MutexInv'
  <2> SUFFICES ASSUME MutexInv, [Next]_mutexVars PROVE MutexInv'
    OBVIOUS
  <2>1. CASE Next
    BY <2>1, EnqueueMutexInv, StartMutexInv, ReleaseMutexInv DEF Next
  <2>2. CASE UNCHANGED mutexVars
    BY <2>2 DEF mutexVars, MutexInv, TypeOK, StampsTellApart, TailIsYoungest,
       PriorIsJustAhead, CallOrder, Ahead, Made, Pending
  <2> QED BY <2>1, <2>2
<1> QED BY <1>1, InitMutexInv, PTL DEF Spec

LEMMA OnlyOneRuns == MutexInv => MutualExclusion
BY DEF MutexInv, TypeOK, Stages, StampsTellApart, CallOrder, MutualExclusion, Ahead, Made

(* Two tasks handed to runExclusive with the same key never run together.  *)
THEOREM MutexExcludes == Spec => []MutualExclusion
BY OnlyOneRuns, MutexInvariant, PTL

(* The Map holds an entry for exactly the keys with queued or running work. *)
THEOREM MutexForgetsDrainedKeys == Spec => []EntryIffPending
<1>1. MutexInv => EntryIffPending
  <2> SUFFICES ASSUME MutexInv, NEW k \in Keys
               PROVE  tails[k] # NoCall <=> \E c \in Calls : keyOf[c] = k /\ Pending(c)
    BY DEF EntryIffPending
  <2>1. CASE tails[k] = NoCall
    BY <2>1 DEF MutexInv, TailIsYoungest
  <2>2. CASE tails[k] # NoCall
    BY <2>2 DEF MutexInv, TypeOK, TailIsYoungest
  <2> QED BY <2>1, <2>2
<1> QED BY <1>1, MutexInvariant, PTL

(* Every run of the promise chain is a run of the first-come first-served  *)
(* lock.                                                                   *)
THEOREM MutexImplementsLock == Spec => ImplementsLock
<1> DEFINE queue == [c \in Calls |-> IF pc[c] = "waiting" THEN "queued" ELSE pc[c]]
<1> DEFINE held == {k \in Keys : tails[k] # NoCall}
<1>1. Init => Lock!Init
  BY DEF Init, Lock!Init
<1>2. MutexInv /\ MutexInv' /\ [Next]_mutexVars => [Lock!Next]_Lock!vars
  <2> SUFFICES ASSUME MutexInv, MutexInv', [Next]_mutexVars PROVE [Lock!Next]_Lock!vars
    OBVIOUS
  <2> USE DEF Stages
  <2>1. ASSUME NEW c \in Calls, Enqueue(c) PROVE Lock!Ask(c)
    <3>1. queue[c] = "idle" /\ queue' = [queue EXCEPT ![c] = "queued"]
      BY <2>1 DEF Enqueue, MutexInv, TypeOK
    <3>2. held' = held \cup {keyOf[c]}
      BY <2>1, NoCallAssumption DEF Enqueue, MutexInv, TypeOK
    <3> QED BY <2>1, <3>1, <3>2 DEF Enqueue, Lock!Ask
  <2>2. ASSUME NEW c \in Calls, Start(c) PROVE Lock!Grant(c)
    <3>1. queue[c] = "queued" /\ queue' = [queue EXCEPT ![c] = "running"]
      BY <2>2 DEF Start, MutexInv, TypeOK
    <3>2. \A d \in Calls : Ahead(d, c) => pc[d] = "done"
      BY <2>2 DEF MutexInv, CallOrder, Start, TypeOK, Ahead, Made
    <3>3. ASSUME NEW d \in Calls, queue[d] \in {"queued", "running"}, keyOf[d] = keyOf[c]
          PROVE  stamp[c] <= stamp[d]
      <4>1. Made(d) /\ pc[d] # "done" /\ Made(c)
        BY <2>2, <3>3 DEF MutexInv, TypeOK, Made, Start
      <4> QED BY <3>2, <3>3, <4>1 DEF MutexInv, TypeOK, Ahead
    <3>4. held' = held
      BY <2>2 DEF Start
    <3> QED BY <2>2, <3>1, <3>3, <3>4 DEF Start, Lock!Grant, Lock!Pending
  <2>3. ASSUME NEW c \in Calls, Release(c) PROVE Lock!Leave(c)
    <3>1. queue[c] = "running" /\ queue' = [queue EXCEPT ![c] = "done"]
      BY <2>3 DEF Release, MutexInv, TypeOK
    <3>2. tails[keyOf[c]] # NoCall
      BY <2>3 DEF Release, MutexInv, TypeOK, TailIsYoungest, Pending
    <3>3. \A k \in Keys \ {keyOf[c]} : tails'[k] = tails[k]
      BY <2>3 DEF Release, MutexInv, TypeOK
    <3>4. CASE tails[keyOf[c]] = c
      <4>1. held' = held \ {keyOf[c]}
        BY <2>3, <3>3, <3>4 DEF Release, MutexInv, TypeOK
      <4>2. ~ \E d \in Calls \ {c} : queue[d] \in {"queued", "running"} /\ keyOf[d] = keyOf[c]
        BY <2>3, <3>4, NoCallAssumption
        DEF Release, MutexInv, TypeOK, TailIsYoungest, Pending
      <4> QED BY <2>3, <3>1, <4>1, <4>2 DEF Release, Lock!Leave, Lock!Pending
    <3>5. CASE tails[keyOf[c]] # c
      <4> DEFINE t == tails[keyOf[c]]
      <4>1. held' = held
        BY <2>3, <3>5 DEF Release
      <4>2. t \in Calls \ {c} /\ queue[t] \in {"queued", "running"} /\ keyOf[t] = keyOf[c]
        BY <2>3, <3>2, <3>5 DEF Release, MutexInv, TypeOK, TailIsYoungest, Pending
      <4> QED BY <2>3, <3>1, <4>1, <4>2 DEF Release, Lock!Leave, Lock!Pending
    <3> QED BY <3>4, <3>5
  <2>4. CASE Next
    BY <2>1, <2>2, <2>3, <2>4 DEF Next, Lock!Next
  <2>5. CASE UNCHANGED mutexVars
    BY <2>5 DEF mutexVars, Lock!vars
  <2> QED BY <2>4, <2>5
<1> QED BY <1>1, <1>2, MutexInvariant, PTL DEF Spec, ImplementsLock, Lock!Spec

-----------------------------------------------------------------------------
(* The history of a session that only agent turns use: u(c) and v(c) are a *)
(* turn's message and reply, B the turns that have begun, R those that     *)
(* were answered, and A the order they were called in.                     *)

Asked(c) == Message("user", c)
Replied(c) == Message("assistant", c)
In(m, h) == \E i \in 1..Len(h) : h[i] = m

Threads(h, B, R, A) ==
    /\ h \in Seq(Messages) /\ Len(h) >= 1 /\ h[1].role = "system"
    /\ \A i \in 2..Len(h) : \E c \in B : h[i] = Asked(c) \/ h[i] = Replied(c)
    /\ \A i, j \in 2..Len(h) : i < j =>
         \/ <<h[i].turn, h[j].turn>> \in A
         \/ h[i].turn = h[j].turn /\ h[i].role = "user" /\ h[j].role = "assistant"
    /\ \A i \in 3..Len(h) : h[i].role = "assistant" => h[i - 1] = Asked(h[i].turn)
    /\ \A c, d \in B : <<c, d>> \in A /\ In(Asked(c), h) => In(Asked(d), h)
    /\ \A c \in R : In(Asked(c), h) => In(Replied(c), h)

LEMMA Voices ==
    /\ \A c : Asked(c).role = "user" /\ Asked(c).turn = c
    /\ \A c : Replied(c).role = "assistant" /\ Replied(c).turn = c
    /\ \A c \in Turns : Asked(c) \in Messages /\ Replied(c) \in Messages
<1>1. 0 \in 0..MaxToolCalls
    BY TurnsAssumption
<1> QED BY <1>1 DEF Asked, Replied, Message, Messages

LEMMA SystemAlone ==
    ASSUME NEW t \in Turns, NEW A
    PROVE  /\ <<Message("system", t)>> \in Seq(Messages) /\ Len(<<Message("system", t)>>) = 1
           /\ Threads(<<Message("system", t)>>, {}, {}, A)
<1> DEFINE m == Message("system", t)
<1>1. m \in Messages /\ m.role = "system"
    <2>1. 0 \in 0..MaxToolCalls
        BY TurnsAssumption
    <2> QED BY <2>1 DEF Message, Messages
<1> HIDE DEF m
<1>2. <<m>> \in Seq(Messages) /\ Len(<<m>>) = 1 /\ <<m>>[1] = m
    BY <1>1
<1>3. 2..1 = {} /\ 3..1 = {} /\ 1 >= 1
    OBVIOUS
<1> QED BY <1>1, <1>2, <1>3 DEF Threads, m

(* Trimming keeps the first message and the newest KeepTail.               *)
LEMMA TrimmedIs ==
    ASSUME NEW h \in Seq(Messages), Len(h) > HardCap
    PROVE  LET o == Len(h) - KeepTail - 1 IN
           /\ o \in Nat /\ o >= 1
           /\ Trimmed(h) \in Seq(Messages) /\ Len(Trimmed(h)) = KeepTail + 1
           /\ Trimmed(h)[1] = h[1]
           /\ \A i \in 2..(KeepTail + 1) : Trimmed(h)[i] = h[o + i]
<1>0. /\ h \in Seq(Messages) /\ Len(h) \in Nat /\ Len(h) >= 1
      /\ KeepTail \in Nat /\ KeepTail >= 1 /\ HardCap \in Nat /\ KeepTail <= HardCap - 1
    BY TurnsAssumption, LenProperties
<1> DEFINE o == Len(h) - KeepTail - 1
           tail == SubSeq(h, Len(h) - KeepTail + 1, Len(h))
           t == <<Head(h)>> \o tail
<1>1. o \in Nat /\ o >= 1 /\ Len(h) = o + KeepTail + 1
    BY <1>0
<1>2. /\ tail \in Seq(Messages) /\ Len(tail) = KeepTail
      /\ \A i \in 1..KeepTail : tail[i] = h[o + 1 + i]
    <2>1. \A i \in (Len(h) - KeepTail + 1)..Len(h) : h[i] \in Messages
        <3> TAKE i \in (Len(h) - KeepTail + 1)..Len(h)
        <3>1. i \in 1..Len(h)
            BY <1>0, <1>1
        <3> QED BY <1>0, <3>1, ElementOfSeq
    <2>2. /\ Len(h) - KeepTail + 1 \in Int /\ Len(h) \in Int
          /\ Len(h) - KeepTail + 1 <= Len(h)
          /\ Len(h) - (Len(h) - KeepTail + 1) + 1 = KeepTail
          /\ \A i \in 1..KeepTail : (Len(h) - KeepTail + 1) + i - 1 = o + 1 + i
        BY <1>0, <1>1
    <2> DEFINE a == Len(h) - KeepTail + 1
               b == Len(h)
    <2>3. a \in Int /\ b \in Int /\ a <= b /\ b - a + 1 = KeepTail
          /\ \A i \in 1..KeepTail : a + i - 1 = o + 1 + i
        BY <2>2
    <2>4. \A i \in a..b : h[i] \in Messages
        BY <2>1
    <2> HIDE DEF a, b, o
    <2>5. /\ SubSeq(h, a, b) \in Seq(Messages)
          /\ Len(SubSeq(h, a, b)) = IF a <= b THEN b - a + 1 ELSE 0
          /\ \A i \in 1..(b - a + 1) : SubSeq(h, a, b)[i] = h[a + i - 1]
        BY <2>3, <2>4, SubSeqProperties
    <2>6. /\ SubSeq(h, a, b) \in Seq(Messages) /\ Len(SubSeq(h, a, b)) = KeepTail
          /\ \A i \in 1..KeepTail : SubSeq(h, a, b)[i] = h[o + 1 + i]
        BY <2>3, <2>5
    <2> QED BY <2>6 DEF a, b
<1> HIDE DEF tail, o
<1>3. /\ t \in Seq(Messages) /\ Len(t) = KeepTail + 1
      /\ t[1] = h[1]
      /\ \A i \in 2..(KeepTail + 1) : t[i] = h[o + i]
    <2> DEFINE one == <<Head(h)>>
    <2>1. one \in Seq(Messages) /\ Len(one) = 1 /\ one[1] = h[1]
        <3>1. Head(h) = h[1] /\ h[1] \in Messages
            BY <1>0, ElementOfSeq
        <3> QED BY <3>1
    <2> HIDE DEF one
    <2>2. /\ one \o tail \in Seq(Messages) /\ Len(one \o tail) = Len(one) + Len(tail)
          /\ \A i \in 1..(Len(one) + Len(tail)) :
               (one \o tail)[i] = IF i <= Len(one) THEN one[i] ELSE tail[i - Len(one)]
        BY <1>2, <2>1, ConcatProperties
    <2>3. Len(one \o tail) = KeepTail + 1 /\ (one \o tail)[1] = h[1]
        BY <1>0, <1>2, <2>1, <2>2
    <2>4. \A i \in 2..(KeepTail + 1) : (one \o tail)[i] = h[o + i]
        <3> TAKE i \in 2..(KeepTail + 1)
        <3>1. i - 1 \in 1..KeepTail /\ i \in 1..(1 + KeepTail) /\ ~ (i <= 1)
            BY <1>0
        <3>2. (one \o tail)[i] = tail[i - 1]
            BY <1>2, <2>1, <2>2, <3>1
        <3>3. tail[i - 1] = h[o + 1 + (i - 1)] /\ o + 1 + (i - 1) = o + i
            BY <1>1, <1>2, <3>1
        <3> QED BY <3>2, <3>3
    <2> QED BY <2>2, <2>3, <2>4 DEF one
<1>4. Trimmed(h) = t
    BY DEF Trimmed, tail
<1> QED BY <1>1, <1>3, <1>4 DEF o

(* Trimming cuts the oldest turns off, and never in the order's middle.    *)
LEMMA TrimmedThreads ==
    ASSUME NEW h, NEW B, NEW R, NEW A, Threads(h, B, R, A), R \subseteq B,
           \A c, d : <<c, d>> \in A => <<d, c>> \notin A
    PROVE  /\ Threads(Trimmed(h), B, R, A)
           /\ Len(Trimmed(h)) <= HardCap
<1>0. /\ h \in Seq(Messages) /\ Len(h) \in Nat /\ Len(h) >= 1 /\ h[1].role = "system"
      /\ KeepTail \in Nat /\ KeepTail >= 1 /\ HardCap \in Nat /\ KeepTail <= HardCap - 1
    BY TurnsAssumption, LenProperties DEF Threads
<1>1. CASE ~ (Len(h) > HardCap)
    BY <1>0, <1>1 DEF Trimmed
<1>2. CASE Len(h) > HardCap
    <2> DEFINE o == Len(h) - KeepTail - 1
               t == Trimmed(h)
    <2>1. o \in Nat /\ o >= 1 /\ Len(h) = o + KeepTail + 1
        BY <1>0, <1>2
    <2>3. /\ t \in Seq(Messages) /\ Len(t) = KeepTail + 1
          /\ t[1] = h[1]
          /\ \A i \in 2..(KeepTail + 1) : t[i] = h[o + i]
        BY <1>0, <1>2, TrimmedIs
    <2> HIDE DEF o
    <2> HIDE DEF t
    <2> DEFINE K == KeepTail + 1
    <2>5. /\ K \in Nat /\ K >= 2 /\ Len(t) = K /\ Len(h) = o + K /\ K <= HardCap
        BY <1>0, <2>1, <2>3
    <2>6. \A i \in 2..K : o + i \in 2..Len(h) /\ t[i] = h[o + i]
        BY <2>1, <2>3, <2>5
    <2>7. \A p \in 2..Len(h) : p > o + 1 => p - o \in 2..K /\ t[p - o] = h[p]
        <3> TAKE p \in 2..Len(h)
        <3> HAVE p > o + 1
        <3>1. p - o \in 2..K /\ o + (p - o) = p
            BY <2>1, <2>5
        <3> QED BY <2>6, <3>1
    <2> HIDE DEF K
    <2>8. \A i \in 2..K : \E c \in B : t[i] = Asked(c) \/ t[i] = Replied(c)
        BY <2>6 DEF Threads
    <2>9. ASSUME NEW i \in 2..K, NEW j \in 2..K, i < j
          PROVE  \/ <<t[i].turn, t[j].turn>> \in A
                 \/ t[i].turn = t[j].turn /\ t[i].role = "user" /\ t[j].role = "assistant"
        <3>1. o + i < o + j
            BY <2>1, <2>5, <2>9
        <3> QED BY <2>6, <3>1 DEF Threads
    <2>10. ASSUME NEW i \in 3..K, t[i].role = "assistant"
           PROVE  t[i - 1] = Asked(t[i].turn)
        <3>1. i \in 2..K /\ i - 1 \in 2..K /\ o + i \in 3..Len(h) /\ (o + i) - 1 = o + (i - 1)
            BY <2>1, <2>5
        <3> QED BY <2>6, <2>10, <3>1 DEF Threads
    <2>11. \A m : m.role # "system" =>
             (In(m, t) => \E p \in 2..Len(h) : p > o + 1 /\ h[p] = m)
        <3> TAKE m
        <3> HAVE m.role # "system"
        <3> HAVE In(m, t)
        <3>1. PICK i \in 1..K : t[i] = m
            BY <2>5 DEF In
        <3>2. i # 1
            BY <1>0, <2>3, <3>1
        <3>3. i \in 2..K /\ o + i > o + 1
            BY <2>1, <2>5, <3>2
        <3> QED BY <2>6, <3>1, <3>3
    <2>12. \A p \in 2..Len(h) : p > o + 1 => In(h[p], t)
        <3> TAKE p \in 2..Len(h)
        <3> HAVE p > o + 1
        <3>1. p - o \in 1..Len(t) /\ t[p - o] = h[p]
            BY <2>5, <2>7
        <3> QED BY <3>1 DEF In
    <2>13. ASSUME NEW c \in B, NEW d \in B, <<c, d>> \in A, In(Asked(c), t)
           PROVE  In(Asked(d), t)
        <3>1. PICK p \in 2..Len(h) : p > o + 1 /\ h[p] = Asked(c)
            BY <2>11, <2>13, Voices
        <3>2. In(Asked(c), h)
            <4>1. p \in 1..Len(h)
                BY <1>0
            <4> QED BY <3>1, <4>1 DEF In
        <3>3. PICK q \in 1..Len(h) : h[q] = Asked(d)
            BY <2>13, <3>2 DEF Threads, In
        <3>4. q # 1
            BY <1>0, <3>3, Voices
        <3>5. q \in 2..Len(h)
            BY <1>0, <3>4
        <3>6. q # p
            BY <2>13, <3>1, <3>3, Voices
        <3>7. ~ (q < p)
            <4> SUFFICES ASSUME q < p  PROVE FALSE
                OBVIOUS
            <4>1. <<h[q].turn, h[p].turn>> \in A \/ h[q].turn = h[p].turn
                BY <3>5 DEF Threads
            <4>2. h[q].turn = d /\ h[p].turn = c
                BY <3>1, <3>3, Voices
            <4> QED BY <2>13, <4>1, <4>2
        <3>8. q > o + 1
            BY <1>0, <2>1, <3>1, <3>6, <3>7
        <3> QED BY <2>12, <3>3, <3>5, <3>8
    <2>14. ASSUME NEW c \in R, In(Asked(c), t)
           PROVE  In(Replied(c), t)
        <3>1. PICK p \in 2..Len(h) : p > o + 1 /\ h[p] = Asked(c)
            BY <2>11, <2>14, Voices
        <3>2. In(Asked(c), h)
            <4>1. p \in 1..Len(h)
                BY <1>0
            <4> QED BY <3>1, <4>1 DEF In
        <3>3. PICK q \in 1..Len(h) : h[q] = Replied(c)
            BY <2>14, <3>2 DEF Threads, In
        <3>4. q # 1 /\ q # p
            BY <1>0, <3>1, <3>3, Voices
        <3>5. q \in 2..Len(h)
            BY <1>0, <3>4
        <3>6. ~ (q < p)
            <4> SUFFICES ASSUME q < p  PROVE FALSE
                OBVIOUS
            <4>1. <<h[q].turn, h[p].turn>> \in A \/ h[q].role = "user"
                BY <3>5 DEF Threads
            <4>2. h[q].turn = c /\ h[p].turn = c /\ h[q].role = "assistant"
                BY <3>1, <3>3, Voices
            <4>3. <<c, c>> \notin A
                OBVIOUS
            <4> QED BY <4>1, <4>2, <4>3
        <3>7. q > o + 1
            BY <1>0, <2>1, <3>1, <3>4, <3>6
        <3> QED BY <2>12, <3>3, <3>5, <3>7
    <2>15. t \in Seq(Messages) /\ Len(t) >= 1 /\ t[1].role = "system"
        BY <1>0, <2>3, <2>5
    <2>16. Threads(t, B, R, A)
        BY <2>5, <2>8, <2>9, <2>10, <2>13, <2>14, <2>15 DEF Threads
    <2> QED BY <2>5, <2>16 DEF t
<1> QED BY <1>1, <1>2

-----------------------------------------------------------------------------
LEMMA ThreadsSame ==
    ASSUME NEW h, NEW B, NEW R, NEW A, NEW A2, Threads(h, B, R, A),
           \A c, d \in B : <<c, d>> \in A <=> <<c, d>> \in A2
    PROVE  Threads(h, B, R, A2)
<1>1. \A i \in 2..Len(h) : h[i].turn \in B
    BY Voices DEF Threads
<1>2. ASSUME NEW i \in 2..Len(h), NEW j \in 2..Len(h), i < j
      PROVE  \/ <<h[i].turn, h[j].turn>> \in A2
             \/ h[i].turn = h[j].turn /\ h[i].role = "user" /\ h[j].role = "assistant"
    BY <1>1, <1>2 DEF Threads
<1> QED BY <1>2 DEF Threads

(* A turn that is let in is the youngest, so its message goes last.        *)
LEMMA PushUser ==
    ASSUME NEW h, NEW B \in SUBSET Turns, NEW R, NEW A, NEW c \in Turns,
           Threads(h, B, R, A), R \subseteq B, c \notin B,
           \A d \in B : <<d, c>> \in A,
           \A d, e : <<d, e>> \in A => <<e, d>> \notin A
    PROVE  LET g == Append(h, Asked(c)) IN
           /\ Threads(g, B \cup {c}, R, A)
           /\ g[Len(g)] = Asked(c) /\ In(Asked(c), g)
<1> DEFINE g == Append(h, Asked(c))
           n == Len(h)
<1>1. h \in Seq(Messages) /\ n \in Nat /\ n >= 1 /\ h[1].role = "system"
    BY LenProperties DEF Threads
<1>2. /\ g \in Seq(Messages) /\ Len(g) = n + 1
      /\ \A i \in 1..n : g[i] = h[i]
      /\ g[n + 1] = Asked(c)
    BY <1>1, Voices, AppendProperties
<1> HIDE DEF g
<1>3. \A i \in 2..n : h[i].turn \in B
    BY Voices DEF Threads
<1> HIDE DEF n
<1>4. \A i \in 2..(n + 1) : i \in 2..n \/ i = n + 1
    BY <1>1
<1>5. \A i \in 2..n : i \in 1..n
    BY <1>1
<1>6. g[1] = h[1] /\ Len(g) >= 1
    BY <1>1, <1>2
<1>7. \A i \in 2..(n + 1) : \E d \in B \cup {c} : g[i] = Asked(d) \/ g[i] = Replied(d)
    BY <1>2, <1>4, <1>5 DEF Threads, n
<1>8. ASSUME NEW i \in 2..(n + 1), NEW j \in 2..(n + 1), i < j
      PROVE  \/ <<g[i].turn, g[j].turn>> \in A
             \/ g[i].turn = g[j].turn /\ g[i].role = "user" /\ g[j].role = "assistant"
    <2>1. i \in 2..n
        BY <1>1, <1>8
    <2>2. CASE j = n + 1
        BY <1>2, <1>3, <1>5, <2>1, <2>2, Voices
    <2>3. CASE j \in 2..n
        <3>1. g[i] = h[i] /\ g[j] = h[j]
            BY <1>2, <1>5, <2>1, <2>3
        <3>2. \/ <<h[i].turn, h[j].turn>> \in A
              \/ h[i].turn = h[j].turn /\ h[i].role = "user" /\ h[j].role = "assistant"
            BY <1>8, <2>1, <2>3 DEF Threads, n
        <3> QED BY <3>1, <3>2
    <2> QED BY <1>4, <2>2, <2>3
<1>9. ASSUME NEW i \in 3..(n + 1), g[i].role = "assistant"
      PROVE  g[i - 1] = Asked(g[i].turn)
    <2>1. i # n + 1
        BY <1>2, <1>9, Voices
    <2>2. i \in 3..n /\ i \in 1..n /\ i - 1 \in 1..n
        BY <1>1, <2>1
    <2> QED BY <1>2, <1>9, <2>2 DEF Threads, n
<1>10. \A m : In(m, h) => In(m, g)
    <2>1. \A i \in 1..n : i \in 1..(n + 1)
        BY <1>1
    <2> QED BY <1>2, <2>1 DEF In, n
<1>11. In(Asked(c), g) /\ g[Len(g)] = Asked(c)
    <2>1. n + 1 \in 1..(n + 1)
        BY <1>1
    <2> QED BY <1>2, <2>1 DEF In
<1>12. \A m : In(m, g) => In(m, h) \/ m = Asked(c)
    <2>1. \A i \in 1..(n + 1) : i \in 1..n \/ i = n + 1
        BY <1>1
    <2> QED BY <1>2, <2>1 DEF In, n
<1>13. ASSUME NEW d \in B \cup {c}, NEW e \in B \cup {c}, <<d, e>> \in A, In(Asked(d), g)
       PROVE  In(Asked(e), g)
    <2>1. CASE e = c
        BY <1>11, <2>1
    <2>2. CASE e # c
        <3>1. d # c
            BY <1>13, <2>2
        <3>2. Asked(d) # Asked(c)
            BY <3>1, Voices
        <3>3. In(Asked(d), h)
            BY <1>12, <1>13, <3>2
        <3>4. d \in B /\ e \in B
            BY <2>2, <3>1
        <3>5. In(Asked(e), h)
            BY <1>13, <3>3, <3>4 DEF Threads
        <3> QED BY <1>10, <3>5
    <2> QED BY <2>1, <2>2
<1>14. ASSUME NEW d \in R, In(Asked(d), g)
       PROVE  In(Replied(d), g)
    <2>1. Asked(d) # Asked(c)
        BY Voices
    <2>2. In(Asked(d), h)
        BY <1>12, <1>14, <2>1
    <2> QED BY <1>10, <2>2 DEF Threads
<1>15. Threads(g, B \cup {c}, R, A)
    BY <1>1, <1>2, <1>6, <1>7, <1>8, <1>9, <1>13, <1>14 DEF Threads
<1> QED BY <1>11, <1>15 DEF g

(* Its reply goes directly behind it.                                      *)
LEMMA PushReply ==
    ASSUME NEW h, NEW B \in SUBSET Turns, NEW R, NEW A, NEW c \in B,
           Threads(h, B, R, A), h[Len(h)] = Asked(c),
           \A d, e : <<d, e>> \in A => <<e, d>> \notin A
    PROVE  Threads(Append(h, Replied(c)), B, R \cup {c}, A)
<1> DEFINE g == Append(h, Replied(c))
           n == Len(h)
<1>1. h \in Seq(Messages) /\ n \in Nat /\ n >= 1 /\ h[1].role = "system"
    BY LenProperties DEF Threads
<1>2. /\ g \in Seq(Messages) /\ Len(g) = n + 1
      /\ \A i \in 1..n : g[i] = h[i]
      /\ g[n + 1] = Replied(c)
    BY <1>1, Voices, AppendProperties
<1> HIDE DEF g
<1>3. \A i \in 2..n : h[i].turn \in B
    BY Voices DEF Threads
<1>3a. h[n] = Asked(c)
    OBVIOUS
<1> HIDE DEF n
<1>4. \A i \in 2..(n + 1) : i \in 2..n \/ i = n + 1
    BY <1>1
<1>5. \A i \in 2..n : i \in 1..n
    BY <1>1
<1>6. g[1] = h[1] /\ Len(g) >= 1
    BY <1>1, <1>2
<1>6a. n # 1
    BY <1>1, <1>3a, Voices
<1>6b. n \in 2..n
    BY <1>1, <1>6a
<1>7. \A i \in 2..(n + 1) : \E d \in B : g[i] = Asked(d) \/ g[i] = Replied(d)
    BY <1>2, <1>4, <1>5 DEF Threads, n
<1>8. ASSUME NEW i \in 2..(n + 1), NEW j \in 2..(n + 1), i < j
      PROVE  \/ <<g[i].turn, g[j].turn>> \in A
             \/ g[i].turn = g[j].turn /\ g[i].role = "user" /\ g[j].role = "assistant"
    <2>1. i \in 2..n
        BY <1>1, <1>8
    <2>2. CASE j = n + 1
        <3>1. CASE i = n
            BY <1>2, <1>3a, <1>5, <2>1, <2>2, <3>1, Voices
        <3>2. CASE i # n
            <4>1. i < n
                BY <1>1, <2>1, <3>2
            <4>2. <<h[i].turn, h[n].turn>> \in A
                <5>1. \/ <<h[i].turn, h[n].turn>> \in A
                      \/ h[n].role = "assistant"
                    BY <1>6b, <2>1, <4>1 DEF Threads, n
                <5> QED BY <1>3a, <5>1, Voices
            <4>3. h[n].turn = c /\ g[j].turn = c /\ g[i] = h[i]
                BY <1>2, <1>3a, <1>5, <2>1, <2>2, Voices
            <4> QED BY <4>2, <4>3
        <3> QED BY <3>1, <3>2
    <2>3. CASE j \in 2..n
        <3>1. g[i] = h[i] /\ g[j] = h[j]
            BY <1>2, <1>5, <2>1, <2>3
        <3>2. \/ <<h[i].turn, h[j].turn>> \in A
              \/ h[i].turn = h[j].turn /\ h[i].role = "user" /\ h[j].role = "assistant"
            BY <1>8, <2>1, <2>3 DEF Threads, n
        <3> QED BY <3>1, <3>2
    <2> QED BY <1>4, <2>2, <2>3
<1>9. ASSUME NEW i \in 3..(n + 1), g[i].role = "assistant"
      PROVE  g[i - 1] = Asked(g[i].turn)
    <2>1. CASE i = n + 1
        <3>1. i - 1 = n /\ n \in 1..n
            BY <1>1, <2>1
        <3> QED BY <1>2, <1>3a, <2>1, <3>1, Voices
    <2>2. CASE i # n + 1
        <3>1. i \in 3..n /\ i \in 1..n /\ i - 1 \in 1..n
            BY <1>1, <2>2
        <3> QED BY <1>2, <1>9, <3>1 DEF Threads, n
    <2> QED BY <2>1, <2>2
<1>10. \A m : In(m, h) => In(m, g)
    <2>1. \A i \in 1..n : i \in 1..(n + 1)
        BY <1>1
    <2> QED BY <1>2, <2>1 DEF In, n
<1>11. In(Replied(c), g)
    <2>1. n + 1 \in 1..(n + 1)
        BY <1>1
    <2> QED BY <1>2, <2>1 DEF In
<1>12. \A d : In(Asked(d), g) => In(Asked(d), h)
    <2>1. \A i \in 1..(n + 1) : i \in 1..n \/ i = n + 1
        BY <1>1
    <2>2. \A d : Asked(d) # Replied(c)
        BY Voices
    <2> QED BY <1>2, <2>1, <2>2 DEF In, n
<1>13. ASSUME NEW d \in B, NEW e \in B, <<d, e>> \in A, In(Asked(d), g)
       PROVE  In(Asked(e), g)
    BY <1>10, <1>12, <1>13 DEF Threads
<1>14. ASSUME NEW d \in R \cup {c}, In(Asked(d), g)
       PROVE  In(Replied(d), g)
    BY <1>10, <1>11, <1>12, <1>14 DEF Threads
<1>15. Threads(g, B, R \cup {c}, A)
    BY <1>1, <1>2, <1>6, <1>7, <1>8, <1>9, <1>13, <1>14 DEF Threads
<1> QED BY <1>15 DEF g

-----------------------------------------------------------------------------
(* The inductive invariant of the turns.                                   *)

Order == {p \in Calls \X Calls : Ahead(p[1], p[2])}
Answered(k) == {c \in Begun(k) : stage[c] = "replied"}

(* A turn has begun once its call has been let in, and is over before the  *)
(* call leaves.                                                            *)
StagesOK ==
    \A c \in Calls : /\ stage[c] = "new" <=> pc[c] \in {"idle", "waiting"}
                     /\ stage[c] = "calling" => pc[c] = "running"

(* An array belongs to the session of the turn that allocated it, and the  *)
(* one a chat turn commits is nobody's before.                             *)
OwnersOK ==
    /\ \A k \in Keys : sessions[k] # NoArray => Key(sessions[k][1]) = k
    /\ \A t \in Turns : messages[t] # NoArray => Key(messages[t][1]) = Key(t)
    /\ \A t \in Turns : stage[t] = "calling" => messages[t] # NoArray
    /\ \A r \in Turns, k \in Keys : sessions[k] = <<r, "commit">> => stage[r] = "replied"
    /\ \A r, t \in Turns : messages[t] = <<r, "commit">> => stage[r] = "replied"

(* While an agent turn is calling the model its array is short enough to   *)
(* take the reply; the copy of a /chat turn has grown by its context, once,*)
(* and by its full rounds.  A context stands second wherever there is one. *)
RoundSize == MaxToolCalls + 1
WorkingOK(r) ==
    /\ Len(working[r]) >= 1 /\ ContextsSecond(working[r])
    /\ Len(working[r]) <= HardCap + 2 + rounds[r] * RoundSize
    /\ rounds[r] = 0 /\ working[r][2] # Message("context", r) => Len(working[r]) <= HardCap + 1

LengthsOK ==
    /\ \A a \in Arrays : Len(heap[a]) <= Longest /\ ContextsSecond(heap[a])
    /\ \A c \in Calls : stage[c] = "calling" => Len(heap[messages[c]]) <= HardCap + 1
    /\ \A r \in Chats : stage[r] = "calling" => WorkingOK(r)

LockedOK(k) ==
    AgentsOnly(k) =>
        IF sessions[k] = NoArray
        THEN Begun(k) = {}
        ELSE /\ Threads(heap[sessions[k]], Begun(k), Answered(k), Order)
             /\ \E c \in Begun(k) : In(Asked(c), heap[sessions[k]])
             /\ \A c \in Begun(k) : stage[c] = "calling" =>
                  /\ messages[c] = sessions[k]
                  /\ heap[sessions[k]][Len(heap[sessions[k]])] = Asked(c)

TurnsInd ==
    /\ MutexInv /\ TurnsTypeOK /\ StagesOK /\ OwnersOK /\ LengthsOK
    /\ \A k \in Keys : LockedOK(k)

-----------------------------------------------------------------------------
LEMMA MutexStep ==
    ASSUME MutexInv, [TurnsNext]_vars
    PROVE  MutexInv'
<1>1. (\E c \in Calls : Enqueue(c) \/ Start(c) \/ Release(c)) \/ UNCHANGED mutexVars
    BY DEF TurnsNext, vars, mutexVars, RunAgentTurn, AgentBegin, AgentRefuse, AgentReply, AgentFail,
           AgentLeave, ChatBegin, ChatDiscover, ChatRound, ChatCommit, ChatFail
<1>2. CASE UNCHANGED mutexVars
    BY <1>2 DEF mutexVars, MutexInv, TypeOK, StampsTellApart, TailIsYoungest, PriorIsJustAhead,
       CallOrder, Ahead, Made, Pending
<1> QED BY <1>1, <1>2, EnqueueMutexInv, StartMutexInv, ReleaseMutexInv

LEMMA OrderAsymmetric ==
    ASSUME MutexInv
    PROVE  \A d, e : <<d, e>> \in Order => <<e, d>> \notin Order
<1> SUFFICES ASSUME NEW d, NEW e, <<d, e>> \in Order, <<e, d>> \in Order
             PROVE  FALSE
    OBVIOUS
<1>1. d \in Calls /\ e \in Calls /\ Ahead(d, e) /\ Ahead(e, d)
    BY DEF Order
<1>2. stamp[d] \in Nat /\ stamp[e] \in Nat
    BY <1>1 DEF MutexInv, TypeOK
<1> QED BY <1>1, <1>2 DEF Ahead

LEMMA TurnFacts ==
    ASSUME TurnsTypeOK
    PROVE  /\ \A c \in Calls : c \in Turns /\ c \notin Chats /\ Key(c) = keyOf[c] /\ Key(c) \in Keys
           /\ \A r \in Chats : r \in Turns /\ r \notin Calls /\ Key(r) = chatKey[r] /\ Key(r) \in Keys
           /\ \A t \in Turns : /\ <<t, "base">> \in Arrays /\ <<t, "commit">> \in Arrays
                               /\ <<t, "base">>[1] = t /\ <<t, "commit">>[1] = t
                               /\ Key(t) \in Keys
           /\ NoArray \notin Arrays
           /\ \A a \in Arrays : a[1] \in Turns
<1>1. Chats \cap Calls = {} /\ NoArray \notin (Calls \cup Chats) \X {"base", "commit"}
    BY TurnsAssumption
<1>2. keyOf \in [Calls -> Keys] /\ chatKey \in [Chats -> Keys]
    BY DEF TurnsTypeOK, TypeOK
<1>3. NoArray \notin Arrays
    BY <1>1 DEF Arrays, Turns
<1>4. \A t \in Turns : t \in Calls \/ t \in Chats
    BY DEF Turns
<1>5. \A t \in Turns : Key(t) \in Keys
    BY <1>2, <1>4 DEF Key
<1>6. \A t \in Turns : /\ <<t, "base">> \in Arrays /\ <<t, "commit">> \in Arrays
                       /\ <<t, "base">>[1] = t /\ <<t, "commit">>[1] = t
    BY DEF Arrays
<1>7. \A a \in Arrays : a[1] \in Turns
    BY DEF Arrays
<1>8. \A c \in Calls : c \in Turns /\ c \notin Chats
    BY <1>1 DEF Turns
<1>9. \A r \in Chats : r \in Turns /\ r \notin Calls
    BY <1>1 DEF Turns
<1>10. /\ \A c \in Calls : Key(c) = keyOf[c]
       /\ \A r \in Chats : Key(r) = chatKey[r]
    BY <1>8 DEF Key
<1> QED BY <1>3, <1>5, <1>6, <1>7, <1>8, <1>9, <1>10

(* Contexts: trimming drops the one there may be, and what is appended is  *)
(* none.                                                                   *)
LEMMA TrimmedContexts ==
    ASSUME NEW h \in Seq(Messages), Len(h) > HardCap, ContextsSecond(h)
    PROVE  ContextsSecond(Trimmed(h))
<1>0. Len(h) \in Nat /\ Len(h) >= 1 /\ KeepTail \in Nat /\ HardCap \in Nat /\ KeepTail <= HardCap - 1
    BY TurnsAssumption, LenProperties
<1>1. PICK o \in Nat :
        /\ o = Len(h) - KeepTail - 1 /\ o >= 1
        /\ Len(Trimmed(h)) = KeepTail + 1 /\ Trimmed(h)[1] = h[1]
        /\ \A i \in 2..(KeepTail + 1) : Trimmed(h)[i] = h[o + i]
    BY TrimmedIs
<1>2. \A i \in 2..(KeepTail + 1) : o + i \in 1..Len(h) /\ o + i # 2
    BY <1>0, <1>1
<1>3. \A i \in 1..(KeepTail + 1) : i = 1 \/ i \in 2..(KeepTail + 1)
    BY <1>0
<1>4. h[1].role # "context"
    BY <1>0 DEF ContextsSecond
<1>5. \A i \in 2..(KeepTail + 1) : Trimmed(h)[i].role # "context"
    BY <1>1, <1>2 DEF ContextsSecond
<1> QED BY <1>1, <1>3, <1>4, <1>5 DEF ContextsSecond

LEMMA AppendContexts ==
    ASSUME NEW h \in Seq(Messages), NEW m \in Messages, ContextsSecond(h), m.role # "context"
    PROVE  ContextsSecond(Append(h, m))
<1>1. /\ Len(Append(h, m)) = Len(h) + 1 /\ Len(h) \in Nat
      /\ \A i \in 1..Len(h) : Append(h, m)[i] = h[i]
      /\ Append(h, m)[Len(h) + 1] = m
    BY AppendProperties, LenProperties
<1>2. \A i \in 1..(Len(h) + 1) : i \in 1..Len(h) \/ i = Len(h) + 1
    BY <1>1
<1> QED BY <1>1, <1>2 DEF ContextsSecond

LEMMA ConcatContexts ==
    ASSUME NEW h \in Seq(Messages), NEW g \in Seq(Messages), ContextsSecond(h),
           \A i \in 1..Len(g) : g[i].role # "context"
    PROVE  ContextsSecond(h \o g)
<1>1. /\ Len(h \o g) = Len(h) + Len(g) /\ Len(h) \in Nat /\ Len(g) \in Nat
      /\ \A i \in 1..(Len(h) + Len(g)) : (h \o g)[i] = IF i <= Len(h) THEN h[i] ELSE g[i - Len(h)]
    BY ConcatProperties, LenProperties
<1>2. \A i \in 1..(Len(h) + Len(g)) : i <= Len(h) => i \in 1..Len(h)
    BY <1>1
<1>3. \A i \in 1..(Len(h) + Len(g)) : ~ (i <= Len(h)) => i - Len(h) \in 1..Len(g)
    BY <1>1
<1> QED BY <1>1, <1>2, <1>3 DEF ContextsSecond

(* What the synchronous stretch leaves behind.                             *)
LEMMA Loaded ==
    ASSUME TurnsTypeOK, NEW t \in Turns, NEW found \in Arrays \cup {NoArray},
           LoadAndPush(t, found), found # NoArray => ContextsSecond(heap[found])
    PROVE  \E arr \in Arrays : \E pushed \in Seq(Messages) :
             /\ heap' = [heap EXCEPT ![arr] = pushed]
             /\ sessions' = [sessions EXCEPT ![Key(t)] = arr]
             /\ messages' = [messages EXCEPT ![t] = arr]
             /\ working' = [working EXCEPT ![t] = pushed]
             /\ Len(pushed) <= HardCap + 1 /\ Len(pushed) >= 1 /\ ContextsSecond(pushed)
             /\ arr = <<t, "base">> \/ (arr = found /\ found # NoArray)
             /\ found = NoArray => pushed = Append(<<Message("system", t)>>, Asked(t))
             /\ found # NoArray => pushed = Append(Trimmed(heap[found]), Asked(t))
<1> DEFINE h == IF found = NoArray THEN <<Message("system", t)>> ELSE Trimmed(heap[found])
           fresh == found = NoArray \/ Len(heap[found]) > HardCap
           arr == IF fresh THEN <<t, "base">> ELSE found
           pushed == Append(h, Asked(t))
<1>1. /\ heap' = [heap EXCEPT ![arr] = pushed]
      /\ sessions' = [sessions EXCEPT ![Key(t)] = arr]
      /\ messages' = [messages EXCEPT ![t] = arr]
      /\ working' = [working EXCEPT ![t] = pushed]
    BY DEF LoadAndPush, Asked
<1>2. arr \in Arrays /\ (arr = <<t, "base">> \/ (arr = found /\ found # NoArray))
    BY TurnFacts
<1>3. h \in Seq(Messages) /\ Len(h) <= HardCap /\ ContextsSecond(h)
    <2>0. HardCap \in Nat /\ KeepTail \in Nat /\ KeepTail >= 1 /\ KeepTail <= HardCap - 1
        BY TurnsAssumption
    <2>1. CASE found = NoArray
        <3>1. h = <<Message("system", t)>>
            BY <2>1
        <3>2. <<Message("system", t)>> \in Seq(Messages) /\ Len(<<Message("system", t)>>) = 1
            BY SystemAlone
        <3>3. ContextsSecond(<<Message("system", t)>>)
            BY DEF ContextsSecond, Message
        <3> HIDE DEF h
        <3> QED BY <2>0, <3>1, <3>2, <3>3
    <2>2. CASE found # NoArray
        <3>1. heap[found] \in Seq(Messages) /\ Len(heap[found]) \in Nat
            BY <2>2, LenProperties DEF TurnsTypeOK
        <3>2. CASE Len(heap[found]) > HardCap
            <4>1. Trimmed(heap[found]) \in Seq(Messages) /\ Len(Trimmed(heap[found])) = KeepTail + 1
                BY <3>1, <3>2, TrimmedIs
            <4>2. ContextsSecond(Trimmed(heap[found]))
                BY <2>2, <3>1, <3>2, TrimmedContexts
            <4> QED BY <2>0, <2>2, <4>1, <4>2
        <3>3. CASE ~ (Len(heap[found]) > HardCap)
            <4>1. Trimmed(heap[found]) = heap[found]
                BY <3>3 DEF Trimmed
            <4>2. Len(heap[found]) <= HardCap
                BY <2>0, <3>1, <3>3
            <4> QED BY <2>2, <3>1, <4>1, <4>2
        <3> QED BY <3>2, <3>3
    <2> QED BY <2>1, <2>2
<1>4. /\ found = NoArray => h = <<Message("system", t)>>
      /\ found # NoArray => h = Trimmed(heap[found])
    OBVIOUS
<1> HIDE DEF h, arr, fresh
<1>5. pushed \in Seq(Messages) /\ Len(pushed) <= HardCap + 1 /\ Len(pushed) >= 1 /\ ContextsSecond(pushed)
    <2>1. pushed \in Seq(Messages) /\ Len(pushed) = Len(h) + 1
        BY <1>3, Voices, AppendProperties
    <2>2. Len(h) \in Nat /\ HardCap \in Nat
        BY <1>3, TurnsAssumption, LenProperties
    <2>3. ContextsSecond(pushed)
        BY <1>3, Voices, AppendContexts
    <2> QED BY <1>3, <2>1, <2>2, <2>3
<1>6. /\ found = NoArray => pushed = Append(<<Message("system", t)>>, Asked(t))
      /\ found # NoArray => pushed = Append(Trimmed(heap[found]), Asked(t))
    BY <1>4
<1> HIDE DEF pushed
<1> QED BY <1>1, <1>2, <1>5, <1>6

LEMMA BoundFacts ==
    /\ HardCap \in Nat /\ MaxToolCalls \in Nat /\ Longest \in Nat
    /\ HardCap + 1 <= Longest /\ HardCap + 2 <= Longest
    /\ \A n \in 0..MaxRounds :
         /\ n * RoundSize \in Nat /\ HardCap + 2 + n * RoundSize <= Longest
         /\ (n + 1) * RoundSize = n * RoundSize + RoundSize
         /\ n < MaxRounds => HardCap + 2 + n * RoundSize + RoundSize + 1 <= Longest
<1> DEFINE S == RoundSize
<1>0. HardCap \in Nat /\ MaxToolCalls \in Nat /\ MaxRounds \in Nat /\ S \in Nat
    BY TurnsAssumption DEF RoundSize
<1>1. Longest = HardCap + 3 + MaxRounds * S
    BY DEF Longest, RoundSize
<1> HIDE DEF S
<1>2. \A m, n \in Nat : m * n \in Nat
    OBVIOUS
<1>3. \A n, d \in Nat : (n + d) * S = n * S + d * S /\ (n + 1) * S = n * S + S
    BY <1>0
<1>4. ASSUME NEW n \in 0..MaxRounds
      PROVE  /\ n * S \in Nat /\ n * S <= MaxRounds * S
             /\ n < MaxRounds => n * S + S <= MaxRounds * S
    <2>1. n \in Nat /\ MaxRounds - n \in Nat /\ n + (MaxRounds - n) = MaxRounds
        BY <1>0
    <2>2. n * S \in Nat /\ (MaxRounds - n) * S \in Nat /\ MaxRounds * S = n * S + (MaxRounds - n) * S
        BY <1>0, <1>2, <1>3, <2>1
    <2>3. CASE n < MaxRounds
        <3>1. n + 1 \in Nat /\ MaxRounds - (n + 1) \in Nat /\ (n + 1) + (MaxRounds - (n + 1)) = MaxRounds
            BY <1>0, <2>1, <2>3
        <3>2. /\ (MaxRounds - (n + 1)) * S \in Nat
              /\ MaxRounds * S = (n + 1) * S + (MaxRounds - (n + 1)) * S
            BY <1>0, <1>2, <1>3, <3>1
        <3>3. (n + 1) * S = n * S + S
            BY <1>3, <2>1
        <3> DEFINE x == MaxRounds * S
                   y == n * S
                   z == (MaxRounds - (n + 1)) * S
                   u == (MaxRounds - n) * S
                   w == (n + 1) * S
        <3>4. x \in Int /\ y \in Nat /\ z \in Nat /\ u \in Nat /\ x = y + u /\ x = w + z /\ w = y + S
            BY <1>0, <2>2, <3>2, <3>3
        <3> HIDE DEF x, y, z, u, w
        <3>5. y <= x /\ y + S <= x
            BY <1>0, <3>4
        <3> QED BY <2>2, <3>5 DEF x, y
    <2>4. CASE ~ (n < MaxRounds)
        <3> DEFINE x == MaxRounds * S
                   y == n * S
                   u == (MaxRounds - n) * S
        <3>1. y \in Nat /\ u \in Nat /\ x = y + u
            BY <2>2
        <3> HIDE DEF x, y, u
        <3>2. y <= x
            BY <3>1
        <3> QED BY <2>2, <2>4, <3>2 DEF x, y
    <2> QED BY <2>3, <2>4
<1>5. MaxRounds * S \in Nat
    BY <1>0, <1>2
<1>6. ASSUME NEW n \in 0..MaxRounds
      PROVE  /\ n * S \in Nat /\ HardCap + 2 + n * S <= Longest
             /\ (n + 1) * S = n * S + S
             /\ n < MaxRounds => HardCap + 2 + n * S + S + 1 <= Longest
    <2>1. (n + 1) * S = n * S + S /\ n * S \in Nat /\ n * S <= MaxRounds * S
          /\ (n < MaxRounds => n * S + S <= MaxRounds * S)
        BY <1>0, <1>3, <1>4
    <2> DEFINE x == MaxRounds * S
               y == n * S
    <2>2. x \in Nat /\ y \in Nat /\ y <= x /\ (n < MaxRounds => y + S <= x) /\ Longest = HardCap + 3 + x
        BY <1>1, <1>5, <2>1
    <2> HIDE DEF x, y
    <2>3. HardCap + 2 + y <= Longest /\ (n < MaxRounds => HardCap + 2 + y + S + 1 <= Longest)
        BY <1>0, <2>2
    <2> QED BY <2>1, <2>3 DEF x, y
<1>7. Longest \in Nat /\ HardCap + 1 <= Longest /\ HardCap + 2 <= Longest
    <2> DEFINE x == MaxRounds * S
    <2>1. x \in Nat /\ Longest = HardCap + 3 + x
        BY <1>1, <1>5
    <2> HIDE DEF x
    <2> QED BY <1>0, <2>1
<1> QED BY <1>0, <1>6, <1>7 DEF S

(* The messages of a round.                                                *)
LEMMA RoundIs ==
    ASSUME NEW t \in Turns, NEW n \in 1..MaxToolCalls, NEW m \in 1..MaxToolCalls
    PROVE  /\ Round(t, n, m) \in Seq(Messages) /\ Len(Round(t, n, m)) = 1 + m
           /\ \A i \in 1..Len(Round(t, n, m)) : Round(t, n, m)[i].role # "context"
<1>0. MaxToolCalls \in Nat /\ 0 \in 0..MaxToolCalls /\ n \in 0..MaxToolCalls /\ m \in Nat
    BY TurnsAssumption
<1> DEFINE one == <<ToolCalls(t, n)>>
           more == ToolResults(t, m)
<1>1. ToolCalls(t, n) \in Messages /\ ToolCalls(t, n).role = "assistant"
    BY <1>0 DEF ToolCalls, Messages
<1>1a. Message("tool", t) \in Messages /\ Message("tool", t).role = "tool"
    BY <1>0 DEF Message, Messages
<1>2. one \in Seq(Messages) /\ Len(one) = 1 /\ one[1] = ToolCalls(t, n)
    BY <1>1
<1>3. more \in Seq(Messages) /\ Len(more) = m /\ \A i \in 1..m : more[i] = Message("tool", t)
    <2>1. more \in [1..m -> Messages] /\ \A i \in 1..m : more[i] = Message("tool", t)
        BY <1>1a DEF ToolResults
    <2> HIDE DEF more
    <2> QED BY <1>0, <2>1, IsASeq
<1>4. Round(t, n, m) = one \o more
    BY DEF Round
<1> HIDE DEF one, more
<1>5. /\ one \o more \in Seq(Messages) /\ Len(one \o more) = Len(one) + Len(more)
      /\ \A i \in 1..(Len(one) + Len(more)) :
           (one \o more)[i] = IF i <= Len(one) THEN one[i] ELSE more[i - Len(one)]
    BY <1>2, <1>3, ConcatProperties
<1>6. \A i \in 1..(1 + m) : i = 1 \/ (~ (i <= 1) /\ i - 1 \in 1..m)
    BY <1>0
<1>7. \A i \in 1..(1 + m) : (one \o more)[i] = ToolCalls(t, n) \/ (one \o more)[i] = Message("tool", t)
    BY <1>2, <1>3, <1>5, <1>6
<1> QED BY <1>1, <1>1a, <1>2, <1>3, <1>4, <1>5, <1>7

(* What is pushed last is short, and fits in after the rounds.             *)
LEMMA EndingsFit ==
    ASSUME TurnsTypeOK, NEW r \in Chats, NEW said \in Endings(r)
    PROVE  /\ said \in Seq(Messages)
           /\ HardCap + 2 + rounds[r] * RoundSize + Len(said) <= Longest
           /\ \A i \in 1..Len(said) : said[i].role # "context"
<1> DEFINE reply == <<Message("assistant", r)>>
           n == rounds[r]
<1>0. r \in Turns /\ n \in 0..MaxRounds /\ MaxRounds \in Nat /\ MaxToolCalls \in Nat /\ 0 \in 0..MaxToolCalls
    BY TurnsAssumption DEF Turns, TurnsTypeOK
<1>1. Message("assistant", r) \in Messages /\ Message("assistant", r).role = "assistant"
    BY <1>0 DEF Message, Messages
<1>2. reply \in Seq(Messages) /\ Len(reply) = 1 /\ reply[1] = Message("assistant", r)
    BY <1>1
<1>3. \/ said = <<>>
      \/ n # MaxRounds /\ said = reply
      \/ n # MaxRounds /\ \E a, b \in 1..MaxToolCalls : said = Round(r, a, b) \o reply
    BY DEF Endings
<1> HIDE DEF reply, n
<1>4. /\ n * RoundSize \in Nat /\ Longest \in Nat /\ HardCap + 2 + n * RoundSize <= Longest
      /\ n # MaxRounds => HardCap + 2 + n * RoundSize + RoundSize + 1 <= Longest
      /\ HardCap \in Nat /\ RoundSize \in Nat /\ RoundSize = MaxToolCalls + 1
    <2>1. n # MaxRounds => n < MaxRounds
        BY <1>0
    <2> QED BY <1>0, <2>1, BoundFacts DEF RoundSize
<1>5. CASE said = <<>>
    <2>1. said \in Seq(Messages) /\ Len(said) = 0 /\ 1..0 = {}
        BY <1>5
    <2> HIDE DEF Longest
    <2> QED BY <1>4, <2>1 DEF n
<1>6. CASE n # MaxRounds /\ said = reply
    <2>1. HardCap + 2 + n * RoundSize + 1 <= Longest
        BY <1>4, <1>6
    <2>2. \A i \in 1..1 : i = 1
        OBVIOUS
    <2> QED BY <1>1, <1>2, <1>6, <2>1, <2>2 DEF n
<1>7. ASSUME n # MaxRounds, NEW a \in 1..MaxToolCalls, NEW b \in 1..MaxToolCalls,
             said = Round(r, a, b) \o reply
      PROVE  /\ said \in Seq(Messages)
             /\ HardCap + 2 + n * RoundSize + Len(said) <= Longest
             /\ \A i \in 1..Len(said) : said[i].role # "context"
    <2> DEFINE rd == Round(r, a, b)
    <2>1. rd \in Seq(Messages) /\ Len(rd) = 1 + b /\ \A i \in 1..Len(rd) : rd[i].role # "context"
        BY <1>0, RoundIs
    <2> HIDE DEF rd
    <2>2. /\ rd \o reply \in Seq(Messages) /\ Len(rd \o reply) = Len(rd) + Len(reply)
          /\ \A i \in 1..(Len(rd) + Len(reply)) :
               (rd \o reply)[i] = IF i <= Len(rd) THEN rd[i] ELSE reply[i - Len(rd)]
        BY <1>2, <2>1, ConcatProperties
    <2>3. Len(rd) \in Nat /\ Len(rd) <= RoundSize
        BY <1>0, <1>4, <2>1
    <2>4. HardCap + 2 + n * RoundSize + (Len(rd) + 1) <= Longest
        BY <1>4, <1>7, <2>3
    <2>5. \A i \in 1..(Len(rd) + 1) : i \in 1..Len(rd) \/ (~ (i <= Len(rd)) /\ i - Len(rd) = 1)
        BY <2>3
    <2>6. \A i \in 1..(Len(rd) + 1) : (rd \o reply)[i].role # "context"
        BY <1>1, <1>2, <2>1, <2>2, <2>5
    <2> QED BY <1>2, <1>7, <2>2, <2>4, <2>6 DEF rd
<1> QED BY <1>3, <1>5, <1>6, <1>7 DEF n

LEMMA ThreadsNext ==
    ASSUME NEW k \in Keys, NEW h, NEW B, NEW R, NEW A, Threads(h, B, R, A),
           heap'[sessions'[k]] = h, Begun(k)' = B, Answered(k)' = R, Order' = A
    PROVE  (Threads(heap[sessions[k]], Begun(k), Answered(k), Order))'
<1> USE DEF Threads, In, Asked, Replied, Message, Messages
<1>0. Messages' = Messages
    BY DEF Turns
<1>1. (LET g == heap[sessions[k]] IN g \in Seq(Messages) /\ Len(g) >= 1 /\ g[1].role = "system")'
    BY <1>0
<1>2. (LET g == heap[sessions[k]] IN
         \A i \in 2..Len(g) : \E c \in Begun(k) : g[i] = Asked(c) \/ g[i] = Replied(c))'
    OBVIOUS
<1>3. (LET g == heap[sessions[k]] IN
         \A i, j \in 2..Len(g) : i < j =>
           \/ <<g[i].turn, g[j].turn>> \in Order
           \/ g[i].turn = g[j].turn /\ g[i].role = "user" /\ g[j].role = "assistant")'
    OBVIOUS
<1>4. (LET g == heap[sessions[k]] IN
         \A i \in 3..Len(g) : g[i].role = "assistant" => g[i - 1] = Asked(g[i].turn))'
    OBVIOUS
<1>5. (LET g == heap[sessions[k]] IN
         \A c, d \in Begun(k) : <<c, d>> \in Order /\ In(Asked(c), g) => In(Asked(d), g))'
    OBVIOUS
<1>6. (LET g == heap[sessions[k]] IN
         \A c \in Answered(k) : In(Asked(c), g) => In(Replied(c), g))'
    OBVIOUS
<1> QED BY <1>1, <1>2, <1>3, <1>4, <1>5, <1>6

LEMMA LockedFrame ==
    ASSUME NEW k \in Keys, LockedOK(k), chatKey' = chatKey,
           AgentsOnly(k) =>
             /\ sessions'[k] = sessions[k]
             /\ sessions[k] # NoArray => heap'[sessions[k]] = heap[sessions[k]]
             /\ Begun(k)' = Begun(k) /\ Answered(k)' = Answered(k)
             /\ \A c \in Begun(k) : stage'[c] = "calling" =>
                  stage[c] = "calling" /\ messages'[c] = messages[c]
             /\ \A c, d \in Begun(k) : <<c, d>> \in Order <=> <<c, d>> \in Order'
    PROVE  LockedOK(k)'
<1> SUFFICES ASSUME AgentsOnly(k)
             PROVE  (IF sessions[k] = NoArray
                     THEN Begun(k) = {}
                     ELSE /\ Threads(heap[sessions[k]], Begun(k), Answered(k), Order)
                          /\ \E c \in Begun(k) : In(Asked(c), heap[sessions[k]])
                          /\ \A c \in Begun(k) : stage[c] = "calling" =>
                               /\ messages[c] = sessions[k]
                               /\ heap[sessions[k]][Len(heap[sessions[k]])] = Asked(c))'
    BY DEF LockedOK, AgentsOnly
<1>1. CASE sessions[k] = NoArray
    BY <1>1 DEF LockedOK
<1>2. CASE sessions[k] # NoArray
    <2> DEFINE h == heap[sessions[k]]
    <2>1. /\ sessions'[k] = sessions[k] /\ heap'[sessions'[k]] = h
          /\ Begun(k)' = Begun(k) /\ Answered(k)' = Answered(k)
        BY <1>2
    <2>2. /\ Threads(h, Begun(k), Answered(k), Order)
          /\ \E c \in Begun(k) : In(Asked(c), h)
          /\ \A c \in Begun(k) : stage[c] = "calling" =>
               messages[c] = sessions[k] /\ h[Len(h)] = Asked(c)
        BY <1>2 DEF LockedOK
    <2> HIDE DEF h
    <2>3. Threads(h, Begun(k), Answered(k), Order')
        BY <2>2, ThreadsSame
    <2>4. \A c \in Begun(k) : stage'[c] = "calling" =>
            messages'[c] = sessions'[k] /\ h[Len(h)] = Asked(c)
        BY <2>1, <2>2
    <2>5. (Threads(heap[sessions[k]], Begun(k), Answered(k), Order))'
        BY <2>1, <2>3, ThreadsNext
    <2>6. (\E c \in Begun(k) : In(Asked(c), heap[sessions[k]]))'
        BY <2>1, <2>2 DEF In, Asked, Message
    <2>7. (\A c \in Begun(k) : stage[c] = "calling" =>
             /\ messages[c] = sessions[k]
             /\ heap[sessions[k]][Len(heap[sessions[k]])] = Asked(c))'
        BY <2>1, <2>4 DEF Asked, Message
    <2> QED BY <1>2, <2>1, <2>5, <2>6, <2>7
<1> QED BY <1>1, <1>2

-----------------------------------------------------------------------------
(* The parts of the invariant that are about the turns.                    *)
TurnsRest ==
    /\ TurnsTypeOK /\ StagesOK /\ OwnersOK /\ LengthsOK
    /\ \A k \in Keys : LockedOK(k)

LEMMA ContextsNext ==
    ASSUME Arrays' = Arrays, NEW a \in Arrays, Len(heap'[a]) <= Longest, ContextsSecond(heap'[a])
    PROVE  (Len(heap[a]) <= Longest /\ ContextsSecond(heap[a]))'
BY DEF ContextsSecond, Longest

LEMMA WorkingNext ==
    ASSUME NEW r, rounds' = rounds
    PROVE  WorkingOK(r)' <=>
             /\ Len(working'[r]) >= 1 /\ ContextsSecond(working'[r])
             /\ Len(working'[r]) <= HardCap + 2 + rounds[r] * RoundSize
             /\ rounds[r] = 0 /\ working'[r][2] # Message("context", r)
                => Len(working'[r]) <= HardCap + 1
BY DEF WorkingOK, ContextsSecond, Message, RoundSize

LEMMA WorkingSame ==
    ASSUME NEW r, rounds' = rounds, working'[r] = working[r], WorkingOK(r)
    PROVE  WorkingOK(r)'
BY WorkingNext DEF WorkingOK

(* Beginning a turn, agent or chat.                                        *)
LEMMA BeginKeeps ==
    ASSUME TurnsInd, MutexInv', NEW t \in Turns, stage[t] = "new",
           NEW found, found = NoArray \/ found = sessions[Key(t)],
           LoadAndPush(t, found), stage' = [stage EXCEPT ![t] = "calling"],
           chatKey' = chatKey, keyOf' = keyOf, canUseLLM' = canUseLLM, rounds' = rounds
    PROVE  TurnsTypeOK' /\ OwnersOK' /\ LengthsOK'
<1>0. TurnsTypeOK /\ OwnersOK /\ LengthsOK /\ Key(t) \in Keys
    BY TurnFacts DEF TurnsInd
<1>1. found \in Arrays \cup {NoArray} /\ (found # NoArray => ContextsSecond(heap[found]))
    BY <1>0 DEF TurnsTypeOK, LengthsOK
<1>2. PICK arr \in Arrays, pushed \in Seq(Messages) :
        /\ heap' = [heap EXCEPT ![arr] = pushed]
        /\ sessions' = [sessions EXCEPT ![Key(t)] = arr]
        /\ messages' = [messages EXCEPT ![t] = arr]
        /\ working' = [working EXCEPT ![t] = pushed]
        /\ Len(pushed) <= HardCap + 1 /\ Len(pushed) >= 1 /\ ContextsSecond(pushed)
        /\ arr = <<t, "base">> \/ (arr = found /\ found # NoArray)
    BY <1>0, <1>1, Loaded
<1>3. \A x : Key(x)' = Key(x)
    BY DEF Key
<1>4. /\ arr # NoArray /\ Key(arr[1]) = Key(t)
      /\ \A r \in Turns : arr = <<r, "commit">> => stage[r] = "replied" /\ r # t
    <2>1. NoArray \notin Arrays /\ <<t, "base">>[1] = t /\ \A r \in Turns : <<t, "base">> # <<r, "commit">>
        BY <1>0, TurnFacts
    <2>2. CASE arr = <<t, "base">>
        BY <2>1, <2>2
    <2>3. CASE arr = found /\ found # NoArray
        BY <1>0, <2>1, <2>3 DEF OwnersOK
    <2> QED BY <1>2, <2>2, <2>3
<1>5. TurnsTypeOK'
    <2>1. TypeOK'
        BY DEF MutexInv
    <2>2. (chatKey \in [Chats -> Keys])'
        BY <1>0 DEF TurnsTypeOK
    <2>3. (stage \in [Turns -> TurnStages])'
        BY <1>0 DEF TurnsTypeOK, Turns, TurnStages
    <2>4. (sessions \in [Keys -> Arrays \cup {NoArray}])'
        BY <1>0, <1>2 DEF TurnsTypeOK, Arrays, Turns
    <2>5. (heap \in [Arrays -> Seq(Messages)])'
        <3>1. heap' \in [Arrays -> Seq(Messages)]
            BY <1>0, <1>2 DEF TurnsTypeOK
        <3> QED BY <3>1 DEF Arrays, Messages, Turns
    <2>6. (messages \in [Turns -> Arrays \cup {NoArray}])'
        <3>1. messages' \in [Turns -> Arrays \cup {NoArray}]
            BY <1>0, <1>2 DEF TurnsTypeOK
        <3> QED BY <3>1 DEF Arrays, Turns
    <2>7. (working \in [Turns -> Seq(Messages)])'
        <3>1. working' \in [Turns -> Seq(Messages)]
            BY <1>0, <1>2 DEF TurnsTypeOK
        <3> QED BY <3>1 DEF Messages, Turns
    <2>8. (canUseLLM \in BOOLEAN)' /\ (rounds \in [Chats -> 0..MaxRounds])'
        BY <1>0 DEF TurnsTypeOK
    <2> QED BY <2>1, <2>2, <2>3, <2>4, <2>5, <2>6, <2>7, <2>8 DEF TurnsTypeOK
<1>6. OwnersOK'
    <2>0. stage \in [Turns -> TurnStages]
          /\ sessions \in [Keys -> Arrays \cup {NoArray}]
          /\ messages \in [Turns -> Arrays \cup {NoArray}]
        BY <1>0 DEF TurnsTypeOK
    <2>1. \A k \in Keys : sessions'[k] # NoArray => Key(sessions'[k][1]) = k
        BY <1>0, <1>2, <1>4, <2>0 DEF OwnersOK
    <2>2. \A x \in Turns : messages'[x] # NoArray => Key(messages'[x][1]) = Key(x)
        BY <1>0, <1>2, <1>4, <2>0 DEF OwnersOK
    <2>3. \A x \in Turns : stage'[x] = "calling" => messages'[x] # NoArray
        BY <1>0, <1>2, <1>4, <2>0 DEF OwnersOK
    <2>4. \A r \in Turns, k \in Keys : sessions'[k] = <<r, "commit">> => stage'[r] = "replied"
        BY <1>0, <1>2, <1>4, <2>0 DEF OwnersOK
    <2>5. \A r, x \in Turns : messages'[x] = <<r, "commit">> => stage'[r] = "replied"
        BY <1>0, <1>2, <1>4, <2>0 DEF OwnersOK
    <2>6. Turns' = Turns
        BY DEF Turns
    <2>7. (\A k \in Keys : sessions[k] # NoArray => Key(sessions[k][1]) = k)'
        BY <1>3, <2>1
    <2>8. (\A x \in Turns : messages[x] # NoArray => Key(messages[x][1]) = Key(x))'
        BY <1>3, <2>2, <2>6
    <2> QED BY <2>3, <2>4, <2>5, <2>6, <2>7, <2>8 DEF OwnersOK
<1>7. LengthsOK'
    <2>0. /\ stage \in [Turns -> TurnStages]
          /\ heap \in [Arrays -> Seq(Messages)] /\ working \in [Turns -> Seq(Messages)]
          /\ messages \in [Turns -> Arrays \cup {NoArray}]
        BY <1>0 DEF TurnsTypeOK
    <2>1. \A a \in Arrays : Len(heap'[a]) <= Longest /\ ContextsSecond(heap'[a])
        <3>1. Len(pushed) <= Longest /\ ContextsSecond(pushed)
            <4>1. Len(pushed) \in Nat
                BY LenProperties
            <4> HIDE DEF Longest
            <4> QED BY <1>2, <4>1, BoundFacts
        <3>2. \A a \in Arrays : Len(heap[a]) <= Longest /\ ContextsSecond(heap[a])
            BY <1>0 DEF LengthsOK
        <3>3. \A a \in Arrays : heap'[a] = pushed \/ heap'[a] = heap[a]
            BY <1>2, <2>0
        <3> QED BY <3>1, <3>2, <3>3
    <2>2. ASSUME NEW c \in Calls, stage'[c] = "calling"
          PROVE  Len(heap'[messages'[c]]) <= HardCap + 1
        <3>0. c \in Turns
            BY DEF Turns
        <3>1. CASE c = t
            BY <1>2, <2>0, <3>0, <3>1
        <3>2. CASE c # t
            <4>1. stage[c] = "calling" /\ messages'[c] = messages[c]
                BY <1>2, <2>0, <2>2, <3>0, <3>2
            <4>2. messages[c] \in Arrays
                BY <1>0, <2>0, <3>0, <4>1 DEF OwnersOK
            <4>3. heap'[messages[c]] = pushed \/ heap'[messages[c]] = heap[messages[c]]
                BY <1>2, <2>0, <4>2
            <4>4. Len(heap[messages[c]]) <= HardCap + 1
                BY <1>0, <4>1 DEF LengthsOK
            <4> QED BY <1>2, <4>1, <4>3, <4>4
        <3> QED BY <3>1, <3>2
    <2>3. ASSUME NEW r \in Chats, stage'[r] = "calling"
          PROVE  WorkingOK(r)'
        <3>0. r \in Turns /\ rounds[r] \in 0..MaxRounds
            BY <1>0 DEF Turns, TurnsTypeOK
        <3>1. CASE r = t
            <4>1. working'[r] = pushed
                BY <1>2, <2>0, <3>0, <3>1
            <4>2. rounds[r] * RoundSize \in Nat /\ HardCap \in Nat
                BY <3>0, BoundFacts
            <4>3. Len(pushed) \in Nat
                BY LenProperties
            <4> DEFINE grown == rounds[r] * RoundSize
            <4>4. Len(pushed) <= HardCap + 2 + grown
                <5>1. grown \in Nat
                    BY <4>2
                <5> HIDE DEF grown
                <5> QED BY <1>2, <4>2, <4>3, <5>1
            <4>5. WorkingOK(r)' <=>
                    /\ Len(working'[r]) >= 1 /\ ContextsSecond(working'[r])
                    /\ Len(working'[r]) <= HardCap + 2 + rounds[r] * RoundSize
                    /\ rounds[r] = 0 /\ working'[r][2] # Message("context", r)
                       => Len(working'[r]) <= HardCap + 1
                BY WorkingNext
            <4> QED BY <1>2, <4>1, <4>4, <4>5
        <3>2. CASE r # t
            <4>1. stage[r] = "calling" /\ working'[r] = working[r]
                BY <1>2, <2>0, <2>3, <3>0, <3>2
            <4>2. WorkingOK(r)
                BY <1>0, <4>1 DEF LengthsOK
            <4> QED BY <4>1, <4>2, WorkingSame
        <3> QED BY <3>1, <3>2
    <2>4. Arrays' = Arrays
        BY DEF Arrays, Turns
    <2>5. Longest' = Longest /\ \A h : ContextsSecond(h)' <=> ContextsSecond(h)
        BY DEF Longest, ContextsSecond
    <2>6. (\A a \in Arrays : Len(heap[a]) <= Longest /\ ContextsSecond(heap[a]))'
        BY <2>1, <2>4, ContextsNext
    <2> QED BY <2>2, <2>3, <2>6 DEF LengthsOK
<1> QED BY <1>5, <1>6, <1>7

(* An array is reached from one session only, so what is done to it leaves *)
(* every other session's history as it was.                                *)
LEMMA OtherSessions ==
    ASSUME TurnsInd, NEW k \in Keys, NEW a \in Arrays, Key(a[1]) # k, sessions[k] # NoArray
    PROVE  sessions[k] # a
BY DEF TurnsInd, OwnersOK

LEMMA AgentBeginKeeps ==
    ASSUME TurnsInd, MutexInv', NEW c \in Calls, AgentBegin(c)
    PROVE  TurnsRest'
<1>0. /\ TurnsTypeOK /\ MutexInv /\ OwnersOK /\ StagesOK
      /\ c \in Turns /\ c \notin Chats /\ Key(c) = keyOf[c] /\ keyOf[c] \in Keys
    BY TurnFacts DEF TurnsInd
<1>1. /\ Start(c) /\ LoadAndPush(c, sessions[keyOf[c]])
      /\ stage' = [stage EXCEPT ![c] = "calling"] /\ chatKey' = chatKey
      /\ canUseLLM' = canUseLLM /\ rounds' = rounds
    BY DEF AgentBegin
<1>2. /\ pc[c] = "waiting" /\ pc' = [pc EXCEPT ![c] = "running"]
      /\ keyOf' = keyOf /\ stamp' = stamp /\ arrivals' = arrivals
    BY <1>1 DEF Start
<1>3. stage[c] = "new"
    BY <1>0, <1>2 DEF StagesOK
<1>4. TurnsTypeOK' /\ OwnersOK' /\ LengthsOK'
    <2> DEFINE found == sessions[keyOf[c]]
    <2>1. found = sessions[Key(c)] /\ LoadAndPush(c, found)
        BY <1>0, <1>1
    <2> HIDE DEF found
    <2> QED BY <1>0, <1>1, <1>2, <1>3, <2>1, BeginKeeps
<1>5. /\ pc \in [Calls -> Stages] /\ pc' \in [Calls -> Stages] /\ stage \in [Turns -> TurnStages]
      /\ keyOf \in [Calls -> Keys] /\ sessions \in [Keys -> Arrays \cup {NoArray}]
      /\ heap \in [Arrays -> Seq(Messages)] /\ messages \in [Turns -> Arrays \cup {NoArray}]
    BY <1>0, <1>4 DEF TurnsTypeOK, TypeOK
<1>6. \A d \in Calls : d \in Turns
    BY DEF Turns
<1>7. StagesOK'
    BY <1>0, <1>1, <1>2, <1>3, <1>5, <1>6 DEF StagesOK
<1>8. Order' = Order
    BY <1>2, <1>5 DEF Order, Ahead, Made
<1>9. \A k \in Keys : k # keyOf[c] => Begun(k)' = Begun(k) /\ Answered(k)' = Answered(k)
    BY <1>1, <1>2, <1>5, <1>6 DEF Begun, Answered
<1>10. \A k \in Keys : k = keyOf[c] =>
         /\ Begun(k)' = Begun(k) \cup {c} /\ c \notin Begun(k)
         /\ Answered(k)' = Answered(k)
    BY <1>1, <1>2, <1>3, <1>5, <1>6 DEF Begun, Answered
<1>11. PICK arr \in Arrays, pushed \in Seq(Messages) :
         /\ heap' = [heap EXCEPT ![arr] = pushed]
         /\ sessions' = [sessions EXCEPT ![Key(c)] = arr]
         /\ messages' = [messages EXCEPT ![c] = arr]
         /\ working' = [working EXCEPT ![c] = pushed]
         /\ arr = <<c, "base">> \/ (arr = sessions[keyOf[c]] /\ sessions[keyOf[c]] # NoArray)
         /\ sessions[keyOf[c]] = NoArray => pushed = Append(<<Message("system", c)>>, Asked(c))
         /\ sessions[keyOf[c]] # NoArray => pushed = Append(Trimmed(heap[sessions[keyOf[c]]]), Asked(c))
    <2> DEFINE found == sessions[keyOf[c]]
    <2>1. /\ found \in Arrays \cup {NoArray} /\ LoadAndPush(c, found)
          /\ found # NoArray => ContextsSecond(heap[found])
        BY <1>0, <1>1, <1>5 DEF TurnsInd, LengthsOK
    <2> HIDE DEF found
    <2>2. \E arr \in Arrays : \E pushed \in Seq(Messages) :
             /\ heap' = [heap EXCEPT ![arr] = pushed]
             /\ sessions' = [sessions EXCEPT ![Key(c)] = arr]
             /\ messages' = [messages EXCEPT ![c] = arr]
             /\ working' = [working EXCEPT ![c] = pushed]
             /\ Len(pushed) <= HardCap + 1 /\ Len(pushed) >= 1 /\ ContextsSecond(pushed)
             /\ arr = <<c, "base">> \/ (arr = found /\ found # NoArray)
             /\ found = NoArray => pushed = Append(<<Message("system", c)>>, Asked(c))
             /\ found # NoArray => pushed = Append(Trimmed(heap[found]), Asked(c))
        BY <1>0, <2>1, Loaded
    <2> QED BY <2>2 DEF found
<1>12. Key(arr[1]) = keyOf[c] /\ arr # NoArray
    BY <1>0, <1>5, <1>11, TurnFacts DEF OwnersOK
<1>13. ASSUME NEW k \in Keys, k # keyOf[c]
       PROVE  LockedOK(k)'
    <2>1. LockedOK(k)
        BY DEF TurnsInd
    <2>2. sessions'[k] = sessions[k]
        BY <1>0, <1>5, <1>11, <1>13
    <2>3. sessions[k] # NoArray => heap'[sessions[k]] = heap[sessions[k]]
        BY <1>5, <1>11, <1>12, <1>13, OtherSessions
    <2>4. \A d \in Begun(k) : d # c /\ d \in Turns
        BY <1>6, <1>13 DEF Begun
    <2>5. \A d \in Begun(k) : stage'[d] = "calling" => stage[d] = "calling" /\ messages'[d] = messages[d]
        BY <1>1, <1>5, <1>11, <2>4
    <2> QED BY <1>1, <1>8, <1>9, <1>13, <2>1, <2>2, <2>3, <2>5, LockedFrame
<1>14. ASSUME NEW k \in Keys, k = keyOf[c]
       PROVE  LockedOK(k)'
    <2>1. k \in Keys /\ LockedOK(k)
        BY DEF TurnsInd
    <2>2. ASSUME AgentsOnly(k)
          PROVE  /\ sessions'[k] # NoArray
                 /\ (Threads(heap[sessions[k]], Begun(k), Answered(k), Order))'
                 /\ (\E d \in Begun(k) : In(Asked(d), heap[sessions[k]]))'
                 /\ (\A d \in Begun(k) : stage[d] = "calling" =>
                       /\ messages[d] = sessions[k]
                       /\ heap[sessions[k]][Len(heap[sessions[k]])] = Asked(d))'
        <3> DEFINE h == IF sessions[k] = NoArray THEN <<Message("system", c)>> ELSE Trimmed(heap[sessions[k]])
                   B == Begun(k)
                   R == Answered(k)
        <3>1. Threads(h, B, R, Order)
            <4>1. CASE sessions[k] = NoArray
                <5>1. B = {} /\ R = {}
                    BY <2>1, <2>2, <4>1 DEF LockedOK, Answered
                <5>2. Threads(<<Message("system", c)>>, {}, {}, Order)
                    BY <1>0, SystemAlone
                <5> QED BY <4>1, <5>1, <5>2
            <4>2. CASE sessions[k] # NoArray
                <5>1. Threads(heap[sessions[k]], B, R, Order)
                    BY <2>1, <2>2, <4>2 DEF LockedOK
                <5>2. R \subseteq B
                    BY DEF Answered
                <5> HIDE DEF B, R
                <5>3. Threads(Trimmed(heap[sessions[k]]), B, R, Order)
                    BY <1>0, <5>1, <5>2, OrderAsymmetric, TrimmedThreads
                <5> QED BY <4>2, <5>3
            <4> QED BY <4>1, <4>2
        <3>2. pushed = Append(h, Asked(c))
            BY <1>11, <1>14
        <3>3. /\ B \in SUBSET Turns /\ R \subseteq B /\ c \notin B
            BY <1>6, <1>10, <1>14 DEF Begun, Answered
        <3>4. \A d \in B : <<d, c>> \in Order
            <4> SUFFICES ASSUME NEW d \in B  PROVE <<d, c>> \in Order
                OBVIOUS
            <4>1. d \in Calls /\ keyOf[d] = k /\ stage[d] # "new" /\ d # c
                BY <3>3 DEF Begun
            <4>2. pc[d] \in {"running", "done"}
                BY <1>0, <1>5, <4>1 DEF StagesOK, Stages
            <4>3. Made(d) /\ Made(c)
                BY <1>2, <4>2 DEF Made
            <4>4. stamp[c] # stamp[d] /\ stamp[c] \in Nat /\ stamp[d] \in Nat
                BY <1>0, <4>1, <4>3 DEF MutexInv, StampsTellApart, TypeOK
            <4>5. ~ (stamp[c] < stamp[d])
                BY <1>0, <1>2, <1>14, <4>1, <4>2, <4>3 DEF MutexInv, CallOrder, Ahead
            <4>6. Ahead(d, c)
                BY <1>14, <4>1, <4>3, <4>4, <4>5 DEF Ahead
            <4> QED BY <4>1, <4>6 DEF Order
        <3> HIDE DEF h, B, R
        <3>5. /\ Threads(pushed, B \cup {c}, R, Order)
              /\ pushed[Len(pushed)] = Asked(c) /\ In(Asked(c), pushed)
            BY <1>0, <3>1, <3>2, <3>3, <3>4, OrderAsymmetric, PushUser
        <3>6. /\ sessions'[k] = arr /\ heap'[sessions'[k]] = pushed /\ messages'[c] = arr
            BY <1>0, <1>5, <1>11, <1>14
        <3>7. Begun(k)' = B \cup {c} /\ Answered(k)' = R
            BY <1>10, <1>14 DEF B, R
        <3>8. (Threads(heap[sessions[k]], Begun(k), Answered(k), Order))'
            BY <1>8, <3>5, <3>6, <3>7, ThreadsNext
        <3>9. (\E d \in Begun(k) : In(Asked(d), heap[sessions[k]]))'
            BY <3>5, <3>6, <3>7 DEF In, Asked, Message
        <3>10. \A d \in B \cup {c} : stage'[d] = "calling" => d = c
            <4> SUFFICES ASSUME NEW d \in B \cup {c}, stage'[d] = "calling"  PROVE d = c
                OBVIOUS
            <4>1. d \in Calls /\ keyOf'[d] = keyOf'[c]
                BY <1>2, <1>14 DEF B, Begun
            <4>2. pc'[d] = "running" /\ pc'[c] = "running"
                BY <1>2, <1>5, <1>7, <4>1 DEF StagesOK
            <4>3. MutualExclusion'
                BY OnlyOneRuns, PTL
            <4> QED BY <4>1, <4>2, <4>3 DEF MutualExclusion
        <3>11. (\A d \in Begun(k) : stage[d] = "calling" =>
                  /\ messages[d] = sessions[k]
                  /\ heap[sessions[k]][Len(heap[sessions[k]])] = Asked(d))'
            BY <3>5, <3>6, <3>7, <3>10 DEF Asked, Message
        <3> QED BY <1>12, <3>6, <3>8, <3>9, <3>11
    <2>3. AgentsOnly(k)' => AgentsOnly(k)
        BY <1>1 DEF AgentsOnly
    <2> QED BY <2>2, <2>3 DEF LockedOK
<1>15. \A k \in Keys : LockedOK(k)'
    BY <1>13, <1>14
<1> QED BY <1>4, <1>7, <1>15 DEF TurnsRest

LEMMA AgentReplyKeeps ==
    ASSUME TurnsInd, MutexInv', NEW c \in Calls, AgentReply(c)
    PROVE  TurnsRest'
<1>0. /\ TurnsTypeOK /\ MutexInv /\ OwnersOK /\ StagesOK /\ LengthsOK
      /\ c \in Turns /\ c \notin Chats /\ Key(c) = keyOf[c] /\ keyOf[c] \in Keys
    BY TurnFacts DEF TurnsInd
<1>1. /\ stage[c] = "calling" /\ stage' = [stage EXCEPT ![c] = "replied"]
      /\ heap' = [heap EXCEPT ![messages[c]] = Append(heap[messages[c]], Replied(c))]
      /\ working' = [working EXCEPT ![c] = <<>>]
      /\ chatKey' = chatKey /\ sessions' = sessions /\ messages' = messages
      /\ canUseLLM' = canUseLLM /\ rounds' = rounds
    BY DEF AgentReply, Replied
<1>2. pc' = pc /\ keyOf' = keyOf /\ stamp' = stamp
    BY DEF AgentReply, mutexVars
<1>3. /\ pc \in [Calls -> Stages] /\ stage \in [Turns -> TurnStages]
      /\ keyOf \in [Calls -> Keys] /\ sessions \in [Keys -> Arrays \cup {NoArray}]
      /\ heap \in [Arrays -> Seq(Messages)] /\ messages \in [Turns -> Arrays \cup {NoArray}]
      /\ working \in [Turns -> Seq(Messages)] /\ chatKey \in [Chats -> Keys]
      /\ canUseLLM \in BOOLEAN /\ rounds \in [Chats -> 0..MaxRounds]
    BY <1>0 DEF TurnsTypeOK, TypeOK
<1>4. PICK a \in Arrays : a = messages[c] /\ Key(a[1]) = keyOf[c] /\ Len(heap[a]) <= HardCap + 1
    BY <1>0, <1>1, <1>3 DEF OwnersOK, LengthsOK
<1>5. PICK g \in Seq(Messages) : /\ g = Append(heap[a], Replied(c)) /\ Len(g) <= HardCap + 2 /\ Len(g) \in Nat
                                 /\ ContextsSecond(g)
    <2>1. heap[a] \in Seq(Messages) /\ Len(heap[a]) \in Nat /\ Replied(c) \in Messages
        BY <1>0, <1>3, Voices, LenProperties
    <2>2. Append(heap[a], Replied(c)) \in Seq(Messages) /\ Len(Append(heap[a], Replied(c))) = Len(heap[a]) + 1
        BY <2>1, AppendProperties
    <2>3. \A n \in Nat : n <= HardCap + 1 => n + 1 <= HardCap + 2 /\ n + 1 \in Nat
        BY BoundFacts
    <2>4. Len(Append(heap[a], Replied(c))) <= HardCap + 2 /\ Len(Append(heap[a], Replied(c))) \in Nat
        BY <1>4, <2>1, <2>2, <2>3
    <2>5. ContextsSecond(Append(heap[a], Replied(c)))
        BY <1>0, <2>1, Voices, AppendContexts DEF LengthsOK
    <2> QED BY <2>2, <2>4, <2>5
<1>6. heap' = [heap EXCEPT ![a] = g]
    BY <1>1, <1>4, <1>5
<1>7. \A d \in Calls : d \in Turns
    BY DEF Turns
<1>8. Turns' = Turns /\ Arrays' = Arrays /\ Messages' = Messages /\ \A x : Key(x)' = Key(x)
    BY <1>1, <1>2 DEF Turns, Arrays, Messages, Key
<1>9. TurnsTypeOK'
    <2>1. TypeOK'
        BY DEF MutexInv
    <2>2. stage' \in [Turns -> TurnStages]
        BY <1>1, <1>3 DEF TurnStages
    <2>3. heap' \in [Arrays -> Seq(Messages)]
        BY <1>3, <1>6
    <2>4. working' \in [Turns -> Seq(Messages)]
        <3>1. <<>> \in Seq(Messages)
            OBVIOUS
        <3> QED BY <1>1, <1>3, <3>1
    <2> QED BY <1>1, <1>3, <1>8, <2>1, <2>2, <2>3, <2>4 DEF TurnsTypeOK
<1>10. StagesOK'
    BY <1>0, <1>1, <1>2, <1>3, <1>7 DEF StagesOK
<1>11. OwnersOK'
    <2>1. \A t \in Turns : stage'[t] = "calling" => stage[t] = "calling"
        BY <1>1, <1>3
    <2>2. \A t \in Turns : stage[t] = "replied" => stage'[t] = "replied"
        BY <1>1, <1>3
    <2>3. (\A k \in Keys : sessions[k] # NoArray => Key(sessions[k][1]) = k)'
        BY <1>0, <1>1, <1>8 DEF OwnersOK
    <2>4. (\A x \in Turns : messages[x] # NoArray => Key(messages[x][1]) = Key(x))'
        BY <1>0, <1>1, <1>8 DEF OwnersOK
    <2> QED BY <1>0, <1>1, <1>8, <2>1, <2>2, <2>3, <2>4 DEF OwnersOK
<1>12. LengthsOK'
    <2>1. \A x \in Arrays : Len(heap'[x]) <= Longest /\ ContextsSecond(heap'[x])
        <3>1. Len(g) <= Longest
            <4> HIDE DEF Longest
            <4> QED BY <1>5, BoundFacts
        <3>2. \A x \in Arrays : heap'[x] = g \/ heap'[x] = heap[x]
            BY <1>3, <1>6
        <3> QED BY <1>0, <1>5, <3>1, <3>2 DEF LengthsOK
    <2>2. ASSUME NEW d \in Calls, stage'[d] = "calling"
          PROVE  Len(heap'[messages'[d]]) <= HardCap + 1
        <3>1. d # c /\ stage[d] = "calling"
            BY <1>1, <1>3, <1>7, <2>2
        <3>2. messages[d] \in Arrays /\ Key(messages[d][1]) = keyOf[d]
            BY <1>0, <1>3, <1>7, <3>1, TurnFacts DEF OwnersOK
        <3>3. pc[d] = "running" /\ pc[c] = "running"
            BY <1>0, <1>1, <3>1 DEF StagesOK
        <3>4. keyOf[d] # keyOf[c]
            BY <1>0, <3>1, <3>3, OnlyOneRuns DEF MutualExclusion
        <3>5. messages[d] # a
            BY <1>4, <3>2, <3>4
        <3>6. heap'[messages[d]] = heap[messages[d]]
            BY <1>3, <1>6, <3>2, <3>5
        <3> QED BY <1>0, <1>1, <3>1, <3>6 DEF LengthsOK
    <2>3. ASSUME NEW r \in Chats, stage'[r] = "calling"
          PROVE  WorkingOK(r)'
        <3>1. r \in Turns /\ r # c
            BY <1>0 DEF Turns
        <3>2. stage[r] = "calling" /\ working'[r] = working[r]
            BY <1>1, <1>3, <2>3, <3>1
        <3>3. WorkingOK(r)
            BY <1>0, <3>2 DEF LengthsOK
        <3> QED BY <1>1, <3>2, <3>3, WorkingSame
    <2>4. (\A x \in Arrays : Len(heap[x]) <= Longest /\ ContextsSecond(heap[x]))'
        BY <1>8, <2>1, ContextsNext
    <2> QED BY <2>2, <2>3, <2>4 DEF LengthsOK
<1>13. Order' = Order
    BY <1>2 DEF Order, Ahead, Made
<1>14. \A k \in Keys : Begun(k)' = Begun(k)
    BY <1>1, <1>2, <1>3, <1>7 DEF Begun
<1>15. \A k \in Keys : Answered(k)' = IF k = keyOf[c] THEN Answered(k) \cup {c} ELSE Answered(k)
    BY <1>1, <1>2, <1>3, <1>7 DEF Begun, Answered
<1>16. ASSUME NEW k \in Keys, k # keyOf[c]
       PROVE  LockedOK(k)'
    <2>1. LockedOK(k)
        BY DEF TurnsInd
    <2>2. sessions'[k] = sessions[k]
        BY <1>1
    <2>3. sessions[k] # NoArray => heap'[sessions[k]] = heap[sessions[k]]
        BY <1>3, <1>4, <1>6, <1>16, OtherSessions
    <2>4. \A d \in Begun(k) : d # c /\ d \in Turns
        BY <1>7, <1>16 DEF Begun
    <2>5. \A d \in Begun(k) : stage'[d] = "calling" => stage[d] = "calling" /\ messages'[d] = messages[d]
        BY <1>1, <1>3, <2>4
    <2> QED BY <1>1, <1>13, <1>14, <1>15, <1>16, <2>1, <2>2, <2>3, <2>5, LockedFrame
<1>17. ASSUME NEW k \in Keys, k = keyOf[c]
       PROVE  LockedOK(k)'
    <2>1. ASSUME AgentsOnly(k)
          PROVE  /\ sessions'[k] # NoArray
                 /\ (Threads(heap[sessions[k]], Begun(k), Answered(k), Order))'
                 /\ (\E d \in Begun(k) : In(Asked(d), heap[sessions[k]]))'
                 /\ (\A d \in Begun(k) : stage[d] = "calling" =>
                       /\ messages[d] = sessions[k]
                       /\ heap[sessions[k]][Len(heap[sessions[k]])] = Asked(d))'
        <3> DEFINE h == heap[a]
                   B == Begun(k)
                   R == Answered(k)
        <3>1. c \in B
            BY <1>1, <1>17 DEF Begun
        <3>2. LockedOK(k)
            BY DEF TurnsInd
        <3>3. sessions[k] = a /\ a # NoArray
            BY <1>0, <1>1, <1>4, <2>1, <3>1, <3>2, TurnFacts DEF LockedOK
        <3>4. Threads(h, B, R, Order) /\ h[Len(h)] = Asked(c) /\ \E d \in B : In(Asked(d), h)
            BY <1>1, <2>1, <3>1, <3>2, <3>3 DEF LockedOK
        <3>5. B \in SUBSET Turns
            BY <1>7 DEF Begun
        <3>6. Begun(k)' = B /\ Answered(k)' = R \cup {c}
            BY <1>14, <1>15, <1>17
        <3>7. sessions'[k] = a /\ heap'[sessions'[k]] = g
            BY <1>1, <1>3, <1>6, <3>3
        <3>8. g = Append(h, Replied(c))
            BY <1>5
        <3>9. \A m : In(m, h) => In(m, g)
            <4>1. heap[a] \in Seq(Messages) /\ Replied(c) \in Messages /\ Len(heap[a]) \in Nat
                BY <1>0, <1>3, Voices, LenProperties
            <4> HIDE DEF h
            <4>2. h \in Seq(Messages) /\ Len(h) \in Nat
                BY <4>1 DEF h
            <4>3. Len(g) = Len(h) + 1 /\ \A i \in 1..Len(h) : g[i] = h[i]
                BY <3>8, <4>1, <4>2, AppendProperties
            <4>4. \A i \in 1..Len(h) : i \in 1..Len(g)
                BY <4>2, <4>3
            <4> QED BY <4>3, <4>4 DEF In
        <3> HIDE DEF h, B, R
        <3>10. Threads(g, B, R \cup {c}, Order)
            BY <1>0, <3>1, <3>4, <3>5, <3>8, OrderAsymmetric, PushReply
        <3>11. (Threads(heap[sessions[k]], Begun(k), Answered(k), Order))'
            BY <1>13, <3>6, <3>7, <3>10, ThreadsNext
        <3>12. \E d \in B : In(Asked(d), g)
            BY <3>4, <3>9
        <3>13. (\E d \in Begun(k) : In(Asked(d), heap[sessions[k]]))'
            BY <3>6, <3>7, <3>12 DEF In, Asked, Message
        <3>14. \A d \in B : stage'[d] # "calling"
            <4> SUFFICES ASSUME NEW d \in B, stage'[d] = "calling"  PROVE FALSE
                OBVIOUS
            <4>1. d \in Calls /\ keyOf[d] = keyOf[c]
                BY <1>17 DEF B, Begun
            <4>2. d # c /\ stage[d] = "calling"
                BY <1>1, <1>3, <1>7, <4>1
            <4>3. pc[d] = "running" /\ pc[c] = "running"
                BY <1>0, <1>1, <4>1, <4>2 DEF StagesOK
            <4> QED BY <1>0, <4>1, <4>2, <4>3, OnlyOneRuns DEF MutualExclusion
        <3>15. (\A d \in Begun(k) : stage[d] = "calling" =>
                  /\ messages[d] = sessions[k]
                  /\ heap[sessions[k]][Len(heap[sessions[k]])] = Asked(d))'
            BY <3>6, <3>14
        <3> QED BY <3>3, <3>7, <3>11, <3>13, <3>15
    <2>2. AgentsOnly(k)' => AgentsOnly(k)
        BY <1>1 DEF AgentsOnly
    <2> QED BY <2>1, <2>2 DEF LockedOK
<1>18. \A k \in Keys : LockedOK(k)'
    BY <1>16, <1>17
<1> QED BY <1>9, <1>10, <1>11, <1>12, <1>18 DEF TurnsRest

LEMMA ChatBeginKeeps ==
    ASSUME TurnsInd, MutexInv', NEW r \in Chats, ChatBegin(r)
    PROVE  TurnsRest'
<1>0. /\ TurnsTypeOK /\ MutexInv /\ OwnersOK /\ StagesOK
      /\ r \in Turns /\ r \notin Calls /\ Key(r) = chatKey[r] /\ chatKey[r] \in Keys
    BY TurnFacts DEF TurnsInd
<1>1. /\ stage[r] = "new" /\ stage' = [stage EXCEPT ![r] = "calling"] /\ chatKey' = chatKey
      /\ canUseLLM' = canUseLLM /\ rounds' = rounds
      /\ pc' = pc /\ keyOf' = keyOf /\ stamp' = stamp
    BY DEF ChatBegin, mutexVars
<1>2. PICK found : /\ found = NoArray \/ found = sessions[chatKey[r]]
                   /\ LoadAndPush(r, found)
    BY DEF ChatBegin
<1>3. TurnsTypeOK' /\ OwnersOK' /\ LengthsOK'
    BY <1>0, <1>1, <1>2, BeginKeeps
<1>4. /\ pc \in [Calls -> Stages] /\ stage \in [Turns -> TurnStages]
      /\ keyOf \in [Calls -> Keys] /\ sessions \in [Keys -> Arrays \cup {NoArray}]
      /\ heap \in [Arrays -> Seq(Messages)] /\ messages \in [Turns -> Arrays \cup {NoArray}]
    BY <1>0 DEF TurnsTypeOK, TypeOK
<1>5. \A d \in Calls : d \in Turns /\ d # r
    BY <1>0 DEF Turns
<1>6. StagesOK'
    BY <1>0, <1>1, <1>4, <1>5 DEF StagesOK
<1>7. Order' = Order
    BY <1>1 DEF Order, Ahead, Made
<1>8. \A k \in Keys : Begun(k)' = Begun(k) /\ Answered(k)' = Answered(k)
    BY <1>1, <1>4, <1>5 DEF Begun, Answered
<1>9. PICK arr \in Arrays, pushed \in Seq(Messages) :
        /\ heap' = [heap EXCEPT ![arr] = pushed]
        /\ sessions' = [sessions EXCEPT ![Key(r)] = arr]
        /\ messages' = [messages EXCEPT ![r] = arr]
        /\ arr = <<r, "base">> \/ (arr = found /\ found # NoArray)
    <2>1. found \in Arrays \cup {NoArray} /\ (found # NoArray => ContextsSecond(heap[found]))
        BY <1>0, <1>2, <1>4 DEF TurnsInd, LengthsOK
    <2>2. \E arr \in Arrays : \E pushed \in Seq(Messages) :
             /\ heap' = [heap EXCEPT ![arr] = pushed]
             /\ sessions' = [sessions EXCEPT ![Key(r)] = arr]
             /\ messages' = [messages EXCEPT ![r] = arr]
             /\ working' = [working EXCEPT ![r] = pushed]
             /\ Len(pushed) <= HardCap + 1 /\ Len(pushed) >= 1 /\ ContextsSecond(pushed)
             /\ arr = <<r, "base">> \/ (arr = found /\ found # NoArray)
             /\ found = NoArray => pushed = Append(<<Message("system", r)>>, Asked(r))
             /\ found # NoArray => pushed = Append(Trimmed(heap[found]), Asked(r))
        BY <1>0, <1>2, <2>1, Loaded
    <2> QED BY <2>2
<1>10. Key(arr[1]) = chatKey[r]
    BY <1>0, <1>2, <1>4, <1>9, TurnFacts DEF OwnersOK
<1>11. ASSUME NEW k \in Keys
       PROVE  LockedOK(k)'
    <2>1. LockedOK(k)
        BY DEF TurnsInd
    <2>2. AgentsOnly(k) => k # chatKey[r]
        BY DEF AgentsOnly
    <2>3. AgentsOnly(k) => sessions'[k] = sessions[k]
        BY <1>0, <1>4, <1>9, <2>2
    <2>4. AgentsOnly(k) => (sessions[k] # NoArray => heap'[sessions[k]] = heap[sessions[k]])
        BY <1>4, <1>9, <1>10, <2>2, OtherSessions
    <2>5. \A d \in Begun(k) : d # r /\ d \in Turns
        BY <1>5 DEF Begun
    <2>6. \A d \in Begun(k) : stage'[d] = "calling" => stage[d] = "calling" /\ messages'[d] = messages[d]
        BY <1>1, <1>4, <1>9, <2>5
    <2> QED BY <1>1, <1>7, <1>8, <2>1, <2>3, <2>4, <2>6, LockedFrame
<1> QED BY <1>3, <1>6, <1>11 DEF TurnsRest

LEMMA ChatCommitKeeps ==
    ASSUME TurnsInd, MutexInv', NEW r \in Chats, ChatCommit(r)
    PROVE  TurnsRest'
<1>0. /\ TurnsTypeOK /\ MutexInv /\ OwnersOK /\ StagesOK /\ LengthsOK
      /\ r \in Turns /\ r \notin Calls /\ Key(r) = chatKey[r] /\ chatKey[r] \in Keys
    BY TurnFacts DEF TurnsInd
<1>1. /\ stage[r] = "calling" /\ stage' = [stage EXCEPT ![r] = "replied"]
      /\ sessions' = [sessions EXCEPT ![chatKey[r]] = <<r, "commit">>]
      /\ working' = [working EXCEPT ![r] = <<>>]
      /\ chatKey' = chatKey /\ messages' = messages
      /\ pc' = pc /\ keyOf' = keyOf /\ stamp' = stamp
      /\ canUseLLM' = canUseLLM /\ rounds' = rounds
    BY DEF ChatCommit, mutexVars
<1>2. PICK said \in Endings(r) : heap' = [heap EXCEPT ![<<r, "commit">>] = working[r] \o said]
    BY DEF ChatCommit
<1>3. /\ pc \in [Calls -> Stages] /\ stage \in [Turns -> TurnStages]
      /\ keyOf \in [Calls -> Keys] /\ sessions \in [Keys -> Arrays \cup {NoArray}]
      /\ heap \in [Arrays -> Seq(Messages)] /\ messages \in [Turns -> Arrays \cup {NoArray}]
      /\ working \in [Turns -> Seq(Messages)] /\ chatKey \in [Chats -> Keys]
      /\ canUseLLM \in BOOLEAN /\ rounds \in [Chats -> 0..MaxRounds]
    BY <1>0 DEF TurnsTypeOK, TypeOK
<1>4. PICK a \in Arrays : a = <<r, "commit">> /\ Key(a[1]) = chatKey[r] /\ a # NoArray
    BY <1>0, TurnFacts
<1>5. PICK g \in Seq(Messages) :
        g = working[r] \o said /\ Len(g) <= Longest /\ Len(g) \in Nat /\ ContextsSecond(g)
    <2> DEFINE grown == rounds[r] * RoundSize
    <2>1. /\ said \in Seq(Messages) /\ Len(said) \in Nat
          /\ HardCap + 2 + grown + Len(said) <= Longest
          /\ \A i \in 1..Len(said) : said[i].role # "context"
        BY <1>0, <1>2, EndingsFit, LenProperties
    <2>2. /\ working[r] \in Seq(Messages) /\ Len(working[r]) \in Nat
          /\ Len(working[r]) <= HardCap + 2 + grown /\ ContextsSecond(working[r])
        BY <1>0, <1>1, <1>3, LenProperties DEF LengthsOK, WorkingOK
    <2>3. working[r] \o said \in Seq(Messages) /\ Len(working[r] \o said) = Len(working[r]) + Len(said)
        BY <2>1, <2>2, ConcatProperties
    <2>4. ContextsSecond(working[r] \o said)
        BY <2>1, <2>2, ConcatContexts
    <2>5. grown \in Nat /\ HardCap \in Nat /\ Longest \in Nat
        BY <1>0, <1>3, BoundFacts
    <2> HIDE DEF grown, Longest
    <2>6. Len(working[r]) + Len(said) <= Longest /\ Len(working[r]) + Len(said) \in Nat
        BY <2>1, <2>2, <2>5
    <2> QED BY <2>3, <2>4, <2>6
<1>6. heap' = [heap EXCEPT ![a] = g] /\ sessions' = [sessions EXCEPT ![chatKey[r]] = a]
    BY <1>1, <1>2, <1>4, <1>5
<1>7. \A d \in Calls : d \in Turns /\ d # r
    BY <1>0 DEF Turns
<1>8. Turns' = Turns /\ Arrays' = Arrays /\ Messages' = Messages /\ \A x : Key(x)' = Key(x)
    BY <1>1 DEF Turns, Arrays, Messages, Key
<1>9. TurnsTypeOK'
    <2>1. TypeOK'
        BY DEF MutexInv
    <2>2. stage' \in [Turns -> TurnStages]
        BY <1>1, <1>3 DEF TurnStages
    <2>3. heap' \in [Arrays -> Seq(Messages)]
        BY <1>3, <1>6
    <2>4. working' \in [Turns -> Seq(Messages)]
        <3>1. <<>> \in Seq(Messages)
            OBVIOUS
        <3> QED BY <1>1, <1>3, <3>1
    <2>5. sessions' \in [Keys -> Arrays \cup {NoArray}]
        BY <1>3, <1>6
    <2> QED BY <1>1, <1>3, <1>8, <2>1, <2>2, <2>3, <2>4, <2>5 DEF TurnsTypeOK
<1>10. StagesOK'
    BY <1>0, <1>1, <1>3, <1>7 DEF StagesOK
<1>11. OwnersOK'
    <2>1. \A t \in Turns : stage'[t] = "calling" => stage[t] = "calling"
        BY <1>1, <1>3
    <2>2. \A t \in Turns : stage[t] = "replied" \/ t = r => stage'[t] = "replied"
        BY <1>1, <1>3
    <2>3. (\A k \in Keys : sessions[k] # NoArray => Key(sessions[k][1]) = k)'
        <3>1. \A k \in Keys : sessions'[k] # NoArray => Key(sessions'[k][1]) = k
            BY <1>0, <1>3, <1>4, <1>6 DEF OwnersOK
        <3> QED BY <1>8, <3>1
    <2>4. (\A x \in Turns : messages[x] # NoArray => Key(messages[x][1]) = Key(x))'
        BY <1>0, <1>1, <1>8 DEF OwnersOK
    <2>5. \A t \in Turns, k \in Keys : sessions'[k] = <<t, "commit">> => stage'[t] = "replied"
        <3> SUFFICES ASSUME NEW t \in Turns, NEW k \in Keys, sessions'[k] = <<t, "commit">>
                     PROVE  stage[t] = "replied" \/ t = r
            BY <2>2
        <3>1. sessions'[k] = sessions[k] \/ sessions'[k] = <<r, "commit">>
            BY <1>1, <1>3
        <3>2. <<t, "commit">> = <<r, "commit">> => t = r
            OBVIOUS
        <3> QED BY <1>0, <3>1, <3>2 DEF OwnersOK
    <2> QED BY <1>0, <1>1, <1>8, <2>1, <2>2, <2>3, <2>4, <2>5 DEF OwnersOK
<1>12. LengthsOK'
    <2>1. \A x \in Arrays : Len(heap'[x]) <= Longest /\ ContextsSecond(heap'[x])
        <3>1. \A x \in Arrays : heap'[x] = g \/ heap'[x] = heap[x]
            BY <1>3, <1>6
        <3> QED BY <1>0, <1>5, <3>1 DEF LengthsOK
    <2>2. ASSUME NEW d \in Calls, stage'[d] = "calling"
          PROVE  Len(heap'[messages'[d]]) <= HardCap + 1
        <3>1. stage[d] = "calling"
            BY <1>1, <1>3, <1>7, <2>2
        <3>2. messages[d] \in Arrays /\ messages[d] # a
            BY <1>0, <1>1, <1>3, <1>4, <1>7, <3>1 DEF OwnersOK
        <3>3. heap'[messages[d]] = heap[messages[d]]
            BY <1>3, <1>6, <3>2
        <3> QED BY <1>0, <1>1, <3>1, <3>3 DEF LengthsOK
    <2>3. ASSUME NEW x \in Chats, stage'[x] = "calling"
          PROVE  WorkingOK(x)'
        <3>1. x \in Turns
            BY DEF Turns
        <3>2. x # r /\ stage[x] = "calling"
            BY <1>1, <1>3, <2>3, <3>1
        <3>3. working'[x] = working[x]
            BY <1>1, <1>3, <3>1, <3>2
        <3>4. WorkingOK(x)
            BY <1>0, <3>2 DEF LengthsOK
        <3> QED BY <1>1, <3>3, <3>4, WorkingSame
    <2>4. (\A x \in Arrays : Len(heap[x]) <= Longest /\ ContextsSecond(heap[x]))'
        BY <1>8, <2>1, ContextsNext
    <2> QED BY <2>2, <2>3, <2>4 DEF LengthsOK
<1>13. Order' = Order
    BY <1>1 DEF Order, Ahead, Made
<1>14. \A k \in Keys : Begun(k)' = Begun(k) /\ Answered(k)' = Answered(k)
    BY <1>1, <1>3, <1>7 DEF Begun, Answered
<1>15. ASSUME NEW k \in Keys
       PROVE  LockedOK(k)'
    <2>1. LockedOK(k)
        BY DEF TurnsInd
    <2>2. AgentsOnly(k) => k # chatKey[r]
        BY DEF AgentsOnly
    <2>3. AgentsOnly(k) => sessions'[k] = sessions[k]
        BY <1>3, <1>6, <2>2
    <2>4. AgentsOnly(k) => (sessions[k] # NoArray => heap'[sessions[k]] = heap[sessions[k]])
        BY <1>3, <1>4, <1>6, <2>2, OtherSessions
    <2>5. \A d \in Begun(k) : d # r /\ d \in Turns
        BY <1>7 DEF Begun
    <2>6. \A d \in Begun(k) : stage'[d] = "calling" => stage[d] = "calling" /\ messages'[d] = messages[d]
        BY <1>1, <1>3, <2>5
    <2> QED BY <1>1, <1>13, <1>14, <2>1, <2>3, <2>4, <2>6, LockedFrame
<1> QED BY <1>9, <1>10, <1>11, <1>12, <1>15 DEF TurnsRest

(* Discovery and a tool round only change the copy of one /chat turn.      *)
LEMMA CopyKeeps ==
    ASSUME TurnsInd, MutexInv', NEW r \in Chats, stage[r] = "calling",
           NEW w \in Seq(Messages), working' = [working EXCEPT ![r] = w], WorkingOK(r)',
           rounds' \in [Chats -> 0..MaxRounds], \A x \in Chats : x # r => rounds'[x] = rounds[x],
           UNCHANGED <<mutexVars, canUseLLM, chatKey, stage, sessions, heap, messages>>
    PROVE  TurnsRest'
<1>0. TurnsTypeOK /\ StagesOK /\ OwnersOK /\ LengthsOK
    BY DEF TurnsInd
<1>1. /\ Turns' = Turns /\ Arrays' = Arrays /\ Messages' = Messages
      /\ \A x : Key(x)' = Key(x)
      /\ pc' = pc /\ keyOf' = keyOf /\ stamp' = stamp
    BY DEF Turns, Arrays, Messages, Key, mutexVars
<1>2. TurnsTypeOK'
    <2>1. TypeOK'
        BY DEF MutexInv
    <2>2. working' \in [Turns -> Seq(Messages)]
        BY <1>0 DEF TurnsTypeOK
    <2> QED BY <1>0, <1>1, <2>1, <2>2 DEF TurnsTypeOK
<1>3. StagesOK'
    BY <1>0, <1>1 DEF StagesOK
<1>4. OwnersOK'
    <2>1. (\A k \in Keys : sessions[k] # NoArray => Key(sessions[k][1]) = k)'
        BY <1>0, <1>1 DEF OwnersOK
    <2>2. (\A x \in Turns : messages[x] # NoArray => Key(messages[x][1]) = Key(x))'
        BY <1>0, <1>1 DEF OwnersOK
    <2> QED BY <1>0, <1>1, <2>1, <2>2 DEF OwnersOK
<1>5. LengthsOK'
    <2>1. (\A x \in Arrays : Len(heap[x]) <= Longest /\ ContextsSecond(heap[x]))'
        BY <1>0, <1>1, ContextsNext DEF LengthsOK
    <2>2. (\A c \in Calls : stage[c] = "calling" => Len(heap[messages[c]]) <= HardCap + 1)'
        BY <1>0 DEF LengthsOK
    <2>3. ASSUME NEW x \in Chats, stage'[x] = "calling"
          PROVE  WorkingOK(x)'
        <3>1. CASE x = r
            BY <3>1
        <3>2. CASE x # r
            <4>1. x \in Turns /\ stage[x] = "calling"
                BY <2>3 DEF Turns
            <4>2. working'[x] = working[x] /\ rounds'[x] = rounds[x]
                BY <1>0, <3>2, <4>1 DEF TurnsTypeOK
            <4>3. WorkingOK(x)
                BY <1>0, <4>1 DEF LengthsOK
            <4> QED BY <4>2, <4>3 DEF WorkingOK, ContextsSecond, Message, RoundSize
        <3> QED BY <3>1, <3>2
    <2> QED BY <2>1, <2>2, <2>3 DEF LengthsOK
<1>6. Order' = Order
    BY <1>1 DEF Order, Ahead, Made
<1>7. \A k \in Keys : Begun(k)' = Begun(k) /\ Answered(k)' = Answered(k)
    BY <1>1 DEF Begun, Answered
<1>8. ASSUME NEW k \in Keys
      PROVE  LockedOK(k)'
    <2>1. LockedOK(k)
        BY DEF TurnsInd
    <2> QED BY <1>6, <1>7, <2>1, LockedFrame
<1> QED BY <1>2, <1>3, <1>4, <1>5, <1>8 DEF TurnsRest

LEMMA ChatRoundKeeps ==
    ASSUME TurnsInd, MutexInv', NEW r \in Chats, ChatRound(r)
    PROVE  TurnsRest'
<1>0. /\ TurnsTypeOK /\ r \in Turns /\ stage[r] = "calling" /\ rounds[r] < MaxRounds /\ WorkingOK(r)
      /\ working \in [Turns -> Seq(Messages)] /\ rounds \in [Chats -> 0..MaxRounds]
      /\ MaxRounds \in Nat
    BY TurnsAssumption DEF TurnsInd, LengthsOK, TurnsTypeOK, ChatRound, Turns
<1>1. PICK n \in 1..MaxToolCalls : working' = [working EXCEPT ![r] = working[r] \o Round(r, n, n)]
    BY DEF ChatRound
<1> DEFINE rd == Round(r, n, n)
           w == working[r] \o rd
           m == rounds[r]
<1>2. /\ rounds' = [rounds EXCEPT ![r] = m + 1] /\ m \in 0..MaxRounds /\ m + 1 \in 0..MaxRounds
      /\ UNCHANGED <<mutexVars, canUseLLM, chatKey, stage, sessions, heap, messages>>
    BY <1>0 DEF ChatRound
<1>3. rd \in Seq(Messages) /\ Len(rd) = 1 + n /\ \A i \in 1..Len(rd) : rd[i].role # "context"
    BY <1>0, RoundIs
<1>4. /\ working[r] \in Seq(Messages) /\ Len(working[r]) \in Nat /\ Len(working[r]) >= 1
      /\ ContextsSecond(working[r]) /\ Len(working[r]) <= HardCap + 2 + m * RoundSize
    BY <1>0, LenProperties DEF WorkingOK
<1> HIDE DEF rd
<1>5. w \in Seq(Messages) /\ Len(w) = Len(working[r]) + Len(rd) /\ ContextsSecond(w)
    BY <1>3, <1>4, ConcatProperties, ConcatContexts
<1>6. Len(w) >= 1 /\ Len(w) <= HardCap + 2 + (m + 1) * RoundSize
    <2> DEFINE grown == m * RoundSize
    <2>1. (m + 1) * RoundSize = grown + RoundSize /\ RoundSize = MaxToolCalls + 1
        BY <1>2, BoundFacts DEF RoundSize
    <2>2. grown \in Nat /\ HardCap \in Nat /\ MaxToolCalls \in Nat
        BY <1>2, BoundFacts
    <2>3. Len(working[r]) \in Nat /\ Len(working[r]) >= 1 /\ Len(working[r]) <= HardCap + 2 + grown
        BY <1>4
    <2>4. Len(rd) = 1 + n /\ n \in Nat /\ n <= MaxToolCalls
        BY <1>3, <2>2
    <2>5. Len(w) = Len(working[r]) + Len(rd)
        BY <1>5
    <2> HIDE DEF grown, w
    <2>6. Len(w) >= 1 /\ Len(w) <= HardCap + 2 + (grown + (MaxToolCalls + 1))
        <3> DEFINE before == Len(working[r])
                   after == Len(w)
        <3>1. /\ before \in Nat /\ before >= 1 /\ before <= HardCap + 2 + grown
              /\ n \in Nat /\ n <= MaxToolCalls /\ after = before + (1 + n)
            BY <2>3, <2>4, <2>5
        <3> HIDE DEF before, after
        <3>2. after >= 1 /\ after <= HardCap + 2 + (grown + (MaxToolCalls + 1))
            BY <2>2, <3>1
        <3> QED BY <3>2 DEF after
    <2> QED BY <2>1, <2>6
<1>7. working'[r] = w /\ rounds'[r] = m + 1 /\ rounds'[r] # 0
    BY <1>0, <1>1, <1>2 DEF rd
<1>8. working' = [working EXCEPT ![r] = w]
    BY <1>1 DEF rd
<1> HIDE DEF w, m
<1>9. WorkingOK(r)'
    BY <1>5, <1>6, <1>7 DEF WorkingOK, ContextsSecond, RoundSize
<1>10. rounds' \in [Chats -> 0..MaxRounds] /\ \A x \in Chats : x # r => rounds'[x] = rounds[x]
    BY <1>0, <1>2
<1> QED BY <1>0, <1>2, <1>5, <1>8, <1>9, <1>10, CopyKeeps

(* The context takes the place of the older one, or one more.              *)
LEMMA ContextReplacedIs ==
    ASSUME NEW r \in Turns, NEW h \in Seq(Messages), Len(h) >= 1, ContextsSecond(h)
    PROVE  LET w == ContextReplaced(h, r) IN
           /\ w \in Seq(Messages) /\ Len(w) >= 1 /\ Len(w) <= Len(h) + 1
           /\ w[2] = Message("context", r) /\ ContextsSecond(w)
<1> DEFINE older == IF h[2].role = "context" THEN 2 ELSE 1
           two == <<Head(h), Message("context", r)>>
           rest == SubSeq(h, older + 1, Len(h))
           w == two \o rest
<1>0. Len(h) \in Nat /\ h[1] \in Messages /\ Head(h) = h[1] /\ h[1].role # "context"
    BY LenProperties, ElementOfSeq DEF ContextsSecond
<1>1. Message("context", r) \in Messages
    <2>1. 0 \in 0..MaxToolCalls
        BY TurnsAssumption
    <2> QED BY <2>1 DEF Message, Messages
<1>2. two \in Seq(Messages) /\ Len(two) = 2 /\ two[1] = h[1] /\ two[2] = Message("context", r)
    BY <1>0, <1>1
<1>3. older \in {1, 2} /\ (older = 1 => h[2].role # "context")
    OBVIOUS
<1>4. ContextReplaced(h, r) = w
    BY DEF ContextReplaced
<1> HIDE DEF two, older
<1>5. \A i \in (older + 1)..Len(h) : i \in 1..Len(h)
    BY <1>0, <1>3
<1>6. \A i \in (older + 1)..Len(h) : h[i] \in Messages /\ h[i].role # "context"
    <2> TAKE i \in (older + 1)..Len(h)
    <2>1. i \in 1..Len(h) /\ h[i] \in Messages
        BY <1>5, ElementOfSeq
    <2>2. i # 2 \/ older = 1
        BY <1>0, <1>3
    <2> QED BY <1>3, <2>1, <2>2 DEF ContextsSecond
<1>7. /\ rest \in Seq(Messages)
      /\ Len(rest) = IF older + 1 <= Len(h) THEN Len(h) - (older + 1) + 1 ELSE 0
      /\ \A i \in 1..(Len(h) - (older + 1) + 1) : rest[i] = h[older + 1 + i - 1]
    <2> DEFINE a == older + 1
               b == Len(h)
    <2>1. a \in Int /\ b \in Int /\ \A i \in a..b : h[i] \in Messages
        BY <1>0, <1>3, <1>6
    <2> HIDE DEF a, b
    <2>2. /\ SubSeq(h, a, b) \in Seq(Messages)
          /\ Len(SubSeq(h, a, b)) = IF a <= b THEN b - a + 1 ELSE 0
          /\ \A i \in 1..(b - a + 1) : SubSeq(h, a, b)[i] = h[a + i - 1]
        BY <2>1, SubSeqProperties
    <2> QED BY <2>2 DEF a, b
<1> HIDE DEF rest
<1>8. Len(rest) \in Nat /\ Len(rest) <= Len(h) - 1
    BY <1>0, <1>3, <1>7
<1>9. \A i \in 1..Len(rest) : rest[i].role # "context"
    <2> TAKE i \in 1..Len(rest)
    <2>1. older + 1 <= Len(h) /\ i \in 1..(Len(h) - (older + 1) + 1)
        BY <1>0, <1>3, <1>7, <1>8
    <2>2. older + 1 + i - 1 \in (older + 1)..Len(h)
        BY <1>0, <1>3, <2>1
    <2> QED BY <1>6, <1>7, <2>1, <2>2
<1>10. ContextsSecond(two)
    <2>1. \A i \in 1..2 : i = 1 \/ i = 2
        OBVIOUS
    <2> QED BY <1>0, <1>2, <2>1 DEF ContextsSecond
<1>11. ContextsSecond(w)
    BY <1>2, <1>7, <1>9, <1>10, ConcatContexts
<1>12. /\ w \in Seq(Messages) /\ Len(w) = 2 + Len(rest)
       /\ \A i \in 1..(2 + Len(rest)) : w[i] = IF i <= 2 THEN two[i] ELSE rest[i - 2]
    <2>1. /\ two \o rest \in Seq(Messages) /\ Len(two \o rest) = Len(two) + Len(rest)
          /\ \A i \in 1..(Len(two) + Len(rest)) :
               (two \o rest)[i] = IF i <= Len(two) THEN two[i] ELSE rest[i - Len(two)]
        BY <1>2, <1>7, ConcatProperties
    <2> QED BY <1>2, <2>1
<1>13. w[2] = Message("context", r)
    <2>1. 2 \in 1..(2 + Len(rest)) /\ 2 <= 2
        BY <1>8
    <2> QED BY <1>2, <1>12, <2>1
<1> HIDE DEF w
<1> QED BY <1>0, <1>4, <1>8, <1>11, <1>12, <1>13

LEMMA ChatDiscoverKeeps ==
    ASSUME TurnsInd, MutexInv', NEW r \in Chats, ChatDiscover(r)
    PROVE  TurnsRest'
<1>0. /\ TurnsTypeOK /\ r \in Turns /\ stage[r] = "calling" /\ WorkingOK(r)
      /\ working \in [Turns -> Seq(Messages)] /\ rounds \in [Chats -> 0..MaxRounds]
    BY DEF TurnsInd, LengthsOK, TurnsTypeOK, ChatDiscover, Turns
<1> DEFINE w == ContextReplaced(working[r], r)
<1>1. /\ working' = [working EXCEPT ![r] = w] /\ rounds' = rounds /\ rounds[r] = 0
      /\ working[r][2] # Message("context", r)
      /\ UNCHANGED <<mutexVars, canUseLLM, chatKey, stage, sessions, heap, messages>>
    BY DEF ChatDiscover
<1>2. /\ working[r] \in Seq(Messages) /\ Len(working[r]) \in Nat /\ Len(working[r]) >= 1
      /\ ContextsSecond(working[r]) /\ Len(working[r]) <= HardCap + 1
    BY <1>0, <1>1, LenProperties DEF WorkingOK
<1>3. /\ w \in Seq(Messages) /\ Len(w) >= 1 /\ Len(w) <= Len(working[r]) + 1
      /\ w[2] = Message("context", r) /\ ContextsSecond(w)
    BY <1>0, <1>2, ContextReplacedIs
<1> HIDE DEF w
<1>4. Len(w) \in Nat /\ HardCap \in Nat
    BY <1>3, LenProperties, TurnsAssumption
<1>5. Len(w) <= HardCap + 2 + 0 * RoundSize
    <2>1. 0 * RoundSize = 0
        BY TurnsAssumption DEF RoundSize
    <2> QED BY <1>2, <1>3, <1>4, <2>1
<1>6. working'[r] = w
    BY <1>0, <1>1
<1>7. WorkingOK(r)'
    BY <1>1, <1>3, <1>5, <1>6, WorkingNext
<1> QED BY <1>0, <1>1, <1>3, <1>7, CopyKeeps

(* Queueing, refusing, failing and leaving touch no array.                 *)
LEMMA QuietKeeps ==
    ASSUME TurnsInd, MutexInv', StagesOK',
           chatKey' = chatKey, keyOf' = keyOf, sessions' = sessions, heap' = heap, messages' = messages,
           canUseLLM' = canUseLLM, rounds' = rounds,
           stage' \in [Turns -> TurnStages],
           working' \in [Turns -> Seq(Messages)],
           \A t \in Turns : /\ stage'[t] \in {"new", "refused"} <=> stage[t] \in {"new", "refused"}
                            /\ stage'[t] = "replied" <=> stage[t] = "replied"
                            /\ stage'[t] = "calling" => stage[t] = "calling" /\ working'[t] = working[t],
           \A c \in Calls : stage[c] \notin {"new", "refused"} => Made(c)' /\ stamp'[c] = stamp[c]
    PROVE  TurnsRest'
<1>0. TurnsTypeOK /\ StagesOK /\ OwnersOK /\ LengthsOK
    BY DEF TurnsInd
<1>1. Turns' = Turns /\ Arrays' = Arrays /\ Messages' = Messages /\ \A x : Key(x)' = Key(x)
    BY DEF Turns, Arrays, Messages, Key
<1>2. \A c \in Calls : c \in Turns
    BY DEF Turns
<1>2a. \A c \in Chats : c \in Turns
    BY DEF Turns
<1>3. TurnsTypeOK'
    BY <1>0, <1>1 DEF TurnsTypeOK, MutexInv
<1>4. OwnersOK'
    <2>1. (\A k \in Keys : sessions[k] # NoArray => Key(sessions[k][1]) = k)'
        BY <1>0, <1>1 DEF OwnersOK
    <2>2. (\A x \in Turns : messages[x] # NoArray => Key(messages[x][1]) = Key(x))'
        BY <1>0, <1>1 DEF OwnersOK
    <2> QED BY <1>0, <1>1, <2>1, <2>2 DEF OwnersOK
<1>5. LengthsOK'
    <2>1. (\A x \in Arrays : Len(heap[x]) <= Longest /\ ContextsSecond(heap[x]))'
        BY <1>0, <1>1, ContextsNext DEF LengthsOK
    <2>2. (\A c \in Calls : stage[c] = "calling" => Len(heap[messages[c]]) <= HardCap + 1)'
        BY <1>0, <1>2 DEF LengthsOK
    <2>3. ASSUME NEW r \in Chats, stage'[r] = "calling"
          PROVE  WorkingOK(r)'
        <3>1. stage[r] = "calling" /\ working'[r] = working[r] /\ WorkingOK(r)
            BY <1>0, <1>2a, <2>3 DEF LengthsOK
        <3> QED BY <3>1, WorkingSame
    <2> QED BY <2>1, <2>2, <2>3 DEF LengthsOK
<1>6. \A k \in Keys : Begun(k)' = Begun(k) /\ Answered(k)' = Answered(k)
    BY <1>2 DEF Begun, Answered
<1>7. ASSUME NEW k \in Keys
      PROVE  LockedOK(k)'
    <2>1. LockedOK(k)
        BY DEF TurnsInd
    <2>2. \A c \in Begun(k) : c \in Calls /\ c \in Turns /\ stage[c] \notin {"new", "refused"}
        BY <1>2 DEF Begun
    <2>3. \A c \in Begun(k) : Made(c) /\ Made(c)' /\ stamp'[c] = stamp[c]
        <3>1. \A c \in Calls : stage[c] # "new" => pc[c] # "idle"
            BY <1>0 DEF StagesOK
        <3> QED BY <2>2, <3>1 DEF Made
    <2>4. \A c, d \in Begun(k) : <<c, d>> \in Order <=> <<c, d>> \in Order'
        BY <2>2, <2>3 DEF Order, Ahead
    <2>5. \A d \in Begun(k) : stage'[d] = "calling" => stage[d] = "calling" /\ messages'[d] = messages[d]
        BY <2>2
    <2> QED BY <1>6, <2>1, <2>4, <2>5, LockedFrame
<1> QED BY <1>3, <1>4, <1>5, <1>7 DEF TurnsRest

LEMMA RunAgentTurnKeeps ==
    ASSUME TurnsInd, MutexInv', NEW c \in Calls, RunAgentTurn(c)
    PROVE  TurnsRest'
<1>0. TurnsTypeOK /\ StagesOK /\ MutexInv
    BY DEF TurnsInd
<1>1. /\ pc[c] = "idle" /\ pc' = [pc EXCEPT ![c] = "waiting"]
      /\ stamp' = [stamp EXCEPT ![c] = arrivals] /\ keyOf' = keyOf
      /\ chatKey' = chatKey /\ stage' = stage /\ sessions' = sessions /\ heap' = heap
      /\ messages' = messages /\ working' = working
      /\ canUseLLM' = canUseLLM /\ rounds' = rounds
    BY DEF RunAgentTurn, Enqueue, histVars
<1>2. pc \in [Calls -> Stages] /\ stamp \in [Calls -> Nat]
    BY <1>0 DEF MutexInv, TypeOK
<1>3. stage[c] = "new"
    BY <1>0, <1>1 DEF StagesOK
<1>4. StagesOK'
    BY <1>0, <1>1, <1>2 DEF StagesOK
<1>5. \A d \in Calls : stage[d] # "new" => Made(d)' /\ stamp'[d] = stamp[d]
    BY <1>0, <1>1, <1>2, <1>3 DEF StagesOK, Made
<1>6. /\ stage' \in [Turns -> TurnStages]
      /\ working' \in [Turns -> Seq(Messages)]
    BY <1>0, <1>1 DEF TurnsTypeOK
<1> QED BY <1>1, <1>4, <1>5, <1>6, QuietKeeps

LEMMA FailKeeps ==
    ASSUME TurnsInd, MutexInv', NEW t \in Turns, stage[t] = "calling",
           stage' = [stage EXCEPT ![t] = "failed"], working' = [working EXCEPT ![t] = <<>>],
           UNCHANGED <<mutexVars, canUseLLM, chatKey, sessions, heap, messages, rounds>>
    PROVE  TurnsRest'
<1>0. TurnsTypeOK /\ StagesOK
    BY DEF TurnsInd
<1>1. stage \in [Turns -> TurnStages] /\ working \in [Turns -> Seq(Messages)]
    BY <1>0 DEF TurnsTypeOK
<1>2. pc' = pc /\ keyOf' = keyOf /\ stamp' = stamp
    BY DEF mutexVars
<1>3. \A c \in Calls : c \in Turns
    BY DEF Turns
<1>4. StagesOK'
    BY <1>0, <1>1, <1>2, <1>3 DEF StagesOK
<1>5. \A d \in Calls : stage[d] # "new" => Made(d)' /\ stamp'[d] = stamp[d]
    BY <1>0, <1>2 DEF StagesOK, Made
<1>6. working' \in [Turns -> Seq(Messages)]
    <2>1. <<>> \in Seq(Messages)
        OBVIOUS
    <2> QED BY <1>1, <2>1
<1>7. stage' \in [Turns -> TurnStages]
    BY <1>1 DEF TurnStages
<1>8. \A x \in Turns : /\ stage'[x] \in {"new", "refused"} <=> stage[x] \in {"new", "refused"}
                       /\ stage'[x] = "replied" <=> stage[x] = "replied"
                       /\ stage'[x] = "calling" => stage[x] = "calling" /\ working'[x] = working[x]
    BY <1>1
<1> QED BY <1>2, <1>4, <1>5, <1>6, <1>7, <1>8, QuietKeeps

LEMMA AgentRefuseKeeps ==
    ASSUME TurnsInd, MutexInv', NEW c \in Calls, AgentRefuse(c)
    PROVE  TurnsRest'
<1>0. TurnsTypeOK /\ StagesOK /\ MutexInv /\ c \in Turns
    BY DEF TurnsInd, Turns
<1>1. /\ pc[c] = "waiting" /\ pc' = [pc EXCEPT ![c] = "running"]
      /\ stamp' = stamp /\ keyOf' = keyOf
      /\ stage' = [stage EXCEPT ![c] = "refused"]
      /\ chatKey' = chatKey /\ sessions' = sessions /\ heap' = heap
      /\ messages' = messages /\ working' = working
      /\ canUseLLM' = canUseLLM /\ rounds' = rounds
    BY DEF AgentRefuse, Start
<1>2. pc \in [Calls -> Stages] /\ stage \in [Turns -> TurnStages] /\ stage[c] = "new"
    BY <1>0, <1>1 DEF MutexInv, TypeOK, TurnsTypeOK, StagesOK
<1>2a. \A d \in Calls : d \in Turns
    BY DEF Turns
<1>3. StagesOK'
    BY <1>0, <1>1, <1>2, <1>2a DEF StagesOK
<1>4. \A d \in Calls : stage[d] \notin {"new", "refused"} => Made(d)' /\ stamp'[d] = stamp[d]
    BY <1>0, <1>1, <1>2 DEF StagesOK, Made
<1>5. /\ stage' \in [Turns -> TurnStages]
      /\ working' \in [Turns -> Seq(Messages)]
    BY <1>0, <1>1, <1>2 DEF TurnsTypeOK, TurnStages
<1>6. \A x \in Turns : /\ stage'[x] \in {"new", "refused"} <=> stage[x] \in {"new", "refused"}
                       /\ stage'[x] = "replied" <=> stage[x] = "replied"
                       /\ stage'[x] = "calling" => stage[x] = "calling" /\ working'[x] = working[x]
    BY <1>1, <1>2
<1> QED BY <1>1, <1>3, <1>4, <1>5, <1>6, QuietKeeps

LEMMA AgentLeaveKeeps ==
    ASSUME TurnsInd, MutexInv', NEW c \in Calls, AgentLeave(c)
    PROVE  TurnsRest'
<1>0. TurnsTypeOK /\ StagesOK /\ MutexInv
    BY DEF TurnsInd
<1>1. /\ stage[c] \in {"replied", "failed", "refused"}
      /\ pc[c] = "running" /\ pc' = [pc EXCEPT ![c] = "done"]
      /\ stamp' = stamp /\ keyOf' = keyOf
      /\ chatKey' = chatKey /\ stage' = stage /\ sessions' = sessions /\ heap' = heap
      /\ messages' = messages /\ working' = working
      /\ canUseLLM' = canUseLLM /\ rounds' = rounds
    BY DEF AgentLeave, Release, histVars
<1>2. pc \in [Calls -> Stages]
    BY <1>0 DEF MutexInv, TypeOK
<1>3. StagesOK'
    BY <1>0, <1>1, <1>2 DEF StagesOK
<1>4. \A d \in Calls : stage[d] # "new" => Made(d)' /\ stamp'[d] = stamp[d]
    BY <1>0, <1>1, <1>2 DEF StagesOK, Made
<1>5. /\ stage' \in [Turns -> TurnStages]
      /\ working' \in [Turns -> Seq(Messages)]
    BY <1>0, <1>1 DEF TurnsTypeOK
<1> QED BY <1>1, <1>3, <1>4, <1>5, QuietKeeps

LEMMA StandStill ==
    ASSUME TurnsInd, MutexInv', UNCHANGED vars
    PROVE  TurnsRest'
<1>0. TurnsTypeOK /\ StagesOK
    BY DEF TurnsInd
<1>1. /\ pc' = pc /\ stamp' = stamp /\ keyOf' = keyOf
      /\ chatKey' = chatKey /\ stage' = stage /\ sessions' = sessions /\ heap' = heap
      /\ messages' = messages /\ working' = working
      /\ canUseLLM' = canUseLLM /\ rounds' = rounds
    BY DEF vars, mutexVars, histVars
<1>2. StagesOK'
    BY <1>0, <1>1 DEF StagesOK
<1>3. \A d \in Calls : stage[d] # "new" => Made(d)' /\ stamp'[d] = stamp[d]
    BY <1>0, <1>1 DEF StagesOK, Made
<1>4. /\ stage' \in [Turns -> TurnStages]
      /\ working' \in [Turns -> Seq(Messages)]
    BY <1>0, <1>1 DEF TurnsTypeOK
<1> QED BY <1>1, <1>2, <1>3, <1>4, QuietKeeps

LEMMA TurnsStep == TurnsInd /\ [TurnsNext]_vars => TurnsInd'
<1> SUFFICES ASSUME TurnsInd, [TurnsNext]_vars  PROVE TurnsInd'
    OBVIOUS
<1>0. MutexInv'
    BY MutexStep DEF TurnsInd
<1>1. TurnsRest'
    <2>1. ASSUME NEW c \in Calls, RunAgentTurn(c)  PROVE TurnsRest'
        BY <1>0, <2>1, RunAgentTurnKeeps
    <2>2. ASSUME NEW c \in Calls, AgentBegin(c)  PROVE TurnsRest'
        BY <1>0, <2>2, AgentBeginKeeps
    <2>3. ASSUME NEW c \in Calls, AgentReply(c)  PROVE TurnsRest'
        BY <1>0, <2>3, AgentReplyKeeps
    <2>4. ASSUME NEW c \in Calls, AgentFail(c)  PROVE TurnsRest'
        <3>1. c \in Turns
            BY DEF Turns
        <3> QED BY <1>0, <2>4, <3>1, FailKeeps DEF AgentFail
    <2>5. ASSUME NEW c \in Calls, AgentLeave(c)  PROVE TurnsRest'
        BY <1>0, <2>5, AgentLeaveKeeps
    <2>6. ASSUME NEW r \in Chats, ChatBegin(r)  PROVE TurnsRest'
        BY <1>0, <2>6, ChatBeginKeeps
    <2>7. ASSUME NEW r \in Chats, ChatCommit(r)  PROVE TurnsRest'
        BY <1>0, <2>7, ChatCommitKeeps
    <2>8. ASSUME NEW r \in Chats, ChatFail(r)  PROVE TurnsRest'
        <3>1. r \in Turns
            BY DEF Turns
        <3> QED BY <1>0, <2>8, <3>1, FailKeeps DEF ChatFail
    <2>9. ASSUME NEW c \in Calls, AgentRefuse(c)  PROVE TurnsRest'
        BY <1>0, <2>9, AgentRefuseKeeps
    <2>10. ASSUME NEW r \in Chats, ChatDiscover(r)  PROVE TurnsRest'
        BY <1>0, <2>10, ChatDiscoverKeeps
    <2>11. ASSUME NEW r \in Chats, ChatRound(r)  PROVE TurnsRest'
        BY <1>0, <2>11, ChatRoundKeeps
    <2>12. CASE UNCHANGED vars
        BY <1>0, <2>12, StandStill
    <2> QED BY <2>1, <2>2, <2>3, <2>4, <2>5, <2>6, <2>7, <2>8, <2>9, <2>10, <2>11, <2>12 DEF TurnsNext
<1> QED BY <1>0, <1>1 DEF TurnsInd, TurnsRest

LEMMA TurnsStart == TurnsInit => TurnsInd
<1> SUFFICES ASSUME TurnsInit  PROVE TurnsInd
    OBVIOUS
<1>1. MutexInv
    BY InitMutexInv DEF TurnsInit
<1>2. /\ chatKey \in [Chats -> Keys]
      /\ stage = [t \in Turns |-> "new"] /\ sessions = [k \in Keys |-> NoArray]
      /\ heap = [a \in Arrays |-> <<>>] /\ messages = [t \in Turns |-> NoArray]
      /\ working = [t \in Turns |-> <<>>] /\ pc = [c \in Calls |-> "idle"]
      /\ canUseLLM \in BOOLEAN /\ rounds = [r \in Chats |-> 0]
    BY DEF TurnsInit, Init
<1>3. <<>> \in Seq(Messages) /\ Len(<<>>) = 0
    OBVIOUS
<1>4. TurnsTypeOK
    <2>1. heap \in [Arrays -> Seq(Messages)] /\ working \in [Turns -> Seq(Messages)]
        BY <1>2, <1>3
    <2>2. stage \in [Turns -> TurnStages] /\ rounds \in [Chats -> 0..MaxRounds]
        <3>1. 0 \in 0..MaxRounds
            BY TurnsAssumption
        <3> QED BY <1>2, <3>1 DEF TurnStages
    <2>3. sessions \in [Keys -> Arrays \cup {NoArray}] /\ messages \in [Turns -> Arrays \cup {NoArray}]
        BY <1>2
    <2> QED BY <1>1, <1>2, <2>1, <2>2, <2>3 DEF TurnsTypeOK, MutexInv
<1>5. \A t \in Turns : stage[t] = "new"
    BY <1>2
<1>5a. \A c \in Calls : c \in Turns
    BY DEF Turns
<1>5b. \A c \in Chats : c \in Turns
    BY DEF Turns
<1>6. StagesOK
    BY <1>2, <1>5, <1>5a DEF StagesOK
<1>7. OwnersOK
    <2>1. \A r \in Turns : <<r, "commit">> # NoArray
        BY <1>4, TurnFacts
    <2> QED BY <1>2, <1>5, <2>1 DEF OwnersOK
<1>8. LengthsOK
    <2>1. \A a \in Arrays : Len(heap[a]) = 0 /\ ContextsSecond(heap[a])
        <3>1. 1..0 = {}
            OBVIOUS
        <3> QED BY <1>2, <1>3, <3>1 DEF ContextsSecond
    <2>2. 0 <= Longest
        <3> HIDE DEF Longest
        <3> QED BY BoundFacts
    <2> QED BY <1>5, <1>5a, <1>5b, <2>1, <2>2 DEF LengthsOK
<1>9. \A k \in Keys : LockedOK(k)
    <2>1. \A k \in Keys : Begun(k) = {} /\ sessions[k] = NoArray
        BY <1>2, <1>5, <1>5a DEF Begun
    <2> QED BY <2>1 DEF LockedOK
<1> QED BY <1>1, <1>4, <1>6, <1>7, <1>8, <1>9 DEF TurnsInd

LEMMA TurnsInvariant == TurnsSpec => []TurnsInd
BY TurnsStart, TurnsStep, PTL DEF TurnsSpec

(* On a session that only agent turns use - runAgentTurn of agent-turn.ts, *)
(* under the session's lock - every reply stands directly behind the       *)
(* message it answers, and trimming loses the oldest turns first.          *)
THEOREM LockedTurnsStayWhole == TurnsSpec => []LockedTurnsKept
<1>1. TurnsInd => LockedTurnsKept
    <2> SUFFICES ASSUME TurnsInd  PROVE LockedTurnsKept
        OBVIOUS
    <2>1. ASSUME NEW k \in Keys, AgentsOnly(k)
          PROVE  /\ \A i \in 3..Len(History(k)) :
                      LET m == History(k)[i] IN
                      m.role = "assistant" => History(k)[i - 1] = Message("user", m.turn)
                 /\ \A c, d \in Begun(k) :
                      Ahead(c, d) /\ Says(k, Message("user", c)) => Says(k, Message("user", d))
                 /\ Begun(k) # {} => \E c \in Begun(k) : Says(k, Message("user", c))
                 /\ \A c \in Begun(k) :
                      Says(k, Message("user", c)) /\ stage[c] = "replied"
                      => Says(k, Message("assistant", c))
        <3>1. LockedOK(k)
            BY DEF TurnsInd
        <3>2. CASE sessions[k] = NoArray
            <4>1. Begun(k) = {} /\ History(k) = <<>>
                BY <2>1, <3>1, <3>2 DEF LockedOK, History
            <4>2. 3..Len(History(k)) = {}
                BY <4>1
            <4> QED BY <4>1, <4>2
        <3>3. CASE sessions[k] # NoArray
            <4> DEFINE h == heap[sessions[k]]
            <4>1. /\ Threads(h, Begun(k), Answered(k), Order)
                  /\ \E c \in Begun(k) : In(Asked(c), h)
                BY <2>1, <3>1, <3>3 DEF LockedOK
            <4>2. History(k) = h
                BY <3>3 DEF History
            <4> HIDE DEF h
            <4>3. \A m : Says(k, m) <=> In(m, h)
                BY <4>2 DEF Says, In
            <4>4. \A c, d \in Begun(k) : Ahead(c, d) => <<c, d>> \in Order
                BY DEF Order, Begun
            <4>5. \A c \in Begun(k) : stage[c] = "replied" => c \in Answered(k)
                BY DEF Answered
            <4>6. \A i \in 3..Len(h) : h[i].role = "assistant" => h[i - 1] = Asked(h[i].turn)
                BY <4>1 DEF Threads
            <4>7. \A c, d \in Begun(k) : Ahead(c, d) /\ In(Asked(c), h) => In(Asked(d), h)
                BY <4>1, <4>4 DEF Threads
            <4>8. \A c \in Begun(k) : In(Asked(c), h) /\ stage[c] = "replied" => In(Replied(c), h)
                BY <4>1, <4>5 DEF Threads
            <4> QED BY <4>1, <4>2, <4>3, <4>6, <4>7, <4>8 DEF Asked, Replied
        <3> QED BY <3>2, <3>3
    <2>2. ReplyAnswersItsMessage
        BY <2>1 DEF ReplyAnswersItsMessage
    <2>3. NoTurnLost
        BY <2>1 DEF NoTurnLost
    <2> QED BY <2>2, <2>3 DEF LockedTurnsKept
<1> QED BY <1>1, TurnsInvariant, PTL

(* Whatever interleaving of agent turns and POST /chat requests (chat.ts)  *)
(* a session sees, its history never outgrows the cap by more than one     *)
(* turn's messages - its own, a capability context, maxRounds rounds and   *)
(* the reply - and never carries an older turn's context further down.     *)
THEOREM HistoriesStayBounded == TurnsSpec => []HistoryBounded
<1>1. TurnsInd => HistoryBounded
    <2> SUFFICES ASSUME TurnsInd, NEW k \in Keys
                 PROVE  Len(History(k)) <= Longest /\ ContextsSecond(History(k))
        BY DEF HistoryBounded
    <2>1. CASE sessions[k] = NoArray
        <3>1. Len(History(k)) = 0 /\ 1..0 = {}
            BY <2>1 DEF History
        <3>2. 0 <= Longest
            <4> HIDE DEF Longest
            <4> QED BY BoundFacts
        <3> QED BY <3>1, <3>2 DEF ContextsSecond
    <2>2. CASE sessions[k] # NoArray
        <3>1. sessions[k] \in Arrays
            BY <2>2 DEF TurnsInd, TurnsTypeOK
        <3> QED BY <2>2, <3>1 DEF TurnsInd, LengthsOK, History
    <2> QED BY <2>1, <2>2
<1> QED BY <1>1, TurnsInvariant, PTL

-----------------------------------------------------------------------------
(* Adaptive execution, for any scopes, turns, window and thresholds.       *)

KpiEntries == [n : Nat, score : Scores]

(* InOrder for a window of a scope with r outcomes recorded.               *)
Ordered(w, r) ==
    /\ w \in Seq(KpiEntries)
    /\ Len(w) <= rollingWindowSize
    /\ \A i \in 1..Len(w) : w[i].n \in 1..r
    /\ \A i, j \in 1..Len(w) : i < j => w[i].n < w[j].n

(* The newest k entries of a window are successes, degraded or not.        *)
EndsWell(w, k) == \A i \in 1..Len(w) : i + k > Len(w) => w[i].score >= 85

LEMMA OrderedIs ==
    ASSUME NEW w \in Windows, NEW s \in Scopes
    PROVE  Ordered(w, recorded[s]) <=> InOrder(w, s)
<1>1. DOMAIN w = 1..Len(w) /\ w \in Seq(KpiEntries)
    BY LenProperties DEF Windows, KpiEntries
<1> QED BY <1>1 DEF Ordered, InOrder

LEMMA OrderedStays ==
    ASSUME NEW r \in Nat, NEW w, Ordered(w, r)
    PROVE  Ordered(w, r + 1)
<1>1. \A n \in 1..r : n \in 1..(r + 1)
    OBVIOUS
<1> QED BY <1>1 DEF Ordered

LEMMA NothingRecorded ==
    ASSUME NEW r
    PROVE  Ordered(<<>>, r)
<1>1. <<>> \in Seq(KpiEntries) /\ Len(<<>>) = 0 /\ 0 <= rollingWindowSize /\ 1..0 = {}
    BY AdaptiveAssumption
<1> QED BY <1>1 DEF Ordered

LEMMA NotTooLong ==
    ASSUME NEW r, NEW w, Ordered(w, r)
    PROVE  Rolled(w) = w
<1>1. Len(w) \in Nat /\ rollingWindowSize \in Nat /\ Len(w) <= rollingWindowSize
    BY AdaptiveAssumption DEF Ordered
<1> QED BY <1>1 DEF Rolled

(* recordTurnOutcome's window: the new entry is last, the oldest goes.     *)
LEMMA OutcomeAppended ==
    ASSUME NEW r \in Nat, NEW w, Ordered(w, r), NEW k \in Nat, EndsWell(w, k),
           NEW e \in KpiEntries, e.n = r + 1
    PROVE  /\ Ordered(Rolled(Append(w, e)), r + 1)
           /\ EndsWell(Rolled(Append(w, e)), IF e.score >= 85 THEN k + 1 ELSE 0)
<1> DEFINE a == Append(w, e)
           m == Len(w)
           h == IF e.score >= 85 THEN k + 1 ELSE 0
<1>1. /\ w \in Seq(KpiEntries) /\ m \in Nat /\ m <= rollingWindowSize
      /\ rollingWindowSize \in Nat \ {0}
      /\ \A i \in 1..m : w[i].n \in 1..r /\ w[i] \in KpiEntries
      /\ \A i, j \in 1..m : i < j => w[i].n < w[j].n
    BY AdaptiveAssumption, ElementOfSeq, LenProperties DEF Ordered
<1>2. /\ a \in Seq(KpiEntries) /\ Len(a) = m + 1
      /\ \A i \in 1..m : a[i] = w[i]
      /\ a[m + 1] = e
    BY <1>1, AppendProperties
<1> HIDE DEF a, m
<1>3. \A i \in 1..(m + 1) : i \in 1..m \/ i = m + 1
    BY <1>1
<1>4. \A i \in 1..(m + 1) : a[i].n \in 1..(r + 1)
    BY <1>1, <1>2, <1>3
<1>5. \A i, j \in 1..(m + 1) : i < j => a[i].n < a[j].n
    <2> SUFFICES ASSUME NEW i \in 1..(m + 1), NEW j \in 1..(m + 1), i < j
                 PROVE  a[i].n < a[j].n
        OBVIOUS
    <2>1. i \in 1..m
        BY <1>1
    <2>2. CASE j \in 1..m
        BY <1>1, <1>2, <2>1, <2>2
    <2>3. CASE j = m + 1
        <3>1. w[i].n \in 1..r /\ a[i] = w[i] /\ a[j] = e
            BY <1>1, <1>2, <2>1, <2>3
        <3> QED BY <3>1
    <2> QED BY <1>3, <2>2, <2>3
<1>6. \A i \in 1..(m + 1) : i + h > m + 1 => a[i].score >= 85
    <2> SUFFICES ASSUME NEW i \in 1..(m + 1), i + h > m + 1
                 PROVE  a[i].score >= 85
        OBVIOUS
    <2>1. e.score >= 85 /\ h = k + 1
        BY <1>1
    <2>2. CASE i = m + 1
        BY <1>2, <2>1, <2>2
    <2>3. CASE i \in 1..m
        <3>1. i + k > m
            BY <1>1, <2>1
        <3>2. w[i].score >= 85
            BY <2>3, <3>1 DEF EndsWell, m
        <3> QED BY <1>2, <2>3, <3>2
    <2> QED BY <1>3, <2>2, <2>3
<1> HIDE DEF h
<1>h. h \in Nat
    BY DEF h
<1>7. CASE m + 1 <= rollingWindowSize
    <2>1. Rolled(a) = a
        BY <1>1, <1>2, <1>7 DEF Rolled
    <2>2. Ordered(a, r + 1)
        BY <1>2, <1>4, <1>5, <1>7 DEF Ordered
    <2>3. EndsWell(a, h)
        BY <1>2, <1>6 DEF EndsWell
    <2> QED BY <2>1, <2>2, <2>3 DEF a, h
<1>8. CASE ~ (m + 1 <= rollingWindowSize)
    <2> DEFINE v == SubSeq(a, 2, m + 1)
    <2>1. m = rollingWindowSize
        BY <1>1, <1>8
    <2>2. Rolled(a) = v
        <3>1. (m + 1) - rollingWindowSize + 1 = 2 /\ Len(a) > rollingWindowSize
            BY <1>1, <1>2, <2>1
        <3> QED BY <1>2, <3>1 DEF Rolled
    <2>3. /\ v \in Seq(KpiEntries) /\ Len(v) = m
          /\ \A i \in 1..m : v[i] = a[i + 1]
        <3>1. \A i \in 2..(m + 1) : a[i] \in KpiEntries
            BY <1>1, <1>2, ElementOfSeq
        <3>2. m + 1 \in Int /\ 2 <= m + 1 /\ (m + 1) - 2 + 1 = m /\ \A i \in 1..m : 2 + i - 1 = i + 1
            BY <1>1, <2>1
        <3>3. /\ v \in Seq(KpiEntries) /\ Len(v) = IF 2 <= m + 1 THEN (m + 1) - 2 + 1 ELSE 0
              /\ \A i \in 1..((m + 1) - 2 + 1) : v[i] = a[2 + i - 1]
            BY <3>1, <3>2, SubSeqProperties
        <3> HIDE DEF v
        <3> QED BY <3>2, <3>3
    <2> HIDE DEF v
    <2>4. \A i \in 1..m : i + 1 \in 1..(m + 1)
        BY <1>1
    <2>5. \A i \in 1..m : v[i].n \in 1..(r + 1)
        BY <1>4, <2>3, <2>4
    <2>6. \A i, j \in 1..m : i < j => v[i].n < v[j].n
        <3> SUFFICES ASSUME NEW i \in 1..m, NEW j \in 1..m, i < j
                     PROVE  v[i].n < v[j].n
            OBVIOUS
        <3>1. i + 1 < j + 1
            BY <1>1
        <3> QED BY <1>5, <2>3, <2>4, <3>1
    <2>7. \A i \in 1..m : i + h > m => v[i].score >= 85
        <3> SUFFICES ASSUME NEW i \in 1..m, i + h > m  PROVE v[i].score >= 85
            OBVIOUS
        <3>1. (i + 1) + h > m + 1
            BY <1>1, <1>h
        <3> QED BY <1>6, <2>3, <2>4, <3>1
    <2>8. m <= rollingWindowSize
        BY <1>1
    <2>9. Ordered(v, r + 1)
        BY <2>3, <2>5, <2>6, <2>8 DEF Ordered
    <2>10. EndsWell(v, h)
        BY <2>3, <2>7 DEF EndsWell
    <2> QED BY <2>2, <2>9, <2>10 DEF a, h
<1> QED BY <1>7, <1>8

-----------------------------------------------------------------------------
AdaptiveTypes ==
    /\ postgres \in BOOLEAN /\ connected \in BOOLEAN
    /\ kpiWindows \in [Scopes -> Windows] /\ rows \in [Scopes -> Windows]
    /\ progress \in [Samples -> {"new", "turn", "querying", "writing", "saved", "done"}]
    /\ payload \in [Samples -> Windows]
    /\ scopeOf \in [Samples -> Scopes] /\ degraded \in [Samples -> BOOLEAN]
    /\ recorded \in [Scopes -> Nat] /\ streak \in [Scopes -> Nat] /\ unsaved \in [Scopes -> BOOLEAN]
    /\ alerted \in [Scopes -> BOOLEAN]
    /\ alerts \in [Scopes -> Nat] /\ cooldowns \in [Scopes -> Nat]

WindowsOK ==
    \A s \in Scopes :
        /\ Ordered(kpiWindows[s], recorded[s]) /\ Ordered(rows[s], recorded[s])
        /\ EndsWell(kpiWindows[s], streak[s])

PayloadsOK == \A o \in Samples : Ordered(payload[o], recorded[scopeOf[o]])

InSave(o) == progress[o] \in {"querying", "writing"}

(* Only postgres saves in two steps.  A save under way that nothing has    *)
(* overtaken is alone and carries the window in memory.                    *)
SavesOK ==
    /\ \A o \in Samples : InSave(o) => postgres
    /\ \A s \in Scopes : ~ unsaved[s] =>
         /\ \A o \in Samples : scopeOf[o] = s /\ InSave(o) =>
              /\ payload[o] = kpiWindows[s]
              /\ \A p \in Samples : scopeOf[p] = s /\ InSave(p) => p = o
         /\ (\A o \in Samples : scopeOf[o] = s => ~ InSave(o)) => rows[s] = kpiWindows[s]

AlertsOK == \A s \in Scopes : AlertsSpaced(s)

AdaptiveInd == AdaptiveTypes /\ WindowsOK /\ PayloadsOK /\ SavesOK /\ AlertsOK

LEMMA NobodySaves ==
    ASSUME NEW s \in Scopes
    PROVE  Saving(s) = {} <=> \A o \in Samples : scopeOf[o] = s => ~ InSave(o)
BY DEF Saving, InSave

LEMMA ScoresRange ==
    ASSUME NEW outcome \in Outcomes, NEW weak \in BOOLEAN
    PROVE  /\ Score(outcome, weak) \in Scores /\ Score(outcome, weak) \in 0..95
           /\ outcome = "success" <=> Score(outcome, weak) >= 85
<1>1. outcome \in {"failed", "nothing", "partial", "success"}
    BY AdaptiveAssumption
<1>2. CASE outcome = "failed"
    BY <1>2 DEF Score, Scores
<1>3. CASE outcome = "nothing"
    BY <1>3 DEF Score, Scores
<1>4. CASE outcome = "partial"
    BY <1>4 DEF Score, Scores
<1>5. CASE outcome = "success"
    BY <1>5 DEF Score, Scores
<1> QED BY <1>1, <1>2, <1>3, <1>4, <1>5

LEMMA AdaptiveInitially == AdaptiveInit => AdaptiveInd
<1> SUFFICES ASSUME AdaptiveInit  PROVE AdaptiveInd
    OBVIOUS
<1>1. <<>> \in Windows
    BY DEF Windows
<1>2. AdaptiveTypes
    BY <1>1 DEF AdaptiveInit, AdaptiveTypes
<1>3. \A s \in Scopes : kpiWindows[s] = <<>> /\ rows[s] = <<>>
    BY DEF AdaptiveInit
<1>4. \A o \in Samples : payload[o] = <<>> /\ progress[o] = "new"
    BY DEF AdaptiveInit
<1>5. \A r, k : EndsWell(<<>>, k) /\ Ordered(<<>>, r)
    BY NothingRecorded DEF EndsWell
<1>6. WindowsOK
    BY <1>3, <1>5 DEF WindowsOK
<1>7. PayloadsOK
    BY <1>4, <1>5 DEF PayloadsOK
<1>8. SavesOK
    BY <1>3, <1>4 DEF SavesOK, InSave
<1>9. AlertsOK
    BY DEF AlertsOK, AlertsSpaced, AdaptiveInit
<1> QED BY <1>2, <1>6, <1>7, <1>8, <1>9 DEF AdaptiveInd

LEMMA TurnStartsKeeps ==
    ASSUME AdaptiveInd, NEW o \in Samples, TurnStarts(o)
    PROVE  AdaptiveInd'
<1>1. PICK forced \in BOOLEAN, tie \in BOOLEAN :
        /\ degraded' = [degraded EXCEPT ![o] = forced /\ BelowTarget(scopeOf[o], tie)]
        /\ progress[o] = "new" /\ progress' = [progress EXCEPT ![o] = "turn"]
        /\ UNCHANGED <<postgres, connected, kpiVars, scopeOf, payload, alertVars>>
    BY DEF TurnStarts, Proceeds
<1>2. (forced /\ BelowTarget(scopeOf[o], tie)) \in BOOLEAN
    BY DEF BelowTarget
<1>3. AdaptiveTypes'
    BY <1>1, <1>2 DEF AdaptiveTypes, AdaptiveInd, kpiVars, alertVars
<1>4. WindowsOK' /\ PayloadsOK' /\ AlertsOK'
    BY <1>1 DEF WindowsOK, PayloadsOK, AlertsOK, AlertsSpaced, AdaptiveInd, kpiVars, alertVars
<1>5. \A p \in Samples : InSave(p)' <=> InSave(p)
    BY <1>1 DEF InSave, AdaptiveInd, AdaptiveTypes
<1>6. SavesOK'
    BY <1>1, <1>5 DEF SavesOK, AdaptiveInd, kpiVars
<1> QED BY <1>3, <1>4, <1>6 DEF AdaptiveInd

LEMMA TurnEndsKeeps ==
    ASSUME AdaptiveInd, NEW o \in Samples, TurnEnds(o)
    PROVE  AdaptiveInd'
<1> DEFINE s == scopeOf[o]
           r == recorded[s]
           direct == connected /\ ~ postgres
<1>0. /\ s \in Scopes /\ r \in Nat /\ degraded[o] \in BOOLEAN
      /\ postgres \in BOOLEAN /\ connected \in BOOLEAN
      /\ kpiWindows \in [Scopes -> Windows] /\ rows \in [Scopes -> Windows]
      /\ recorded \in [Scopes -> Nat] /\ streak \in [Scopes -> Nat] /\ unsaved \in [Scopes -> BOOLEAN]
      /\ payload \in [Samples -> Windows] /\ scopeOf \in [Samples -> Scopes]
      /\ progress \in [Samples -> {"new", "turn", "querying", "writing", "saved", "done"}]
    BY DEF AdaptiveInd, AdaptiveTypes
<1>1. PICK outcome \in Outcomes, fellBack \in BOOLEAN, kept \in BOOLEAN :
        LET entry == [n |-> r + 1, score |-> Score(outcome, degraded[o] \/ fellBack)]
            w == Rolled(Append(kpiWindows[s], entry))
        IN  /\ kept => direct
            /\ kpiWindows' = [kpiWindows EXCEPT ![s] = w]
            /\ rows' = IF kept THEN [rows EXCEPT ![s] = w] ELSE rows
            /\ unsaved' = [unsaved EXCEPT ![s] =
                 IF direct THEN ~ kept ELSE @ \/ ~ connected \/ Saving(s) # {}]
            /\ payload' = IF connected /\ postgres THEN [payload EXCEPT ![o] = w] ELSE payload
            /\ streak' = [streak EXCEPT ![s] = IF outcome = "success" THEN @ + 1 ELSE 0]
    BY DEF TurnEnds
<1> DEFINE entry == [n |-> r + 1, score |-> Score(outcome, degraded[o] \/ fellBack)]
           w == Rolled(Append(kpiWindows[s], entry))
           k == IF outcome = "success" THEN streak[s] + 1 ELSE 0
           u == IF direct THEN ~ kept ELSE unsaved[s] \/ ~ connected \/ Saving(s) # {}
<1>2. /\ recorded' = [recorded EXCEPT ![s] = r + 1]
      /\ progress[o] = "turn"
      /\ progress' = [progress EXCEPT ![o] = IF connected /\ postgres THEN "querying" ELSE "saved"]
      /\ degraded' = [degraded EXCEPT ![o] = FALSE]
      /\ UNCHANGED <<postgres, connected, scopeOf, alertVars>>
    BY DEF TurnEnds, Proceeds
<1>3. /\ kpiWindows' = [kpiWindows EXCEPT ![s] = w]
      /\ rows' = IF kept THEN [rows EXCEPT ![s] = w] ELSE rows
      /\ unsaved' = [unsaved EXCEPT ![s] = u]
      /\ payload' = IF connected /\ postgres THEN [payload EXCEPT ![o] = w] ELSE payload
      /\ streak' = [streak EXCEPT ![s] = k]
      /\ kept => direct
    BY <1>1
<1>4. Ordered(w, r + 1) /\ EndsWell(w, k)
    <2>1. (degraded[o] \/ fellBack) \in BOOLEAN
        BY <1>0
    <2> DEFINE score == Score(outcome, degraded[o] \/ fellBack)
    <2>2. score \in Scores /\ (outcome = "success" <=> score >= 85)
        BY <2>1, ScoresRange
    <2> HIDE DEF score
    <2> DEFINE e == [n |-> r + 1, score |-> score]
    <2>3. e \in KpiEntries /\ e.n = r + 1 /\ e.score = score
        BY <1>0, <2>2 DEF KpiEntries
    <2>4. Ordered(kpiWindows[s], r) /\ EndsWell(kpiWindows[s], streak[s]) /\ streak[s] \in Nat
        BY <1>0 DEF AdaptiveInd, WindowsOK
    <2> HIDE DEF e
    <2>5. /\ Ordered(Rolled(Append(kpiWindows[s], e)), r + 1)
          /\ EndsWell(Rolled(Append(kpiWindows[s], e)), IF e.score >= 85 THEN streak[s] + 1 ELSE 0)
        BY <1>0, <2>3, <2>4, OutcomeAppended
    <2>6. k = IF e.score >= 85 THEN streak[s] + 1 ELSE 0
        BY <2>2, <2>3
    <2>7. w = Rolled(Append(kpiWindows[s], e))
        BY DEF e, score
    <2> HIDE DEF w, k
    <2> QED BY <2>5, <2>6, <2>7
<1>5. k \in Nat /\ u \in BOOLEAN /\ direct \in BOOLEAN
    <2>1. direct \in BOOLEAN
        OBVIOUS
    <2>2. streak[s] \in Nat
        BY <1>0
    <2>3. k \in Nat
        BY <2>2
    <2>4. u \in BOOLEAN
        OBVIOUS
    <2> QED BY <2>1, <2>3, <2>4
<1>6. direct <=> connected /\ ~ postgres
    OBVIOUS
<1>7. ~ u => IF direct THEN kept
                ELSE ~ unsaved[s] /\ connected /\ \A p \in Samples : scopeOf[p] = s => ~ InSave(p)
    <2>1. Saving(s) = {} <=> \A p \in Samples : scopeOf[p] = s => ~ InSave(p)
        BY <1>0, NobodySaves
    <2> QED BY <1>0, <2>1
<1>8. u => IF direct THEN ~ kept ELSE TRUE
    OBVIOUS
<1> HIDE DEF w, k, u, direct, r
<1>9. /\ w \in Windows
      /\ \A x \in Scopes : x # s => /\ kpiWindows'[x] = kpiWindows[x] /\ rows'[x] = rows[x]
                                    /\ unsaved'[x] = unsaved[x] /\ streak'[x] = streak[x]
                                    /\ recorded'[x] = recorded[x]
      /\ kpiWindows'[s] = w /\ streak'[s] = k /\ recorded'[s] = r + 1 /\ unsaved'[s] = u
      /\ rows'[s] = IF kept THEN w ELSE rows[s]
    <2>1. w \in Windows
        BY <1>4 DEF Ordered, Windows, KpiEntries
    <2> QED BY <1>0, <1>2, <1>3, <2>1
<1>10. AdaptiveTypes'
    <2>1. kpiWindows' \in [Scopes -> Windows] /\ rows' \in [Scopes -> Windows]
        BY <1>0, <1>3, <1>9
    <2>2. payload' \in [Samples -> Windows]
        BY <1>0, <1>3, <1>9
    <2>3. recorded' \in [Scopes -> Nat] /\ streak' \in [Scopes -> Nat]
        BY <1>0, <1>2, <1>3, <1>5
    <2>4. unsaved' \in [Scopes -> BOOLEAN]
        BY <1>0, <1>3, <1>5
    <2>5. progress' \in [Samples -> {"new", "turn", "querying", "writing", "saved", "done"}]
        BY <1>0, <1>2
    <2>6. degraded' \in [Samples -> BOOLEAN] /\ scopeOf' \in [Samples -> Scopes]
        BY <1>2 DEF AdaptiveInd, AdaptiveTypes
    <2>7. /\ postgres' \in BOOLEAN /\ connected' \in BOOLEAN
          /\ alerted' \in [Scopes -> BOOLEAN]
          /\ alerts' \in [Scopes -> Nat] /\ cooldowns' \in [Scopes -> Nat]
        BY <1>2 DEF AdaptiveInd, AdaptiveTypes, alertVars
    <2> QED BY <2>1, <2>2, <2>3, <2>4, <2>5, <2>6, <2>7 DEF AdaptiveTypes
<1>11. \A x : Ordered(x, r) => Ordered(x, r + 1)
    BY <1>0, OrderedStays DEF r
<1>12. WindowsOK'
    <2> SUFFICES ASSUME NEW x \in Scopes
                 PROVE  /\ Ordered(kpiWindows'[x], recorded'[x]) /\ Ordered(rows'[x], recorded'[x])
                        /\ EndsWell(kpiWindows'[x], streak'[x])
        BY DEF WindowsOK
    <2>1. CASE x # s
        BY <1>9, <2>1 DEF AdaptiveInd, WindowsOK
    <2>2. CASE x = s
        <3>1. Ordered(rows[s], r)
            BY <1>0 DEF AdaptiveInd, WindowsOK, r
        <3> QED BY <1>4, <1>9, <1>11, <2>2, <3>1
    <2> QED BY <2>1, <2>2
<1>13. PayloadsOK'
    <2> SUFFICES ASSUME NEW p \in Samples
                 PROVE  Ordered(payload'[p], recorded'[scopeOf[p]])
        BY <1>2 DEF PayloadsOK
    <2>1. Ordered(payload[p], recorded[scopeOf[p]]) /\ scopeOf[p] \in Scopes
        BY <1>0 DEF AdaptiveInd, PayloadsOK
    <2>2. Ordered(payload[p], recorded'[scopeOf[p]])
        BY <1>9, <1>11, <2>1 DEF r
    <2>3. payload'[p] = payload[p] \/ (p = o /\ payload'[p] = w)
        <3>1. CASE connected /\ postgres
            <4>1. payload' = [payload EXCEPT ![o] = w]
                BY <1>3, <3>1
            <4> QED BY <1>0, <4>1
        <3>2. CASE ~ (connected /\ postgres)
            BY <1>3, <3>2
        <3> QED BY <3>1, <3>2
    <2> QED BY <1>4, <1>9, <2>2, <2>3
<1>14. \A p \in Samples : p # o => (InSave(p)' <=> InSave(p)) /\ payload'[p] = payload[p]
    BY <1>0, <1>2, <1>3 DEF InSave
<1>15. ~ InSave(o) /\ (InSave(o)' <=> connected /\ postgres)
    BY <1>0, <1>2 DEF InSave
<1>16. connected /\ postgres => payload'[o] = w
    BY <1>0, <1>3
<1>17. \A p \in Samples : InSave(p)' => postgres'
    BY <1>2, <1>14, <1>15 DEF AdaptiveInd, SavesOK
<1>18. ASSUME NEW x \in Scopes, ~ unsaved'[x]
       PROVE  /\ \A p \in Samples : scopeOf[p] = x /\ InSave(p)' =>
                   /\ payload'[p] = kpiWindows'[x]
                   /\ \A q \in Samples : scopeOf[q] = x /\ InSave(q)' => q = p
              /\ (\A p \in Samples : scopeOf[p] = x => ~ InSave(p)') => rows'[x] = kpiWindows'[x]
    <2>1. CASE x # s
        <3>1. ~ unsaved[x] /\ \A p \in Samples : scopeOf[p] = x => p # o
            BY <1>9, <1>18, <2>1
        <3> QED BY <1>9, <1>14, <1>18, <2>1, <3>1 DEF AdaptiveInd, SavesOK
    <2>2. CASE x = s /\ direct
        <3>1. kept /\ rows'[x] = w /\ kpiWindows'[x] = w
            BY <1>7, <1>9, <1>18, <2>2
        <3>2. ~ postgres
            BY <1>6, <2>2
        <3>3. \A p \in Samples : ~ InSave(p)'
            BY <1>2, <1>17, <3>2
        <3> QED BY <3>1, <3>3
    <2>3. CASE x = s /\ ~ direct
        <3>1. ~ unsaved[s] /\ connected /\ \A p \in Samples : scopeOf[p] = s => ~ InSave(p)
            BY <1>7, <1>9, <1>18, <2>3
        <3>2. postgres
            BY <1>0, <1>6, <2>3, <3>1
        <3>3. InSave(o)' /\ payload'[o] = w /\ kpiWindows'[s] = w
            BY <1>9, <1>15, <1>16, <3>1, <3>2
        <3>4. \A p \in Samples : scopeOf[p] = s /\ InSave(p)' => p = o
            BY <1>14, <3>1
        <3> QED BY <2>3, <3>3, <3>4
    <2> QED BY <2>1, <2>2, <2>3
<1>19. SavesOK'
    BY <1>2, <1>17, <1>18 DEF SavesOK
<1>20. AlertsOK'
    BY <1>2 DEF AlertsOK, AlertsSpaced, AdaptiveInd, alertVars
<1> QED BY <1>10, <1>12, <1>13, <1>19, <1>20 DEF AdaptiveInd

LEMMA RowQueriedKeeps ==
    ASSUME AdaptiveInd, NEW o \in Samples, RowQueried(o)
    PROVE  AdaptiveInd'
<1>1. /\ progress[o] = "querying" /\ progress' = [progress EXCEPT ![o] = "writing"]
      /\ UNCHANGED <<postgres, connected, kpiVars, scopeOf, degraded, payload, alertVars>>
    BY DEF RowQueried, Proceeds
<1>2. AdaptiveTypes'
    BY <1>1 DEF AdaptiveTypes, AdaptiveInd, kpiVars, alertVars
<1>3. WindowsOK' /\ PayloadsOK' /\ AlertsOK'
    BY <1>1 DEF WindowsOK, PayloadsOK, AlertsOK, AlertsSpaced, AdaptiveInd, kpiVars, alertVars
<1>4. \A p \in Samples : InSave(p)' <=> InSave(p)
    BY <1>1 DEF InSave, AdaptiveInd, AdaptiveTypes
<1>5. SavesOK'
    BY <1>1, <1>4 DEF SavesOK, AdaptiveInd, kpiVars
<1> QED BY <1>2, <1>3, <1>5 DEF AdaptiveInd

LEMMA RowWrittenKeeps ==
    ASSUME AdaptiveInd, NEW o \in Samples, RowWritten(o)
    PROVE  AdaptiveInd'
<1> DEFINE s == scopeOf[o]
<1>1. /\ progress[o] = "writing" /\ progress' = [progress EXCEPT ![o] = "saved"]
      /\ rows' = [rows EXCEPT ![s] = payload[o]]
      /\ payload' = [payload EXCEPT ![o] = <<>>]
      /\ UNCHANGED <<postgres, connected, kpiWindows, recorded, streak, unsaved,
                     scopeOf, degraded, alertVars>>
    BY DEF RowWritten, SaveOver, Proceeds
<1>2. AdaptiveTypes
    BY DEF AdaptiveInd
<1>3. s \in Scopes /\ payload[o] \in Windows /\ <<>> \in Windows
    <2>1. <<>> \in Windows
        BY DEF Windows
    <2> QED BY <1>2, <2>1 DEF AdaptiveTypes
<1>4. AdaptiveTypes'
    BY <1>1, <1>2, <1>3 DEF AdaptiveTypes, alertVars
<1>5. rows'[s] = payload[o] /\ \A x \in Scopes : x # s => rows'[x] = rows[x]
    BY <1>1, <1>2, <1>3 DEF AdaptiveTypes
<1>6. WindowsOK'
    <2>1. Ordered(payload[o], recorded[s])
        BY DEF AdaptiveInd, PayloadsOK
    <2> QED BY <1>1, <1>5, <2>1 DEF WindowsOK, AdaptiveInd
<1>7. PayloadsOK'
    <2>1. \A p \in Samples : payload'[p] = payload[p] \/ payload'[p] = <<>>
        BY <1>1, <1>2 DEF AdaptiveTypes
    <2>2. \A r : Ordered(<<>>, r)
        BY NothingRecorded
    <2> QED BY <1>1, <2>1, <2>2 DEF PayloadsOK, AdaptiveInd
<1>8. /\ InSave(o) /\ ~ InSave(o)'
      /\ \A p \in Samples : p # o => (InSave(p)' <=> InSave(p)) /\ payload'[p] = payload[p]
    BY <1>1, <1>2 DEF InSave, AdaptiveTypes
<1>9. SavesOK'
    <2>1. \A p \in Samples : InSave(p)' => postgres'
        BY <1>1, <1>8 DEF SavesOK, AdaptiveInd
    <2>2. ASSUME NEW x \in Scopes, ~ unsaved[x]
          PROVE  /\ \A p \in Samples : scopeOf[p] = x /\ InSave(p)' =>
                      /\ payload'[p] = kpiWindows[x]
                      /\ \A q \in Samples : scopeOf[q] = x /\ InSave(q)' => q = p
                 /\ (\A p \in Samples : scopeOf[p] = x => ~ InSave(p)') => rows'[x] = kpiWindows[x]
        <3>1. CASE x # s
            BY <1>5, <1>8, <2>2, <3>1 DEF SavesOK, AdaptiveInd
        <3>2. CASE x = s
            <4>1. payload[o] = kpiWindows[s] /\ \A q \in Samples : scopeOf[q] = s /\ InSave(q) => q = o
                BY <1>3, <1>8, <2>2, <3>2 DEF SavesOK, AdaptiveInd
            <4> QED BY <1>5, <1>8, <3>2, <4>1
        <3> QED BY <3>1, <3>2
    <2> QED BY <1>1, <2>1, <2>2 DEF SavesOK
<1>10. AlertsOK'
    BY <1>1 DEF AlertsOK, AlertsSpaced, AdaptiveInd, alertVars
<1> QED BY <1>4, <1>6, <1>7, <1>9, <1>10 DEF AdaptiveInd

LEMMA SaveFailsKeeps ==
    ASSUME AdaptiveInd, NEW o \in Samples, SaveFails(o)
    PROVE  AdaptiveInd'
<1> DEFINE s == scopeOf[o]
<1>1. /\ InSave(o) /\ progress' = [progress EXCEPT ![o] = "saved"]
      /\ payload' = [payload EXCEPT ![o] = <<>>]
      /\ unsaved' = [unsaved EXCEPT ![s] = TRUE]
      /\ UNCHANGED <<postgres, connected, kpiWindows, rows, recorded, streak,
                     scopeOf, degraded, alertVars>>
    BY DEF SaveFails, SaveOver, Proceeds, InSave
<1>2. AdaptiveTypes
    BY DEF AdaptiveInd
<1>3. s \in Scopes /\ <<>> \in Windows
    BY <1>2 DEF AdaptiveTypes, Windows
<1>4. AdaptiveTypes'
    BY <1>1, <1>2, <1>3 DEF AdaptiveTypes, alertVars
<1>5. WindowsOK'
    BY <1>1 DEF WindowsOK, AdaptiveInd
<1>6. PayloadsOK'
    <2>1. \A p \in Samples : payload'[p] = payload[p] \/ payload'[p] = <<>>
        BY <1>1, <1>2 DEF AdaptiveTypes
    <2>2. \A r : Ordered(<<>>, r)
        BY NothingRecorded
    <2> QED BY <1>1, <2>1, <2>2 DEF PayloadsOK, AdaptiveInd
<1>7. /\ ~ InSave(o)'
      /\ \A p \in Samples : p # o => (InSave(p)' <=> InSave(p)) /\ payload'[p] = payload[p]
    BY <1>1, <1>2 DEF InSave, AdaptiveTypes
<1>8. \A x \in Scopes : ~ unsaved'[x] => x # s /\ ~ unsaved[x]
    BY <1>1, <1>2, <1>3 DEF AdaptiveTypes
<1>9. SavesOK'
    BY <1>1, <1>7, <1>8 DEF SavesOK, AdaptiveInd
<1>10. AlertsOK'
    BY <1>1 DEF AlertsOK, AlertsSpaced, AdaptiveInd, alertVars
<1> QED BY <1>4, <1>5, <1>6, <1>9, <1>10 DEF AdaptiveInd

(* Alerts and cooldowns leave the windows alone.                           *)
LEMMA AlertsKeep ==
    ASSUME AdaptiveInd,
           \/ \E o \in Samples : OutcomeRecorded(o)
           \/ \E s \in Scopes : CooldownEnds(s)
    PROVE  AdaptiveInd'
<1>1. /\ UNCHANGED <<postgres, connected, kpiVars, scopeOf, degraded, payload>>
      /\ \/ progress' = progress
         \/ \E o \in Samples : progress[o] = "saved" /\ progress' = [progress EXCEPT ![o] = "done"]
    BY DEF OutcomeRecorded, CooldownEnds, Proceeds, turnSamples
<1>2. PICK s \in Scopes :
        \/ alerted' = alerted /\ alerts' = alerts /\ cooldowns' = cooldowns
        \/ /\ ~ alerted[s] /\ alerted' = [alerted EXCEPT ![s] = TRUE]
           /\ alerts' = [alerts EXCEPT ![s] = @ + 1] /\ cooldowns' = cooldowns
        \/ /\ alerted[s] /\ alerted' = [alerted EXCEPT ![s] = FALSE]
           /\ alerts' = alerts /\ cooldowns' = [cooldowns EXCEPT ![s] = @ + 1]
    <2>1. CASE \E o \in Samples : OutcomeRecorded(o)
        <3>1. PICK o \in Samples : OutcomeRecorded(o)
            BY <2>1
        <3> DEFINE s == scopeOf[o]
        <3>2. s \in Scopes /\ alerted \in [Scopes -> BOOLEAN]
            BY DEF AdaptiveInd, AdaptiveTypes
        <3>2a. PICK tie \in BOOLEAN :
                 LET raise == AlertDue(s, tie) /\ ~ alerted[s]
                 IN  /\ alerted' = [alerted EXCEPT ![s] = @ \/ raise]
                     /\ alerts' = IF raise THEN [alerts EXCEPT ![s] = @ + 1] ELSE alerts
            BY <3>1 DEF OutcomeRecorded
        <3> DEFINE raise == AlertDue(s, tie) /\ ~ alerted[s]
        <3>3. /\ alerted' = [alerted EXCEPT ![s] = @ \/ raise]
              /\ alerts' = IF raise THEN [alerts EXCEPT ![s] = @ + 1] ELSE alerts
              /\ cooldowns' = cooldowns
            BY <3>1, <3>2a DEF OutcomeRecorded
        <3>4. CASE raise
            <4>1. ~ alerted[s] /\ alerted' = [alerted EXCEPT ![s] = TRUE]
                BY <3>2, <3>3, <3>4
            <4> HIDE DEF raise
            <4> QED BY <3>2, <3>3, <3>4, <4>1
        <3>5. CASE ~ raise
            <4>1. alerted' = [alerted EXCEPT ![s] = alerted[s]]
                BY <3>2, <3>3, <3>5
            <4>2. alerted' = alerted
                BY <3>2, <4>1
            <4> HIDE DEF raise
            <4> QED BY <3>2, <3>3, <3>5, <4>2
        <3> QED BY <3>4, <3>5
    <2>2. CASE \E s \in Scopes : CooldownEnds(s)
        BY <2>2 DEF CooldownEnds
    <2> QED BY <2>1, <2>2
<1>3. AdaptiveTypes
    BY DEF AdaptiveInd
<1>4. alerted' \in [Scopes -> BOOLEAN] /\ alerts' \in [Scopes -> Nat] /\ cooldowns' \in [Scopes -> Nat]
    <2>1. alerted \in [Scopes -> BOOLEAN] /\ alerts \in [Scopes -> Nat] /\ cooldowns \in [Scopes -> Nat]
        BY <1>3 DEF AdaptiveTypes
    <2>2. \A x \in BOOLEAN : [alerted EXCEPT ![s] = x] \in [Scopes -> BOOLEAN]
        BY <2>1
    <2>3. alerted' \in [Scopes -> BOOLEAN]
        BY <1>2, <2>1, <2>2
    <2>4. alerts' \in [Scopes -> Nat] /\ cooldowns' \in [Scopes -> Nat]
        BY <1>2, <2>1
    <2> QED BY <2>3, <2>4
<1>5. progress' \in [Samples -> {"new", "turn", "querying", "writing", "saved", "done"}]
    BY <1>1, <1>3 DEF AdaptiveTypes
<1>6. AdaptiveTypes'
    BY <1>1, <1>3, <1>4, <1>5 DEF AdaptiveTypes, kpiVars
<1>7. WindowsOK' /\ PayloadsOK'
    BY <1>1 DEF WindowsOK, PayloadsOK, AdaptiveInd, kpiVars
<1>8. \A p \in Samples : InSave(p)' <=> InSave(p)
    BY <1>1, <1>3 DEF InSave, AdaptiveTypes
<1>9. SavesOK'
    BY <1>1, <1>8 DEF SavesOK, AdaptiveInd, kpiVars
<1>10. AlertsOK'
    <2> SUFFICES ASSUME NEW x \in Scopes
                 PROVE  alerts'[x] <= cooldowns'[x] + (IF alerted'[x] THEN 1 ELSE 0)
        BY DEF AlertsOK, AlertsSpaced
    <2>1. alerts[x] <= cooldowns[x] + (IF alerted[x] THEN 1 ELSE 0) /\ alerts[x] \in Nat /\ cooldowns[x] \in Nat
        BY <1>3 DEF AdaptiveInd, AlertsOK, AlertsSpaced, AdaptiveTypes
    <2>2. \/ alerted'[x] = alerted[x] /\ alerts'[x] = alerts[x] /\ cooldowns'[x] = cooldowns[x]
          \/ ~ alerted[x] /\ alerted'[x] /\ alerts'[x] = alerts[x] + 1 /\ cooldowns'[x] = cooldowns[x]
          \/ alerted[x] /\ ~ alerted'[x] /\ alerts'[x] = alerts[x] /\ cooldowns'[x] = cooldowns[x] + 1
        BY <1>2, <1>3 DEF AdaptiveTypes
    <2> QED BY <2>1, <2>2
<1> QED BY <1>6, <1>7, <1>9, <1>10 DEF AdaptiveInd

LEMMA StorageClosedKeeps ==
    ASSUME AdaptiveInd, StorageClosed
    PROVE  AdaptiveInd'
<1>1. /\ connected' = FALSE
      /\ unsaved' = [s \in Scopes |-> unsaved[s] \/ Saving(s) # {}]
      /\ UNCHANGED <<postgres, kpiWindows, rows, recorded, streak, turnSamples, alertVars>>
    BY DEF StorageClosed
<1>2. AdaptiveTypes
    BY DEF AdaptiveInd
<1>3. AdaptiveTypes'
    <2>1. unsaved' \in [Scopes -> BOOLEAN]
        BY <1>1, <1>2 DEF AdaptiveTypes
    <2> QED BY <1>1, <1>2, <2>1 DEF AdaptiveTypes, turnSamples, alertVars
<1>4. WindowsOK' /\ PayloadsOK' /\ AlertsOK'
    BY <1>1 DEF WindowsOK, PayloadsOK, AlertsOK, AlertsSpaced, AdaptiveInd, turnSamples, alertVars
<1>5. \A s \in Scopes : ~ unsaved'[s] => ~ unsaved[s]
    BY <1>1
<1>6. SavesOK'
    BY <1>1, <1>5 DEF SavesOK, AdaptiveInd, turnSamples, InSave
<1> QED BY <1>3, <1>4, <1>6 DEF AdaptiveInd

LEMMA RestartKeeps ==
    ASSUME AdaptiveInd, ProcessRestarts
    PROVE  AdaptiveInd'
<1>1. /\ connected' \in BOOLEAN
      /\ kpiWindows' = IF connected' THEN [s \in Scopes |-> Rolled(rows[s])] ELSE [s \in Scopes |-> <<>>]
      /\ unsaved' = [s \in Scopes |-> ~ connected']
      /\ streak' = [s \in Scopes |-> 0]
      /\ alerted' = [s \in Scopes |-> FALSE]
      /\ alerts' = [s \in Scopes |-> 0] /\ cooldowns' = [s \in Scopes |-> 0]
      /\ progress' = [o \in Samples |-> IF progress[o] = "new" THEN "new" ELSE "done"]
      /\ degraded' = [o \in Samples |-> FALSE]
      /\ payload' = [o \in Samples |-> <<>>]
      /\ UNCHANGED <<postgres, rows, recorded, scopeOf>>
    BY DEF ProcessRestarts
<1>2. AdaptiveTypes
    BY DEF AdaptiveInd
<1>3. \A s \in Scopes : rows[s] \in Windows /\ Rolled(rows[s]) = rows[s] /\ Ordered(rows[s], recorded[s])
    <2> TAKE s \in Scopes
    <2>1. rows[s] \in Windows /\ Ordered(rows[s], recorded[s])
        BY <1>2 DEF AdaptiveTypes, AdaptiveInd, WindowsOK
    <2> QED BY <2>1, NotTooLong
<1>4. \A s \in Scopes : kpiWindows'[s] = IF connected' THEN rows[s] ELSE <<>>
    BY <1>1, <1>3
<1>5. <<>> \in Windows
    BY DEF Windows
<1>6. AdaptiveTypes'
    <2>1. kpiWindows' \in [Scopes -> Windows]
        <3>1. kpiWindows' = [s \in Scopes |-> kpiWindows'[s]]
            BY <1>1
        <3> QED BY <1>3, <1>4, <1>5, <3>1
    <2>2. payload' \in [Samples -> Windows] /\ degraded' \in [Samples -> BOOLEAN]
        BY <1>1, <1>5
    <2>3. progress' \in [Samples -> {"new", "turn", "querying", "writing", "saved", "done"}]
        BY <1>1
    <2>4. streak' \in [Scopes -> Nat] /\ alerts' \in [Scopes -> Nat] /\ cooldowns' \in [Scopes -> Nat]
        BY <1>1
    <2>5. unsaved' \in [Scopes -> BOOLEAN] /\ alerted' \in [Scopes -> BOOLEAN]
        BY <1>1
    <2>6. /\ postgres' \in BOOLEAN /\ rows' \in [Scopes -> Windows] /\ recorded' \in [Scopes -> Nat]
          /\ scopeOf' \in [Samples -> Scopes]
        BY <1>1, <1>2 DEF AdaptiveTypes
    <2> QED BY <1>1, <2>1, <2>2, <2>3, <2>4, <2>5, <2>6 DEF AdaptiveTypes
<1>7. \A r : Ordered(<<>>, r)
    BY NothingRecorded
<1>8. WindowsOK'
    <2>1. \A w : Len(w) \in Nat => EndsWell(w, 0)
        BY DEF EndsWell
    <2>2. \A s \in Scopes : Ordered(kpiWindows'[s], recorded[s])
        BY <1>3, <1>4, <1>7
    <2>3. \A s \in Scopes : Len(kpiWindows'[s]) \in Nat
        BY <2>2, LenProperties DEF Ordered
    <2>4. \A s \in Scopes : streak'[s] = 0
        BY <1>1
    <2> QED BY <1>1, <1>3, <2>1, <2>2, <2>3, <2>4 DEF WindowsOK
<1>9. PayloadsOK'
    BY <1>1, <1>7 DEF PayloadsOK
<1>10. \A o \in Samples : ~ InSave(o)'
    BY <1>1 DEF InSave
<1>11. SavesOK'
    BY <1>1, <1>4, <1>10 DEF SavesOK
<1>12. AlertsOK'
    BY <1>1 DEF AlertsOK, AlertsSpaced
<1> QED BY <1>6, <1>8, <1>9, <1>11, <1>12 DEF AdaptiveInd

LEMMA AdaptiveStep == AdaptiveInd /\ [AdaptiveNext]_adaptiveVars => AdaptiveInd'
<1> SUFFICES ASSUME AdaptiveInd, [AdaptiveNext]_adaptiveVars  PROVE AdaptiveInd'
    OBVIOUS
<1>1. CASE UNCHANGED adaptiveVars
    <2>1. UNCHANGED <<postgres, connected, kpiVars, turnSamples, alertVars>>
        BY <1>1 DEF adaptiveVars
    <2>2. AdaptiveTypes' /\ WindowsOK' /\ PayloadsOK'
        BY <2>1 DEF AdaptiveInd, AdaptiveTypes, WindowsOK, PayloadsOK, kpiVars, turnSamples, alertVars
    <2>3. SavesOK' /\ AlertsOK'
        BY <2>1 DEF AdaptiveInd, SavesOK, InSave, AlertsOK, AlertsSpaced, kpiVars, turnSamples, alertVars
    <2> QED BY <2>2, <2>3 DEF AdaptiveInd
<1> QED BY <1>1, TurnStartsKeeps, TurnEndsKeeps, RowQueriedKeeps, RowWrittenKeeps, SaveFailsKeeps,
           AlertsKeep, StorageClosedKeeps, RestartKeeps DEF AdaptiveNext

(* The windows in memory and in the storage stay in step through           *)
(* overlapping turns, failing saves and restarts, and one alert is raised  *)
(* per cooldown (runtime/execution/adaptive-execution.ts).                 *)
THEOREM WindowsStayInStep == AdaptiveSpec => []AdaptiveInv
<1>1. AdaptiveInd => AdaptiveInv
    <2> SUFFICES ASSUME AdaptiveInd  PROVE AdaptiveInv
        OBVIOUS
    <2>1. AdaptiveTypeOK
        BY DEF AdaptiveInd, AdaptiveTypes, AdaptiveTypeOK
    <2>2. \A s \in Scopes : InOrder(kpiWindows[s], s) /\ InOrder(rows[s], s)
        <3> TAKE s \in Scopes
        <3>1. kpiWindows[s] \in Windows /\ rows[s] \in Windows
            BY <2>1 DEF AdaptiveTypeOK
        <3>2. Ordered(kpiWindows[s], recorded[s]) /\ Ordered(rows[s], recorded[s])
            BY DEF AdaptiveInd, WindowsOK
        <3> QED BY <3>1, <3>2, OrderedIs
    <2>3. \A o \in Samples : InOrder(payload[o], scopeOf[o])
        <3> TAKE o \in Samples
        <3>1. payload[o] \in Windows /\ scopeOf[o] \in Scopes
            BY DEF AdaptiveInd, AdaptiveTypes
        <3>2. Ordered(payload[o], recorded[scopeOf[o]])
            BY DEF AdaptiveInd, PayloadsOK
        <3> QED BY <3>1, <3>2, OrderedIs
    <2>4. \A s \in Scopes : RowIsWindow(s)
        <3> TAKE s \in Scopes
        <3>1. Saving(s) = {} <=> \A o \in Samples : scopeOf[o] = s => ~ InSave(o)
            BY NobodySaves
        <3> QED BY <3>1 DEF RowIsWindow, AdaptiveInd, SavesOK
    <2>5. \A s \in Scopes : AlertsSpaced(s)
        BY DEF AdaptiveInd, AlertsOK
    <2> QED BY <2>1, <2>2, <2>3, <2>4, <2>5 DEF AdaptiveInv
<1> QED BY <1>1, AdaptiveInitially, AdaptiveStep, PTL DEF AdaptiveSpec

-----------------------------------------------------------------------------
(* The sum over a window, by the least position where it would go wrong.   *)

LEMMA LeastExists ==
    ASSUME NEW S, S \subseteq Nat, S # {}
    PROVE  \E m \in S : \A n \in S : m <= n
<1> DEFINE Less == {p \in Nat \X Nat : p[1] < p[2]}
<1>1. IsWellFoundedOn(Less, Nat)
    BY NatLessThanWellFounded, Zenon DEF OpToRel
<1> HIDE DEF Less
<1>2. PICK m \in S : \A n \in S : ~(<<n, m>> \in Less)
    BY <1>1, WFMin
<1>3. \A n \in S : ~(n < m)
    BY <1>2 DEF Less
<1> QED BY <1>2, <1>3

Sums(t, w, m) == t = [i \in 0..m |-> IF i = 0 THEN 0 ELSE t[i - 1] + w[i].score]

LEMMA SumExists ==
    ASSUME NEW w, NEW m \in Nat
    PROVE  \E t : Sums(t, w, m)
<1> DEFINE S == {n \in 0..m : ~ \E t : Sums(t, w, n)}
<1>1. CASE S = {}
    <2>1. m \in 0..m
        OBVIOUS
    <2> QED BY <1>1, <2>1
<1>2. CASE S # {}
    <2>1. S \subseteq Nat
        OBVIOUS
    <2> HIDE DEF S
    <2>2. PICK n \in S : \A k \in S : n <= k
        BY <1>2, <2>1, LeastExists
    <2>3. n \in 0..m /\ ~ \E t : Sums(t, w, n)
        BY <2>2 DEF S
    <2>4. CASE n = 0
        <3> DEFINE t == [i \in 0..0 |-> 0]
        <3>1. t = [i \in 0..0 |-> IF i = 0 THEN 0 ELSE t[i - 1] + w[i].score]
            OBVIOUS
        <3> HIDE DEF t
        <3>2. Sums(t, w, 0)
            BY <3>1 DEF Sums
        <3> QED BY <2>3, <2>4, <3>2
    <2>5. CASE n # 0
        <3>1. n - 1 \in 0..m /\ ~ (n <= n - 1)
            BY <2>3, <2>5
        <3>2. n - 1 \notin S
            BY <2>2, <3>1
        <3>3. PICK t : Sums(t, w, n - 1)
            BY <3>1, <3>2 DEF S
        <3> DEFINE u == [i \in 0..n |-> IF i = n THEN t[n - 1] + w[n].score ELSE t[i]]
        <3>4. \A i \in 0..(n - 1) : t[i] = IF i = 0 THEN 0 ELSE t[i - 1] + w[i].score
            BY <3>3 DEF Sums
        <3>5. \A i \in 0..n : u[i] = IF i = 0 THEN 0 ELSE u[i - 1] + w[i].score
            <4> TAKE i \in 0..n
            <4>1. CASE i = n
                <5>1. n - 1 \in 0..n /\ n - 1 # n
                    BY <2>3, <2>5
                <5> QED BY <2>5, <4>1, <5>1
            <4>2. CASE i # n
                <5>1. i \in 0..(n - 1)
                    BY <2>3, <4>2
                <5>2. i # 0 => i - 1 \in 0..n /\ i - 1 # n
                    BY <2>3, <4>2
                <5> QED BY <3>4, <4>2, <5>1, <5>2
            <4> QED BY <4>1, <4>2
        <3>6. u = [i \in 0..n |-> u[i]]
            OBVIOUS
        <3> HIDE DEF u
        <3>7. Sums(u, w, n)
            BY <3>5, <3>6 DEF Sums
        <3> QED BY <2>3, <3>7
    <2> QED BY <2>4, <2>5
<1> QED BY <1>1, <1>2

(* A window of scores above the rate reaches it, however it is rounded.    *)
LEMMA GoodWindowReaches ==
    ASSUME NEW w \in Seq(KpiEntries), w # <<>>, NEW rate \in Nat,
           \A i \in 1..Len(w) : w[i].score > rate, NEW tie
    PROVE  Reaches(w, rate, tie)
<1> DEFINE L == Len(w)
           total == CHOOSE t : t = [i \in 0..L |-> IF i = 0 THEN 0 ELSE t[i - 1] + w[i].score]
<1>0. L \in Nat /\ L # 0 /\ \A i \in 1..L : w[i].score \in Nat
    <2>1. L \in Nat /\ L # 0 /\ \A i \in 1..L : w[i] \in KpiEntries
        BY LenProperties, ElementOfSeq, EmptySeq
    <2> QED BY <2>1 DEF KpiEntries, Scores
<1>1. \A i \in 0..L : total[i] = IF i = 0 THEN 0 ELSE total[i - 1] + w[i].score
    <2>1. \E t : t = [i \in 0..L |-> IF i = 0 THEN 0 ELSE t[i - 1] + w[i].score]
        BY <1>0, SumExists DEF Sums
    <2>2. total = [i \in 0..L |-> IF i = 0 THEN 0 ELSE total[i - 1] + w[i].score]
        BY <2>1
    <2> HIDE DEF total, L
    <2> QED BY <2>2
<1> HIDE DEF total
<1> DEFINE S == {i \in 0..L : ~ (total[i] \in Nat /\ total[i] >= rate * i + i)}
<1>2. S = {}
    <2> SUFFICES ASSUME S # {}  PROVE FALSE
        OBVIOUS
    <2>1. S \subseteq Nat
        BY <1>0
    <2> HIDE DEF S
    <2>2. PICK n \in S : \A k \in S : n <= k
        BY <2>1, LeastExists
    <2>3. n \in 0..L /\ ~ (total[n] \in Nat /\ total[n] >= rate * n + n)
        BY <2>2 DEF S
    <2>4. n # 0
        BY <1>1, <2>3
    <2>5. n - 1 \in 0..L /\ n - 1 \notin S
        BY <1>0, <2>2, <2>3, <2>4
    <2>6. total[n - 1] \in Nat /\ total[n - 1] >= rate * (n - 1) + (n - 1)
        BY <2>5 DEF S
    <2>7. total[n] = total[n - 1] + w[n].score /\ w[n].score \in Nat /\ w[n].score >= rate + 1
        BY <1>0, <1>1, <2>3, <2>4
    <2>8. rate * n = rate * (n - 1) + rate
        BY <1>0, <2>3, <2>4
    <2>9. rate * (n - 1) \in Nat
        BY <1>0, <2>3, <2>4
    <2> QED BY <2>3, <2>6, <2>7, <2>8, <2>9
<1>3. total[L] > rate * L
    <2>1. L \in 0..L /\ L \notin S
        BY <1>0, <1>2
    <2>2. total[L] \in Nat /\ total[L] >= rate * L + L
        BY <2>1 DEF S
    <2>3. rate * L \in Nat
        BY <1>0
    <2> QED BY <1>0, <2>2, <2>3
<1> QED BY <1>3 DEF Reaches, total

(* A degraded scope finds its way back: as many successes in a row as the  *)
(* window holds lift it over a target below 85 %, although a success       *)
(* counts less while the scope is degraded (resolveTurnDecision of         *)
(* adaptive-execution.ts), whichever way a mean on the target is rounded.  *)
THEOREM SuccessesRestore == AdaptiveSpec => []SuccessRestores
<1>1. AdaptiveInd => SuccessRestores
    <2> SUFFICES ASSUME AdaptiveInd, minRate < 85, NEW s \in Scopes, NEW tie \in BOOLEAN,
                        streak[s] >= rollingWindowSize
                 PROVE  ~ BelowTarget(s, tie)
        BY DEF SuccessRestores
    <2> DEFINE w == kpiWindows[s]
    <2>1. w \in Seq(KpiEntries) /\ Len(w) <= rollingWindowSize /\ EndsWell(w, streak[s])
        BY DEF AdaptiveInd, WindowsOK, Ordered
    <2>2. Len(w) \in Nat /\ rollingWindowSize \in Nat /\ minRate \in Nat /\ streak[s] \in Nat
        BY <2>1, LenProperties, AdaptiveAssumption DEF AdaptiveInd, AdaptiveTypes
    <2>3. \A i \in 1..Len(w) : w[i].score >= 85 /\ w[i].score \in Nat
        <3>1. \A i \in 1..Len(w) : i + streak[s] > Len(w)
            BY <2>1, <2>2
        <3>2. \A i \in 1..Len(w) : w[i] \in KpiEntries
            BY <2>1, ElementOfSeq
        <3> HIDE DEF w
        <3> QED BY <2>1, <3>1, <3>2 DEF EndsWell, KpiEntries, Scores
    <2>4. \A i \in 1..Len(w) : w[i].score > minRate
        <3> HIDE DEF w
        <3> QED BY <2>2, <2>3
    <2>5. w # <<>> => Reaches(w, minRate, tie)
        <3> HIDE DEF w
        <3> QED BY <2>1, <2>2, <2>4, GoodWindowReaches
    <2> QED BY <2>5 DEF BelowTarget
<1> QED BY <1>1, AdaptiveInitially, AdaptiveStep, PTL DEF AdaptiveSpec

-----------------------------------------------------------------------------
(* The session log.  The promises of a session form one chain, in the      *)
(* order of the calls: each call waits for the one before it, and the      *)
(* queue's end is the last.                                                *)
ChainOK ==
    \A s \in LogSessions :
        /\ \A i \in 1..Len(loggedOf[s]) : LET c == loggedOf[s][i] IN
             /\ logCall[c].session = s /\ logCall[c].at # "none"
             /\ logCall[c].previous = IF i = 1 THEN NoLogCall ELSE loggedOf[s][i - 1]
             /\ \A j \in 1..Len(loggedOf[s]) : loggedOf[s][j] = c => j = i
        /\ queueBySession[s] = IF loggedOf[s] = <<>> THEN NoLogCall ELSE loggedOf[s][Len(loggedOf[s])]

LoggedOnce ==
    \A c \in LogCalls : logCall[c].at # "none" =>
        \E i \in 1..Len(loggedOf[logCall[c].session]) : loggedOf[logCall[c].session][i] = c

Entered == Over \cup {"writing"}

(* So a task is entered once every one before it is over, and no earlier   *)
(* in the days than they were.                                             *)
OneAtATime ==
    /\ \A s \in LogSessions : \A i, j \in 1..Len(loggedOf[s]) :
         i < j /\ logCall[loggedOf[s][j]].at \in Entered =>
           /\ logCall[loggedOf[s][i]].at \in Over
           /\ logCall[loggedOf[s][i]].day <= logCall[loggedOf[s][j]].day
    /\ \A c \in LogCalls : logCall[c].day <= today

(* A session counts as started from the moment its first task is entered.  *)
StartedOK ==
    \A s \in LogSessions :
        s \in initializedSessions <=>
            \E i \in 1..Len(loggedOf[s]) : logCall[loggedOf[s][i]].at \in Entered

LogInd ==
    /\ SessionLogTypeOK /\ ChainOK /\ LoggedOnce /\ OneAtATime /\ StartedOK
    /\ LogComplete /\ StartsOnce

-----------------------------------------------------------------------------
LogRec ==
    [at : {"none", "queued", "writing"} \cup Over, session : LogSessions,
     previous : LogCalls \cup {NoLogCall}, day : 0..MaxDays, start : BOOLEAN]

LEMMA LogFacts ==
    ASSUME LogInd
    PROVE  /\ logCall \in [LogCalls -> LogRec]
           /\ \A c \in LogCalls : /\ logCall[c].session \in LogSessions /\ logCall[c].day \in 0..MaxDays
                                  /\ logCall[c].at \in {"none", "queued", "writing", "written", "failed"}
                                  /\ logCall[c].previous \in LogCalls \cup {NoLogCall}
                                  /\ logCall[c].start \in BOOLEAN
                                  /\ FileOf(c) \in LogNames \X (0..MaxDays)
           /\ MaxDays \in Nat /\ today \in 0..MaxDays
           /\ queueBySession \in [LogSessions -> LogCalls \cup {NoLogCall}]
           /\ initializedSessions \subseteq LogSessions
           /\ logFiles \in [LogNames \X (0..MaxDays) -> Seq(LogCalls)]
           /\ loggedOf \in [LogSessions -> Seq(LogCalls)]
<1>1. logCall \in [LogCalls -> LogRec]
    BY DEF LogInd, SessionLogTypeOK, LogRec
<1>2. \A c \in LogCalls : logCall[c] \in LogRec
    BY <1>1
<1>3. \A c \in LogCalls : /\ logCall[c].session \in LogSessions /\ logCall[c].day \in 0..MaxDays
                          /\ logCall[c].at \in {"none", "queued", "writing", "written", "failed"}
                          /\ logCall[c].previous \in LogCalls \cup {NoLogCall}
                          /\ logCall[c].start \in BOOLEAN
    BY <1>2 DEF LogRec, Over
<1>4. NameOf \in [LogSessions -> LogNames] /\ MaxDays \in Nat
    BY SessionLogAssumption
<1>5. \A c \in LogCalls : FileOf(c) \in LogNames \X (0..MaxDays)
    BY <1>3, <1>4 DEF FileOf
<1> QED BY <1>1, <1>3, <1>4, <1>5 DEF LogInd, SessionLogTypeOK

(* What each step does to the call it is about.                            *)
ToQueued(f, c, p) == [f EXCEPT ![c].at = "queued", ![c].previous = p]
ToWriting(f, c, n, b) == [f EXCEPT ![c].at = "writing", ![c].day = n, ![c].start = b]
ToOver(f, c, x) == [f EXCEPT ![c].at = x]

LEMMA QueuedRec ==
    ASSUME NEW f \in [LogCalls -> LogRec], NEW c \in LogCalls, NEW p \in LogCalls \cup {NoLogCall}
    PROVE  /\ ToQueued(f, c, p) \in [LogCalls -> LogRec]
           /\ \A d \in LogCalls : d # c => ToQueued(f, c, p)[d] = f[d]
           /\ ToQueued(f, c, p)[c].at = "queued" /\ ToQueued(f, c, p)[c].session = f[c].session
           /\ ToQueued(f, c, p)[c].previous = p
           /\ ToQueued(f, c, p)[c].day = f[c].day /\ ToQueued(f, c, p)[c].start = f[c].start
BY DEF LogRec, ToQueued

LEMMA WritingRec ==
    ASSUME NEW f \in [LogCalls -> LogRec], NEW c \in LogCalls, NEW n \in 0..MaxDays, NEW b \in BOOLEAN
    PROVE  /\ ToWriting(f, c, n, b) \in [LogCalls -> LogRec]
           /\ \A d \in LogCalls : d # c => ToWriting(f, c, n, b)[d] = f[d]
           /\ ToWriting(f, c, n, b)[c].at = "writing" /\ ToWriting(f, c, n, b)[c].session = f[c].session
           /\ ToWriting(f, c, n, b)[c].previous = f[c].previous
           /\ ToWriting(f, c, n, b)[c].day = n /\ ToWriting(f, c, n, b)[c].start = b
BY DEF LogRec, ToWriting

LEMMA OverRec ==
    ASSUME NEW f \in [LogCalls -> LogRec], NEW c \in LogCalls, NEW x \in Over
    PROVE  /\ ToOver(f, c, x) \in [LogCalls -> LogRec]
           /\ \A d \in LogCalls : d # c => ToOver(f, c, x)[d] = f[d]
           /\ ToOver(f, c, x)[c].at = x /\ ToOver(f, c, x)[c].session = f[c].session
           /\ ToOver(f, c, x)[c].previous = f[c].previous
           /\ ToOver(f, c, x)[c].day = f[c].day /\ ToOver(f, c, x)[c].start = f[c].start
BY DEF LogRec, ToOver

LEMMA InLog ==
    ASSUME LogInd, NEW s \in LogSessions
    PROVE  /\ loggedOf[s] \in Seq(LogCalls) /\ Len(loggedOf[s]) \in Nat
           /\ \A i \in 1..Len(loggedOf[s]) : /\ loggedOf[s][i] \in LogCalls
                                             /\ logCall[loggedOf[s][i]].session = s
                                             /\ logCall[loggedOf[s][i]].at # "none"
<1>1. loggedOf[s] \in Seq(LogCalls)
    BY LogFacts
<1> QED BY <1>1, ElementOfSeq, LenProperties DEF LogInd, ChainOK

(* A step that queues nothing leaves the chains as they are.               *)
LEMMA ChainFrame ==
    ASSUME LogInd, loggedOf' = loggedOf, queueBySession' = queueBySession,
           \A d \in LogCalls : /\ logCall'[d].session = logCall[d].session
                               /\ logCall'[d].previous = logCall[d].previous
                               /\ logCall'[d].at = "none" <=> logCall[d].at = "none"
    PROVE  ChainOK' /\ LoggedOnce'
<1>1. ChainOK /\ LoggedOnce
    BY DEF LogInd
<1>2. ChainOK'
    <2>1. ASSUME NEW s \in LogSessions, NEW i \in 1..Len(loggedOf[s])
          PROVE  LET c == loggedOf[s][i] IN
                   /\ logCall'[c].session = s /\ logCall'[c].at # "none"
                   /\ logCall'[c].previous = IF i = 1 THEN NoLogCall ELSE loggedOf[s][i - 1]
                   /\ \A j \in 1..Len(loggedOf[s]) : loggedOf[s][j] = c => j = i
        <3>1. loggedOf[s][i] \in LogCalls
            BY InLog
        <3> QED BY <1>1, <3>1 DEF ChainOK
    <2> QED BY <1>1, <2>1 DEF ChainOK
<1>3. LoggedOnce'
    BY <1>1 DEF LoggedOnce
<1> QED BY <1>2, <1>3

(* A step that writes nothing leaves what is read as it is.                *)
LEMMA BlocksFrame ==
    ASSUME LogInd, logFiles' = logFiles,
           \A d \in LogCalls : logCall'[d].at = "written" <=> logCall[d].at = "written",
           \A d \in LogCalls : logCall[d].at = "written" =>
             logCall'[d].session = logCall[d].session /\ logCall'[d].day = logCall[d].day
    PROVE  /\ BlocksKept'
           /\ \A c, d \in LogCalls :
                /\ logCall[c].at = "written" /\ logCall[d].at = "written" /\ ReadBefore(c, d)
                => ReadBefore(c, d)'
<1>1. \A d \in LogCalls : logCall[d].at = "written" => FileOf(d)' = FileOf(d)
    BY DEF FileOf
<1>2. BlocksKept
    BY DEF LogInd, LogComplete
<1>3. \A f \in LogNames \X (0..MaxDays) : \A p \in 1..Len(logFiles[f]) : logFiles[f][p] \in LogCalls
    BY LogFacts, ElementOfSeq
<1>4. BlocksKept'
    <2>1. (\A f \in LogNames \X (0..MaxDays) : \A p \in 1..Len(logFiles[f]) :
             /\ logCall[logFiles[f][p]].at = "written" /\ FileOf(logFiles[f][p]) = f
             /\ \A q \in 1..Len(logFiles[f]) : logFiles[f][q] = logFiles[f][p] => q = p)'
        <3> SUFFICES ASSUME NEW f \in LogNames \X (0..MaxDays), NEW p \in 1..Len(logFiles[f])
                     PROVE  /\ logCall'[logFiles[f][p]].at = "written" /\ FileOf(logFiles[f][p])' = f
                            /\ \A q \in 1..Len(logFiles[f]) : logFiles[f][q] = logFiles[f][p] => q = p
            BY DEF FileOf
        <3>1. PICK d \in LogCalls : d = logFiles[f][p]
            BY <1>3
        <3>2. logCall[d].at = "written" /\ FileOf(d) = f
            BY <1>2, <3>1 DEF BlocksKept
        <3>3. FileOf(d)' = f
            BY <1>1, <3>2
        <3>4. FileOf(logFiles[f][p])' = f
            BY <3>1, <3>3 DEF FileOf
        <3> QED BY <1>2, <3>1, <3>2, <3>4 DEF BlocksKept
    <2>2. (\A c \in LogCalls : logCall[c].at = "written" =>
             \E p \in 1..Len(logFiles[FileOf(c)]) : logFiles[FileOf(c)][p] = c)'
        BY <1>1, <1>2 DEF BlocksKept
    <2> QED BY <2>1, <2>2 DEF BlocksKept
<1>5. ASSUME NEW c \in LogCalls, NEW d \in LogCalls,
             logCall[c].at = "written", logCall[d].at = "written", ReadBefore(c, d)
      PROVE  ReadBefore(c, d)'
    BY <1>1, <1>5 DEF ReadBefore
<1> QED BY <1>4, <1>5

LEMMA LogCalledKeeps ==
    ASSUME LogInd, NEW c \in LogCalls, LogCalled(c)
    PROVE  LogInd'
<1> DEFINE s == logCall[c].session
           L == loggedOf[s]
           n == Len(L)
<1>0. /\ SessionLogTypeOK /\ ChainOK /\ LoggedOnce /\ OneAtATime /\ StartedOK /\ LogComplete /\ StartsOnce
      /\ s \in LogSessions /\ L \in Seq(LogCalls) /\ n \in Nat
    BY LogFacts, InLog DEF LogInd
<1>1. /\ logCall[c].at = "none"
      /\ logCall' = ToQueued(logCall, c, queueBySession[s])
      /\ queueBySession' = [queueBySession EXCEPT ![s] = c]
      /\ loggedOf' = [loggedOf EXCEPT ![s] = Append(L, c)]
      /\ initializedSessions' = initializedSessions /\ today' = today /\ logFiles' = logFiles
    BY DEF LogCalled, ToQueued
<1>2. /\ logCall' \in [LogCalls -> LogRec]
      /\ \A d \in LogCalls : d # c => logCall'[d] = logCall[d]
      /\ logCall'[c].at = "queued" /\ logCall'[c].session = s /\ logCall'[c].previous = queueBySession[s]
      /\ logCall'[c].day = logCall[c].day /\ logCall'[c].start = logCall[c].start
    <2>1. logCall \in [LogCalls -> LogRec] /\ queueBySession[s] \in LogCalls \cup {NoLogCall}
        BY <1>0, LogFacts
    <2> HIDE DEF s
    <2>2. /\ logCall' \in [LogCalls -> LogRec]
          /\ \A d \in LogCalls : d # c => logCall'[d] = logCall[d]
          /\ logCall'[c].at = "queued" /\ logCall'[c].session = logCall[c].session
          /\ logCall'[c].previous = queueBySession[s]
          /\ logCall'[c].day = logCall[c].day /\ logCall'[c].start = logCall[c].start
        BY <1>1, <2>1, QueuedRec
    <2> QED BY <2>2 DEF s
<1>3. /\ loggedOf'[s] \in Seq(LogCalls) /\ loggedOf'[s] # <<>>
      /\ Len(loggedOf'[s]) = n + 1 /\ loggedOf'[s][n + 1] = c
      /\ \A i \in 1..n : loggedOf'[s][i] = L[i]
      /\ \A x \in LogSessions : x # s => loggedOf'[x] = loggedOf[x]
    <2>1. loggedOf'[s] = Append(L, c) /\ \A x \in LogSessions : x # s => loggedOf'[x] = loggedOf[x]
        BY <1>0, <1>1, LogFacts
    <2> HIDE DEF L, n, s
    <2>2. /\ Append(L, c) \in Seq(LogCalls) /\ Append(L, c) # <<>>
          /\ Len(Append(L, c)) = Len(L) + 1
          /\ \A i \in 1..Len(L) : Append(L, c)[i] = L[i]
          /\ Append(L, c)[Len(L) + 1] = c
        BY <1>0, AppendProperties
    <2> QED BY <2>1, <2>2 DEF n
<1>4. \A x \in LogSessions : \A i \in 1..Len(loggedOf[x]) :
        /\ loggedOf[x][i] \in LogCalls /\ loggedOf[x][i] # c
        /\ logCall'[loggedOf[x][i]] = logCall[loggedOf[x][i]]
    BY <1>1, <1>2, InLog
<1>5. SessionLogTypeOK'
    <2>1. logCall' \in [LogCalls ->
             [at : {"none", "queued", "writing"} \cup Over, session : LogSessions,
              previous : LogCalls \cup {NoLogCall}, day : 0..MaxDays, start : BOOLEAN]]
        BY <1>2 DEF LogRec
    <2>2. queueBySession' \in [LogSessions -> LogCalls \cup {NoLogCall}]
        BY <1>1, LogFacts
    <2>3. loggedOf' \in [LogSessions -> Seq(LogCalls)]
        BY <1>0, <1>1, <1>3, LogFacts
    <2> QED BY <1>0, <1>1, <2>1, <2>2, <2>3 DEF SessionLogTypeOK, Over
<1> HIDE DEF n
<1>6. \A i \in 1..(n + 1) : i \in 1..n \/ i = n + 1
    BY <1>0
<1>7. ChainOK'
    <2>1. ASSUME NEW x \in LogSessions, x # s
          PROVE  /\ \A i \in 1..Len(loggedOf'[x]) :
                      /\ logCall'[loggedOf'[x][i]].session = x /\ logCall'[loggedOf'[x][i]].at # "none"
                      /\ logCall'[loggedOf'[x][i]].previous = IF i = 1 THEN NoLogCall ELSE loggedOf'[x][i - 1]
                      /\ \A j \in 1..Len(loggedOf'[x]) : loggedOf'[x][j] = loggedOf'[x][i] => j = i
                 /\ queueBySession'[x] = IF loggedOf'[x] = <<>> THEN NoLogCall ELSE loggedOf'[x][Len(loggedOf'[x])]
        <3>1. loggedOf'[x] = loggedOf[x] /\ queueBySession'[x] = queueBySession[x]
            BY <1>1, <1>3, <2>1, LogFacts
        <3> QED BY <1>0, <1>4, <3>1 DEF ChainOK
    <2>2. ASSUME NEW i \in 1..(n + 1)
          PROVE  /\ logCall'[loggedOf'[s][i]].session = s /\ logCall'[loggedOf'[s][i]].at # "none"
                 /\ logCall'[loggedOf'[s][i]].previous = IF i = 1 THEN NoLogCall ELSE loggedOf'[s][i - 1]
                 /\ \A j \in 1..(n + 1) : loggedOf'[s][j] = loggedOf'[s][i] => j = i
        <3>1. CASE i = n + 1
            <4>1. queueBySession[s] = IF L = <<>> THEN NoLogCall ELSE L[n]
                BY <1>0 DEF ChainOK, n
            <4>2. CASE n = 0
                <5>1. L = <<>>
                    BY <1>0, <4>2, EmptySeq DEF n
                <5> QED BY <1>2, <1>3, <1>6, <3>1, <4>1, <4>2, <5>1
            <4>3. CASE n # 0
                <5>1. L # <<>> /\ i # 1 /\ i - 1 = n /\ n \in 1..n
                    BY <1>0, <3>1, <4>3, EmptySeq DEF n
                <5>2. loggedOf'[s][i - 1] = L[n]
                    BY <1>3, <5>1
                <5>3. \A j \in 1..n : loggedOf'[s][j] # c
                    <6> TAKE j \in 1..n
                    <6>1. L[j] # c
                        BY <1>0, <1>4 DEF n
                    <6> QED BY <1>3, <6>1
                <5> QED BY <1>2, <1>3, <1>6, <3>1, <4>1, <5>1, <5>2, <5>3
            <4> QED BY <4>2, <4>3
        <3>2. CASE i # n + 1
            <4>1. i \in 1..n /\ (i # 1 => i - 1 \in 1..n)
                BY <1>0, <1>6, <3>2
            <4>2. loggedOf'[s][i] = L[i] /\ (i # 1 => loggedOf'[s][i - 1] = L[i - 1])
                BY <1>3, <4>1
            <4>3. logCall'[L[i]] = logCall[L[i]] /\ L[i] # c
                BY <1>0, <1>4, <4>1 DEF n
            <4>4. /\ logCall[L[i]].session = s /\ logCall[L[i]].at # "none"
                  /\ logCall[L[i]].previous = IF i = 1 THEN NoLogCall ELSE L[i - 1]
                  /\ \A j \in 1..n : L[j] = L[i] => j = i
                BY <1>0, <4>1 DEF ChainOK, n
            <4>5. \A j \in 1..(n + 1) : loggedOf'[s][j] = L[i] => j = i
                BY <1>3, <1>6, <4>3, <4>4
            <4> QED BY <4>2, <4>3, <4>4, <4>5
        <3> QED BY <3>1, <3>2
    <2>3. queueBySession'[s] = c
        BY <1>0, <1>1, LogFacts
    <2>4. \A x \in LogSessions :
            /\ \A i \in 1..Len(loggedOf'[x]) :
                 /\ logCall'[loggedOf'[x][i]].session = x /\ logCall'[loggedOf'[x][i]].at # "none"
                 /\ logCall'[loggedOf'[x][i]].previous = IF i = 1 THEN NoLogCall ELSE loggedOf'[x][i - 1]
                 /\ \A j \in 1..Len(loggedOf'[x]) : loggedOf'[x][j] = loggedOf'[x][i] => j = i
            /\ queueBySession'[x] = IF loggedOf'[x] = <<>> THEN NoLogCall ELSE loggedOf'[x][Len(loggedOf'[x])]
        <3> HIDE DEF s
        <3> TAKE x \in LogSessions
        <3>1. CASE x = s
            BY <1>3, <2>2, <2>3, <3>1
        <3>2. CASE x # s
            BY <2>1, <3>2
        <3> QED BY <3>1, <3>2
    <2> QED BY <2>4 DEF ChainOK
<1>8. LoggedOnce'
    <2> SUFFICES ASSUME NEW d \in LogCalls, logCall'[d].at # "none"
                 PROVE  \E i \in 1..Len(loggedOf'[logCall'[d].session]) : loggedOf'[logCall'[d].session][i] = d
        BY DEF LoggedOnce
    <2>1. CASE d = c
        <3>1. n + 1 \in 1..(n + 1)
            BY <1>0
        <3> QED BY <1>2, <1>3, <2>1, <3>1
    <2>2. CASE d # c
        <3>1. logCall'[d] = logCall[d] /\ logCall[d].session \in LogSessions
            BY <1>2, <2>2, LogFacts
        <3>2. PICK i \in 1..Len(loggedOf[logCall[d].session]) : loggedOf[logCall[d].session][i] = d
            BY <1>0, <3>1 DEF LoggedOnce
        <3>3. CASE logCall[d].session = s
            <4>1. i \in 1..n /\ i \in 1..(n + 1)
                BY <1>0, <3>2, <3>3 DEF n
            <4> QED BY <1>3, <3>1, <3>2, <3>3, <4>1
        <3>4. CASE logCall[d].session # s
            BY <1>3, <3>1, <3>2, <3>4
        <3> QED BY <3>3, <3>4
    <2> QED BY <2>1, <2>2
(* Of the positions only the last is new, and its call is queued.          *)
<1>9. ASSUME NEW x \in LogSessions, NEW i \in 1..Len(loggedOf'[x])
      PROVE  \/ x = s /\ i = n + 1 /\ loggedOf'[x][i] = c
             \/ /\ i \in 1..Len(loggedOf[x]) /\ loggedOf'[x][i] = loggedOf[x][i]
                /\ logCall'[loggedOf'[x][i]] = logCall[loggedOf[x][i]]
    <2>1. CASE x = s
        BY <1>3, <1>4, <1>6, <1>9, <2>1 DEF n
    <2>2. CASE x # s
        BY <1>3, <1>4, <1>9, <2>2
    <2> QED BY <2>1, <2>2
<1>10. \A x \in LogSessions : \A i \in 1..Len(loggedOf[x]) : i \in 1..Len(loggedOf'[x]) /\ loggedOf'[x][i] = loggedOf[x][i]
    <2> TAKE x \in LogSessions
    <2> TAKE i \in 1..Len(loggedOf[x])
    <2>1. CASE x = s
        <3>1. i \in 1..n /\ i \in 1..(n + 1)
            BY <1>0, <2>1 DEF n
        <3> QED BY <1>3, <2>1, <3>1
    <2>2. CASE x # s
        BY <1>3, <2>2
    <2> QED BY <2>1, <2>2
<1> HIDE DEF s, L
<1>11. OneAtATime'
    <2>1. ASSUME NEW x \in LogSessions, NEW i \in 1..Len(loggedOf'[x]), NEW j \in 1..Len(loggedOf'[x]),
                 i < j, logCall'[loggedOf'[x][j]].at \in Entered
          PROVE  /\ logCall'[loggedOf'[x][i]].at \in Over
                 /\ logCall'[loggedOf'[x][i]].day <= logCall'[loggedOf'[x][j]].day
        <3>1. loggedOf'[x][j] # c
            BY <1>2, <2>1 DEF Entered, Over
        <3>2. j \in 1..Len(loggedOf[x]) /\ logCall'[loggedOf'[x][j]] = logCall[loggedOf[x][j]]
            BY <1>9, <3>1
        <3>3. Len(loggedOf[x]) \in Nat
            BY InLog
        <3>3a. i \in Nat /\ i >= 1
            OBVIOUS
        <3>4. i \in 1..Len(loggedOf[x])
            BY <2>1, <3>2, <3>3, <3>3a
        <3>5. logCall'[loggedOf'[x][i]] = logCall[loggedOf[x][i]]
            BY <1>4, <1>10, <3>4
        <3> QED BY <1>0, <2>1, <3>2, <3>4, <3>5 DEF OneAtATime
    <2>2. \A d \in LogCalls : logCall'[d].day <= today'
        BY <1>0, <1>1, <1>2 DEF OneAtATime
    <2> QED BY <2>1, <2>2 DEF OneAtATime, Entered, Over
<1>12. StartedOK'
    <2> SUFFICES ASSUME NEW x \in LogSessions
                 PROVE  x \in initializedSessions <=>
                          \E i \in 1..Len(loggedOf'[x]) : logCall'[loggedOf'[x][i]].at \in Entered
        BY <1>1 DEF StartedOK, Entered, Over
    <2>1. x \in initializedSessions <=> \E i \in 1..Len(loggedOf[x]) : logCall[loggedOf[x][i]].at \in Entered
        BY <1>0 DEF StartedOK
    <2>2. ASSUME NEW i \in 1..Len(loggedOf'[x]), logCall'[loggedOf'[x][i]].at \in Entered
          PROVE  i \in 1..Len(loggedOf[x]) /\ logCall[loggedOf[x][i]].at \in Entered
        BY <1>2, <1>9, <2>2 DEF Entered, Over
    <2>3. ASSUME NEW i \in 1..Len(loggedOf[x]), logCall[loggedOf[x][i]].at \in Entered
          PROVE  i \in 1..Len(loggedOf'[x]) /\ logCall'[loggedOf'[x][i]].at \in Entered
        BY <1>4, <1>10, <2>3
    <2> QED BY <2>1, <2>2, <2>3
<1>13. StartsOnce'
    <2> SUFFICES ASSUME NEW x \in LogSessions, NEW i \in 1..Len(loggedOf'[x]),
                        logCall'[loggedOf'[x][i]].at \in Entered
                 PROVE  logCall'[loggedOf'[x][i]].start <=> i = 1
        BY DEF StartsOnce, Entered, Over
    <2>1. i \in 1..Len(loggedOf[x]) /\ logCall'[loggedOf'[x][i]] = logCall[loggedOf[x][i]]
        BY <1>2, <1>9 DEF Entered, Over
    <2> QED BY <1>0, <2>1 DEF StartsOnce, Entered
<1>14. \A d \in LogCalls : logCall'[d].at = "written" <=> logCall[d].at = "written"
    BY <1>1, <1>2
<1>15. \A d \in LogCalls : logCall[d].at = "written" =>
         logCall'[d].session = logCall[d].session /\ logCall'[d].day = logCall[d].day
    BY <1>1, <1>2
<1>16. /\ BlocksKept'
       /\ \A b, d \in LogCalls :
            /\ logCall[b].at = "written" /\ logCall[d].at = "written" /\ ReadBefore(b, d)
            => ReadBefore(b, d)'
    BY <1>1, <1>14, <1>15, BlocksFrame
<1>17. LogComplete'
    <2> SUFFICES ASSUME NEW x \in LogSessions, NEW i \in 1..Len(loggedOf'[x]), NEW j \in 1..Len(loggedOf'[x]),
                        NEW b, NEW d, b = loggedOf'[x][i], d = loggedOf'[x][j], i < j,
                        logCall'[b].at = "written", logCall'[d].at = "written"
                 PROVE  ReadBefore(b, d)'
        BY <1>16 DEF LogComplete, ReadBefore, FileOf
    <2>1. /\ i \in 1..Len(loggedOf[x]) /\ loggedOf'[x][i] = loggedOf[x][i]
          /\ logCall[loggedOf[x][i]].at = "written"
        BY <1>2, <1>9
    <2>2. /\ j \in 1..Len(loggedOf[x]) /\ loggedOf'[x][j] = loggedOf[x][j]
          /\ logCall[loggedOf[x][j]].at = "written"
        BY <1>2, <1>9
    <2>3. b \in LogCalls /\ d \in LogCalls /\ b = loggedOf[x][i] /\ d = loggedOf[x][j]
        BY <1>4, <2>1, <2>2
    <2>4. ReadBefore(b, d)
        BY <1>0, <2>1, <2>2, <2>3 DEF LogComplete
    <2> QED BY <1>16, <2>1, <2>2, <2>3, <2>4
<1> QED BY <1>5, <1>7, <1>8, <1>11, <1>12, <1>13, <1>17 DEF LogInd

LEMMA TaskBeginsKeeps ==
    ASSUME LogInd, NEW c \in LogCalls, TaskBegins(c)
    PROVE  LogInd'
<1> DEFINE s == logCall[c].session
           L == loggedOf[s]
           first == s \notin initializedSessions
<1>0. /\ SessionLogTypeOK /\ ChainOK /\ LoggedOnce /\ OneAtATime /\ StartedOK /\ LogComplete /\ StartsOnce
      /\ s \in LogSessions /\ L \in Seq(LogCalls) /\ Len(L) \in Nat
    BY LogFacts, InLog DEF LogInd
<1>1. /\ logCall[c].at = "queued"
      /\ logCall[c].previous # NoLogCall => logCall[logCall[c].previous].at \in Over
      /\ logCall' = ToWriting(logCall, c, today, first)
      /\ initializedSessions' = initializedSessions \cup {s}
      /\ queueBySession' = queueBySession /\ today' = today /\ logFiles' = logFiles /\ loggedOf' = loggedOf
    BY DEF TaskBegins, ToWriting
<1>2. /\ logCall' \in [LogCalls -> LogRec]
      /\ \A d \in LogCalls : d # c => logCall'[d] = logCall[d]
      /\ logCall'[c].at = "writing" /\ logCall'[c].session = s /\ logCall'[c].previous = logCall[c].previous
      /\ logCall'[c].day = today /\ logCall'[c].start = first
    <2>1. logCall \in [LogCalls -> LogRec] /\ today \in 0..MaxDays /\ first \in BOOLEAN
        BY LogFacts
    <2> HIDE DEF first, s
    <2>2. logCall' = ToWriting(logCall, c, today, first)
        BY <1>1
    <2>3. /\ logCall' \in [LogCalls -> LogRec]
          /\ \A d \in LogCalls : d # c => logCall'[d] = logCall[d]
          /\ logCall'[c].at = "writing" /\ logCall'[c].session = logCall[c].session
          /\ logCall'[c].previous = logCall[c].previous
          /\ logCall'[c].day = today /\ logCall'[c].start = first
        BY <2>1, <2>2, WritingRec
    <2> QED BY <2>3 DEF s
<1>3. SessionLogTypeOK'
    <2>1. logCall' \in [LogCalls ->
             [at : {"none", "queued", "writing"} \cup Over, session : LogSessions,
              previous : LogCalls \cup {NoLogCall}, day : 0..MaxDays, start : BOOLEAN]]
        BY <1>2 DEF LogRec
    <2> QED BY <1>0, <1>1, <2>1 DEF SessionLogTypeOK, Over
<1>4. ChainOK' /\ LoggedOnce'
    <2>1. \A d \in LogCalls : /\ logCall'[d].session = logCall[d].session
                              /\ logCall'[d].previous = logCall[d].previous
                              /\ logCall'[d].at = "none" <=> logCall[d].at = "none"
        BY <1>1, <1>2
    <2> QED BY <1>1, <2>1, ChainFrame
<1>5. PICK k \in 1..Len(L) : L[k] = c
    BY <1>0, <1>1 DEF LoggedOnce
(* Everything before c in its chain is over.                               *)
<1>6. k # 1 => k - 1 \in 1..Len(L) /\ L[k - 1] \in LogCalls /\ logCall[L[k - 1]].at \in Over
    <2> SUFFICES ASSUME k # 1
                 PROVE  k - 1 \in 1..Len(L) /\ L[k - 1] \in LogCalls /\ logCall[L[k - 1]].at \in Over
        OBVIOUS
    <2>1. k - 1 \in 1..Len(L)
        BY <1>0
    <2>2. L[k - 1] \in LogCalls
        BY <1>0, <2>1, InLog
    <2>3. logCall[c].previous = L[k - 1]
        BY <1>0, <1>5 DEF ChainOK
    <2>4. L[k - 1] # NoLogCall
        BY <2>2, SessionLogAssumption
    <2> QED BY <1>1, <2>1, <2>2, <2>3, <2>4
<1>7. \A i \in 1..Len(L) : i < k => logCall[L[i]].at \in Over /\ logCall[L[i]].day <= today
    <2> SUFFICES ASSUME NEW i \in 1..Len(L), i < k
                 PROVE  logCall[L[i]].at \in Over /\ logCall[L[i]].day <= today
        OBVIOUS
    <2>1. k # 1
        BY <1>0
    <2>2. i < k - 1 \/ i = k - 1
        BY <1>0
    <2>3. logCall[L[i]].at \in Over
        BY <1>0, <1>6, <2>1, <2>2 DEF OneAtATime, Entered
    <2>4. L[i] \in LogCalls
        BY <1>0, InLog
    <2> QED BY <1>0, <2>3, <2>4 DEF OneAtATime
<1>8. \A x \in LogSessions : \A i \in 1..Len(loggedOf[x]) :
        /\ loggedOf[x][i] \in LogCalls
        /\ loggedOf[x][i] = c => x = s /\ i = k
    <2> SUFFICES ASSUME NEW x \in LogSessions, NEW i \in 1..Len(loggedOf[x])
                 PROVE  /\ loggedOf[x][i] \in LogCalls
                        /\ loggedOf[x][i] = c => x = s /\ i = k
        OBVIOUS
    <2>1. loggedOf[x][i] \in LogCalls /\ logCall[loggedOf[x][i]].session = x
        BY InLog
    <2>2. loggedOf[x][i] = c => x = s
        BY <2>1
    <2>3. x = s /\ L[i] = L[k] => i = k
        BY <1>0, <1>5 DEF ChainOK
    <2> QED BY <1>5, <2>1, <2>2, <2>3
<1>9. first <=> k = 1
    <2>1. ASSUME k # 1  PROVE ~ first
        <3>1. k - 1 \in 1..Len(L) /\ logCall[L[k - 1]].at \in Entered
            BY <1>6, <2>1 DEF Entered
        <3> QED BY <1>0, <3>1 DEF StartedOK
    <2>2. ASSUME k = 1  PROVE first
        <3> SUFFICES ASSUME s \in initializedSessions  PROVE FALSE
            OBVIOUS
        <3>1. PICK i \in 1..Len(L) : logCall[L[i]].at \in Entered
            BY <1>0 DEF StartedOK
        <3>2. L[i] # c
            BY <1>1, <3>1 DEF Entered, Over
        <3>3. k < i
            BY <1>0, <1>5, <2>2, <3>2
        <3>4. logCall[L[k]].at \in Over
            BY <1>0, <3>1, <3>3 DEF OneAtATime
        <3> QED BY <1>1, <1>5, <3>4 DEF Over
    <2> QED BY <2>1, <2>2
<1> HIDE DEF s, L, first
<1>10. OneAtATime'
    <2>1. ASSUME NEW x \in LogSessions, NEW i \in 1..Len(loggedOf[x]), NEW j \in 1..Len(loggedOf[x]),
                 i < j, logCall'[loggedOf[x][j]].at \in Entered
          PROVE  /\ logCall'[loggedOf[x][i]].at \in Over
                 /\ logCall'[loggedOf[x][i]].day <= logCall'[loggedOf[x][j]].day
        <3>1. CASE loggedOf[x][j] = c
            <4>1. x = s /\ j = k
                BY <1>8, <3>1
            <4>2. loggedOf[x][i] # c /\ loggedOf[x][i] \in LogCalls
                BY <1>8, <2>1, <4>1
            <4>3. logCall'[loggedOf[x][i]] = logCall[loggedOf[x][i]]
                BY <1>2, <4>2
            <4>4. logCall[loggedOf[x][i]].at \in Over /\ logCall[loggedOf[x][i]].day <= today
                BY <1>7, <2>1, <4>1 DEF L
            <4> QED BY <1>2, <3>1, <4>3, <4>4
        <3>2. CASE loggedOf[x][j] # c
            <4>1. logCall'[loggedOf[x][j]] = logCall[loggedOf[x][j]]
                BY <1>2, <1>8, <3>2
            <4>2. /\ logCall[loggedOf[x][i]].at \in Over
                  /\ logCall[loggedOf[x][i]].day <= logCall[loggedOf[x][j]].day
                BY <1>0, <2>1, <4>1 DEF OneAtATime
            <4>3. loggedOf[x][i] # c
                BY <1>1, <4>2 DEF Over
            <4>4. logCall'[loggedOf[x][i]] = logCall[loggedOf[x][i]]
                BY <1>2, <1>8, <4>3
            <4> QED BY <4>1, <4>2, <4>4
        <3> QED BY <3>1, <3>2
    <2>2. \A d \in LogCalls : logCall'[d].day <= today
        <3>1. today <= today
            BY LogFacts
        <3> QED BY <1>0, <1>2, <3>1 DEF OneAtATime
    <2> QED BY <1>1, <2>1, <2>2 DEF OneAtATime, Entered, Over
<1>11. StartedOK'
    <2> SUFFICES ASSUME NEW x \in LogSessions
                 PROVE  x \in initializedSessions' <=>
                          \E i \in 1..Len(loggedOf[x]) : logCall'[loggedOf[x][i]].at \in Entered
        BY <1>1 DEF StartedOK, Entered, Over
    <2>1. x \in initializedSessions <=> \E i \in 1..Len(loggedOf[x]) : logCall[loggedOf[x][i]].at \in Entered
        BY <1>0 DEF StartedOK
    <2>2. CASE x = s
        <3>1. logCall'[loggedOf[x][k]].at \in Entered /\ k \in 1..Len(loggedOf[x])
            BY <1>2, <1>5, <2>2 DEF L, Entered
        <3> QED BY <1>1, <2>2, <3>1
    <2>3. CASE x # s
        <3>1. \A i \in 1..Len(loggedOf[x]) : logCall'[loggedOf[x][i]] = logCall[loggedOf[x][i]]
            BY <1>2, <1>8, <2>3
        <3> QED BY <1>1, <2>1, <2>3, <3>1
    <2> QED BY <2>2, <2>3
<1>12. StartsOnce'
    <2> SUFFICES ASSUME NEW x \in LogSessions, NEW i \in 1..Len(loggedOf[x]),
                        logCall'[loggedOf[x][i]].at \in Entered
                 PROVE  logCall'[loggedOf[x][i]].start <=> i = 1
        BY <1>1 DEF StartsOnce, Entered, Over
    <2>1. CASE loggedOf[x][i] = c
        BY <1>2, <1>8, <1>9, <2>1
    <2>2. CASE loggedOf[x][i] # c
        <3>1. logCall'[loggedOf[x][i]] = logCall[loggedOf[x][i]]
            BY <1>2, <1>8, <2>2
        <3> QED BY <1>0, <3>1 DEF StartsOnce, Entered
    <2> QED BY <2>1, <2>2
<1>13. \A d \in LogCalls : logCall'[d].at = "written" <=> logCall[d].at = "written"
    BY <1>1, <1>2
<1>14. \A d \in LogCalls : logCall[d].at = "written" =>
         logCall'[d].session = logCall[d].session /\ logCall'[d].day = logCall[d].day
    BY <1>1, <1>2
<1>15. /\ BlocksKept'
       /\ \A b, d \in LogCalls :
            /\ logCall[b].at = "written" /\ logCall[d].at = "written" /\ ReadBefore(b, d)
            => ReadBefore(b, d)'
    BY <1>1, <1>13, <1>14, BlocksFrame
<1>16. LogComplete'
    <2> SUFFICES ASSUME NEW x \in LogSessions, NEW i \in 1..Len(loggedOf'[x]), NEW j \in 1..Len(loggedOf'[x]),
                        NEW b, NEW d, b = loggedOf'[x][i], d = loggedOf'[x][j], i < j,
                        logCall'[b].at = "written", logCall'[d].at = "written"
                 PROVE  ReadBefore(b, d)'
        BY <1>15 DEF LogComplete, ReadBefore, FileOf
    <2>0. /\ i \in 1..Len(loggedOf[x]) /\ j \in 1..Len(loggedOf[x])
          /\ b = loggedOf[x][i] /\ d = loggedOf[x][j]
        BY <1>1
    <2>1. b \in LogCalls /\ d \in LogCalls
        BY <1>8, <2>0
    <2>2. ReadBefore(b, d)
        BY <1>0, <1>13, <2>0, <2>1 DEF LogComplete
    <2> QED BY <1>13, <1>15, <2>1, <2>2
<1> QED BY <1>3, <1>4, <1>10, <1>11, <1>12, <1>16 DEF LogInd

(* A write that ends, well or not.                                         *)
LEMMA OverKeeps ==
    ASSUME LogInd, NEW c \in LogCalls, NEW o \in Over, logCall[c].at = "writing",
           logCall' = ToOver(logCall, c, o),
           queueBySession' = queueBySession, initializedSessions' = initializedSessions,
           today' = today, loggedOf' = loggedOf
    PROVE  /\ logCall' \in [LogCalls -> LogRec]
           /\ \A d \in LogCalls : d # c => logCall'[d] = logCall[d]
           /\ logCall'[c].at = o
           /\ \A d \in LogCalls : /\ logCall'[d].session = logCall[d].session
                                  /\ logCall'[d].day = logCall[d].day
           /\ ChainOK' /\ LoggedOnce' /\ OneAtATime' /\ StartedOK' /\ StartsOnce'
<1>0. ChainOK /\ LoggedOnce /\ OneAtATime /\ StartedOK /\ StartsOnce
    BY DEF LogInd
<1>1. /\ logCall' \in [LogCalls -> LogRec]
      /\ \A d \in LogCalls : d # c => logCall'[d] = logCall[d]
      /\ logCall'[c].at = o /\ logCall'[c].session = logCall[c].session
      /\ logCall'[c].previous = logCall[c].previous
      /\ logCall'[c].day = logCall[c].day /\ logCall'[c].start = logCall[c].start
    <2>1. logCall \in [LogCalls -> LogRec]
        BY LogFacts
    <2> QED BY <2>1, OverRec
<1>2. \A d \in LogCalls : /\ logCall'[d].session = logCall[d].session
                          /\ logCall'[d].previous = logCall[d].previous
                          /\ logCall'[d].day = logCall[d].day /\ logCall'[d].start = logCall[d].start
                          /\ logCall'[d].at = "none" <=> logCall[d].at = "none"
                          /\ logCall'[d].at \in Entered <=> logCall[d].at \in Entered
                          /\ logCall[d].at \in Over => logCall'[d].at \in Over
    BY <1>1 DEF Entered, Over
<1>3. ChainOK' /\ LoggedOnce'
    BY <1>2, ChainFrame
<1>4. \A x \in LogSessions : \A i \in 1..Len(loggedOf[x]) : loggedOf[x][i] \in LogCalls
    BY InLog
<1>5. OneAtATime'
    <2>1. ASSUME NEW x \in LogSessions, NEW i \in 1..Len(loggedOf[x]), NEW j \in 1..Len(loggedOf[x]),
                 i < j, logCall'[loggedOf[x][j]].at \in Entered
          PROVE  /\ logCall'[loggedOf[x][i]].at \in Over
                 /\ logCall'[loggedOf[x][i]].day <= logCall'[loggedOf[x][j]].day
        <3>1. loggedOf[x][i] \in LogCalls /\ loggedOf[x][j] \in LogCalls
            BY <1>4
        <3>2. logCall[loggedOf[x][j]].at \in Entered
            BY <1>2, <2>1, <3>1
        <3>3. /\ logCall[loggedOf[x][i]].at \in Over
              /\ logCall[loggedOf[x][i]].day <= logCall[loggedOf[x][j]].day
            BY <1>0, <2>1, <3>2 DEF OneAtATime
        <3> QED BY <1>2, <3>1, <3>3
    <2>2. \A d \in LogCalls : logCall'[d].day <= today
        BY <1>0, <1>2 DEF OneAtATime
    <2> QED BY <2>1, <2>2 DEF OneAtATime, Entered, Over
<1>6. StartedOK'
    <2> SUFFICES ASSUME NEW x \in LogSessions
                 PROVE  x \in initializedSessions <=>
                          \E i \in 1..Len(loggedOf[x]) : logCall'[loggedOf[x][i]].at \in Entered
        BY DEF StartedOK, Entered, Over
    <2>1. \A i \in 1..Len(loggedOf[x]) :
            logCall'[loggedOf[x][i]].at \in Entered <=> logCall[loggedOf[x][i]].at \in Entered
        BY <1>2, <1>4
    <2> QED BY <1>0, <2>1 DEF StartedOK
<1>7. StartsOnce'
    <2> SUFFICES ASSUME NEW x \in LogSessions, NEW i \in 1..Len(loggedOf[x]),
                        logCall'[loggedOf[x][i]].at \in Entered
                 PROVE  logCall'[loggedOf[x][i]].start <=> i = 1
        BY DEF StartsOnce, Entered, Over
    <2>1. loggedOf[x][i] \in LogCalls
        BY <1>4
    <2>2. /\ logCall'[loggedOf[x][i]].start = logCall[loggedOf[x][i]].start
          /\ logCall[loggedOf[x][i]].at \in Entered
        BY <1>2, <2>1
    <2> QED BY <1>0, <2>2 DEF StartsOnce, Entered
<1> QED BY <1>1, <1>2, <1>3, <1>5, <1>6, <1>7

LEMMA WriteFailsKeeps ==
    ASSUME LogInd, NEW c \in LogCalls, WriteFails(c)
    PROVE  LogInd'
<1>0. SessionLogTypeOK /\ LogComplete
    BY DEF LogInd
<1>1. /\ logCall[c].at = "writing" /\ "failed" \in Over
      /\ logCall' = ToOver(logCall, c, "failed")
      /\ queueBySession' = queueBySession /\ initializedSessions' = initializedSessions
      /\ today' = today /\ loggedOf' = loggedOf /\ logFiles' = logFiles
    BY DEF WriteFails, ToOver, Over
<1>2. /\ logCall' \in [LogCalls -> LogRec]
      /\ \A d \in LogCalls : d # c => logCall'[d] = logCall[d]
      /\ logCall'[c].at = "failed"
      /\ \A d \in LogCalls : /\ logCall'[d].session = logCall[d].session
                             /\ logCall'[d].day = logCall[d].day
      /\ ChainOK' /\ LoggedOnce' /\ OneAtATime' /\ StartedOK' /\ StartsOnce'
    <2> DEFINE o == "failed"
    <2>1. o \in Over /\ logCall' = ToOver(logCall, c, o)
        BY <1>1
    <2> HIDE DEF o
    <2>2. /\ logCall' \in [LogCalls -> LogRec]
          /\ \A d \in LogCalls : d # c => logCall'[d] = logCall[d]
          /\ logCall'[c].at = o
          /\ \A d \in LogCalls : /\ logCall'[d].session = logCall[d].session
                                 /\ logCall'[d].day = logCall[d].day
          /\ ChainOK' /\ LoggedOnce' /\ OneAtATime' /\ StartedOK' /\ StartsOnce'
        BY <1>1, <2>1, OverKeeps
    <2> QED BY <2>2 DEF o
<1>3. SessionLogTypeOK'
    <2>1. logCall' \in [LogCalls ->
             [at : {"none", "queued", "writing"} \cup Over, session : LogSessions,
              previous : LogCalls \cup {NoLogCall}, day : 0..MaxDays, start : BOOLEAN]]
        BY <1>2 DEF LogRec
    <2> QED BY <1>0, <1>1, <2>1 DEF SessionLogTypeOK, Over
<1>4. \A d \in LogCalls : logCall'[d].at = "written" <=> logCall[d].at = "written"
    BY <1>1, <1>2
<1>5. /\ BlocksKept'
      /\ \A b, d \in LogCalls :
           /\ logCall[b].at = "written" /\ logCall[d].at = "written" /\ ReadBefore(b, d)
           => ReadBefore(b, d)'
    BY <1>1, <1>2, <1>4, BlocksFrame
<1>6. LogComplete'
    <2> SUFFICES ASSUME NEW x \in LogSessions, NEW i \in 1..Len(loggedOf'[x]), NEW j \in 1..Len(loggedOf'[x]),
                        NEW b, NEW d, b = loggedOf'[x][i], d = loggedOf'[x][j], i < j,
                        logCall'[b].at = "written", logCall'[d].at = "written"
                 PROVE  ReadBefore(b, d)'
        BY <1>5 DEF LogComplete, ReadBefore, FileOf
    <2>0. /\ i \in 1..Len(loggedOf[x]) /\ j \in 1..Len(loggedOf[x])
          /\ b = loggedOf[x][i] /\ d = loggedOf[x][j]
        BY <1>1
    <2>1. b \in LogCalls /\ d \in LogCalls
        BY <2>0, InLog
    <2>2. ReadBefore(b, d)
        BY <1>0, <1>4, <2>0, <2>1 DEF LogComplete
    <2> QED BY <1>4, <1>5, <2>1, <2>2
<1> QED BY <1>2, <1>3, <1>6 DEF LogInd

LEMMA BlockWrittenKeeps ==
    ASSUME LogInd, NEW c \in LogCalls, BlockWritten(c)
    PROVE  LogInd'
<1> DEFINE f0 == FileOf(c)
           F == logFiles[f0]
           n == Len(F)
<1>0. /\ SessionLogTypeOK /\ ChainOK /\ LoggedOnce /\ OneAtATime /\ StartedOK /\ LogComplete /\ StartsOnce
      /\ BlocksKept /\ f0 \in LogNames \X (0..MaxDays)
    BY LogFacts DEF LogInd, LogComplete
<1>0a. F \in Seq(LogCalls) /\ n \in Nat
    BY <1>0, LogFacts, LenProperties
<1>1. /\ logCall[c].at = "writing" /\ "written" \in Over
      /\ logFiles' = [logFiles EXCEPT ![f0] = Append(F, c)]
      /\ logCall' = ToOver(logCall, c, "written")
      /\ queueBySession' = queueBySession /\ initializedSessions' = initializedSessions
      /\ today' = today /\ loggedOf' = loggedOf
    BY DEF BlockWritten, ToOver, Over
<1>2. /\ logCall' \in [LogCalls -> LogRec]
      /\ \A d \in LogCalls : d # c => logCall'[d] = logCall[d]
      /\ logCall'[c].at = "written"
      /\ \A d \in LogCalls : /\ logCall'[d].session = logCall[d].session
                             /\ logCall'[d].day = logCall[d].day
      /\ ChainOK' /\ LoggedOnce' /\ OneAtATime' /\ StartedOK' /\ StartsOnce'
    <2> DEFINE o == "written"
    <2>1. o \in Over /\ logCall' = ToOver(logCall, c, o)
        BY <1>1
    <2> HIDE DEF o
    <2>2. /\ logCall' \in [LogCalls -> LogRec]
          /\ \A d \in LogCalls : d # c => logCall'[d] = logCall[d]
          /\ logCall'[c].at = o
          /\ \A d \in LogCalls : /\ logCall'[d].session = logCall[d].session
                                 /\ logCall'[d].day = logCall[d].day
          /\ ChainOK' /\ LoggedOnce' /\ OneAtATime' /\ StartedOK' /\ StartsOnce'
        BY <1>1, <2>1, OverKeeps
    <2> QED BY <2>2 DEF o
<1>3. /\ logFiles'[f0] \in Seq(LogCalls) /\ Len(logFiles'[f0]) = n + 1
      /\ \A p \in 1..n : logFiles'[f0][p] = F[p]
      /\ logFiles'[f0][n + 1] = c
      /\ \A f \in LogNames \X (0..MaxDays) : f # f0 => logFiles'[f] = logFiles[f]
    <2>1. /\ logFiles'[f0] = Append(F, c)
          /\ \A f \in LogNames \X (0..MaxDays) : f # f0 => logFiles'[f] = logFiles[f]
        <3>1. logFiles \in [LogNames \X (0..MaxDays) -> Seq(LogCalls)]
            BY LogFacts
        <3> HIDE DEF f0, F
        <3> QED BY <1>0, <1>1, <3>1
    <2> HIDE DEF F, f0, n
    <2>2. /\ Append(F, c) \in Seq(LogCalls)
          /\ Len(Append(F, c)) = Len(F) + 1
          /\ \A p \in 1..Len(F) : Append(F, c)[p] = F[p]
          /\ Append(F, c)[Len(F) + 1] = c
        BY <1>0a, AppendProperties
    <2> QED BY <2>1, <2>2 DEF n
<1>4. SessionLogTypeOK'
    <2>1. logCall' \in [LogCalls ->
             [at : {"none", "queued", "writing"} \cup Over, session : LogSessions,
              previous : LogCalls \cup {NoLogCall}, day : 0..MaxDays, start : BOOLEAN]]
        BY <1>2 DEF LogRec
    <2>2. logFiles' \in [LogNames \X (0..MaxDays) -> Seq(LogCalls)]
        <3>1. logFiles \in [LogNames \X (0..MaxDays) -> Seq(LogCalls)]
            BY LogFacts
        <3> HIDE DEF f0, F, n
        <3>2. Append(F, c) \in Seq(LogCalls)
            BY <1>0a, AppendProperties
        <3> QED BY <1>0, <1>1, <3>1, <3>2
    <2> QED BY <1>0, <1>1, <2>1, <2>2 DEF SessionLogTypeOK, Over
<1>5. \A d \in LogCalls : FileOf(d)' = FileOf(d) /\ FileOf(d) \in LogNames \X (0..MaxDays)
    <2>1. \A d \in LogCalls : FileOf(d) \in LogNames \X (0..MaxDays)
        BY LogFacts
    <2> QED BY <1>2, <2>1 DEF FileOf
<1>6. \A d \in LogCalls : logCall'[d].at = "written" <=> logCall[d].at = "written" \/ d = c
    BY <1>2
(* The block is in no file yet.                                            *)
<1>7. \A f \in LogNames \X (0..MaxDays) : \A p \in 1..Len(logFiles[f]) :
        /\ logFiles[f][p] \in LogCalls /\ logFiles[f][p] # c
        /\ logCall[logFiles[f][p]].at = "written" /\ FileOf(logFiles[f][p]) = f
        /\ \A q \in 1..Len(logFiles[f]) : logFiles[f][q] = logFiles[f][p] => q = p
    <2>1. \A f \in LogNames \X (0..MaxDays) : \A p \in 1..Len(logFiles[f]) : logFiles[f][p] \in LogCalls
        BY LogFacts, ElementOfSeq
    <2> QED BY <1>0, <1>1, <2>1 DEF BlocksKept
<1> HIDE DEF n
<1>8. \A p \in 1..(n + 1) : p \in 1..n \/ p = n + 1
    BY <1>0a
<1>9. \A p \in 1..n : F[p] \in LogCalls /\ F[p] # c /\ logCall[F[p]].at = "written" /\ FileOf(F[p]) = f0
    BY <1>0, <1>7 DEF n
<1>10. \A p, q \in 1..n : F[q] = F[p] => q = p
    BY <1>0, <1>7 DEF n
<1> HIDE DEF F
<1>11. \A p, q \in 1..(n + 1) : logFiles'[f0][q] = logFiles'[f0][p] => q = p
    BY <1>3, <1>8, <1>9, <1>10
<1>12. BlocksKept'
    <2>1. (\A f \in LogNames \X (0..MaxDays) : \A p \in 1..Len(logFiles[f]) :
             /\ logCall[logFiles[f][p]].at = "written" /\ FileOf(logFiles[f][p]) = f
             /\ \A q \in 1..Len(logFiles[f]) : logFiles[f][q] = logFiles[f][p] => q = p)'
        <3> SUFFICES ASSUME NEW f \in LogNames \X (0..MaxDays), NEW p \in 1..Len(logFiles'[f]),
                            NEW d, d = logFiles'[f][p]
                     PROVE  /\ logCall'[d].at = "written" /\ FileOf(d)' = f
                            /\ \A q \in 1..Len(logFiles'[f]) : logFiles'[f][q] = d => q = p
            BY DEF FileOf
        <3>1. CASE f = f0
            <4>1. p \in 1..(n + 1)
                BY <1>3, <3>1
            <4>2. d = c \/ (d \in LogCalls /\ logCall[d].at = "written" /\ FileOf(d) = f0)
                BY <1>3, <1>8, <1>9, <3>1, <4>1
            <4>3. d \in LogCalls /\ logCall'[d].at = "written" /\ FileOf(d) = f0
                BY <1>6, <4>2 DEF f0
            <4>4. \A q \in 1..Len(logFiles'[f]) : logFiles'[f][q] = d => q = p
                BY <1>3, <1>11, <3>1, <4>1
            <4> QED BY <1>5, <3>1, <4>3, <4>4
        <3>2. CASE f # f0
            <4>1. logFiles'[f] = logFiles[f]
                BY <1>3, <3>2
            <4>2. /\ d \in LogCalls /\ logCall[d].at = "written" /\ FileOf(d) = f
                  /\ \A q \in 1..Len(logFiles[f]) : logFiles[f][q] = d => q = p
                BY <1>7, <4>1
            <4> QED BY <1>5, <1>6, <4>1, <4>2
        <3> QED BY <3>1, <3>2
    <2>2. \A d \in LogCalls : logCall'[d].at = "written" =>
             \E p \in 1..Len(logFiles'[FileOf(d)]) : logFiles'[FileOf(d)][p] = d
        <3> SUFFICES ASSUME NEW d \in LogCalls, logCall'[d].at = "written"
                     PROVE  \E p \in 1..Len(logFiles'[FileOf(d)]) : logFiles'[FileOf(d)][p] = d
            OBVIOUS
        <3>1. CASE d = c
            <4>1. n + 1 \in 1..(n + 1)
                BY <1>0a
            <4> QED BY <1>3, <3>1, <4>1 DEF f0
        <3>2. CASE d # c
            <4>1. PICK p \in 1..Len(logFiles[FileOf(d)]) : logFiles[FileOf(d)][p] = d
                BY <1>0, <1>6, <3>2 DEF BlocksKept
            <4>2. CASE FileOf(d) = f0
                <5>1. p \in 1..n /\ p \in 1..(n + 1)
                    BY <1>0a, <4>1, <4>2 DEF n, F
                <5> QED BY <1>3, <4>1, <4>2, <5>1 DEF F
            <4>3. CASE FileOf(d) # f0
                BY <1>3, <1>5, <4>1, <4>3
            <4> QED BY <4>2, <4>3
        <3> QED BY <3>1, <3>2
    <2>3. (\A d \in LogCalls : logCall[d].at = "written" =>
             \E p \in 1..Len(logFiles[FileOf(d)]) : logFiles[FileOf(d)][p] = d)'
        BY <1>5, <2>2
    <2> QED BY <2>1, <2>3 DEF BlocksKept
<1>13. ASSUME NEW x \in LogSessions, NEW i \in 1..Len(loggedOf[x]), NEW j \in 1..Len(loggedOf[x]),
              NEW b, NEW d, b = loggedOf[x][i], d = loggedOf[x][j], i < j,
              logCall'[b].at = "written", logCall'[d].at = "written"
       PROVE  ReadBefore(b, d)'
    <2>1. b \in LogCalls /\ d \in LogCalls
        BY <1>13, InLog
    <2>2. Len(loggedOf[x]) \in Nat
        BY InLog
    (* A call behind c in the chain has not been entered.                  *)
    <2>3. b # c
        <3> SUFFICES ASSUME b = c  PROVE FALSE
            OBVIOUS
        <3>1. d # c
            <4>1. \A k \in 1..Len(loggedOf[x]) : loggedOf[x][k] = b => k = i
                BY <1>0, <1>13 DEF ChainOK
            <4> QED BY <1>13, <4>1, <2>2
        <3>2. logCall[d].at \in Entered
            BY <1>6, <1>13, <2>1, <3>1 DEF Entered, Over
        <3>3. logCall[b].at \in Over
            BY <1>0, <1>13, <3>2 DEF OneAtATime
        <3> QED BY <1>1, <3>3 DEF Over
    <2>4. logCall[b].at = "written"
        BY <1>6, <1>13, <2>1, <2>3
    <2>5. logCall[b].day <= logCall[d].day
        <3>1. logCall[d].at \in Entered
            BY <1>1, <1>6, <1>13, <2>1 DEF Entered, Over
        <3> QED BY <1>0, <1>13, <3>1 DEF OneAtATime
    <2>6. logCall[b].day \in Nat /\ logCall[d].day \in Nat
        <3>1. logCall[b].day \in 0..MaxDays /\ logCall[d].day \in 0..MaxDays
            BY <2>1, LogFacts
        <3> QED BY <3>1
    <2>7. CASE logCall[b].day < logCall[d].day
        BY <1>2, <2>1, <2>7 DEF ReadBefore
    <2>8. CASE logCall[b].day = logCall[d].day
        <3>1. \A p, q \in 1..Len(logFiles'[FileOf(b)]) :
                logFiles'[FileOf(b)][p] = b /\ logFiles'[FileOf(b)][q] = d => p < q
            <4> SUFFICES ASSUME NEW p \in 1..Len(logFiles'[FileOf(b)]), NEW q \in 1..Len(logFiles'[FileOf(b)]),
                                logFiles'[FileOf(b)][p] = b, logFiles'[FileOf(b)][q] = d
                         PROVE  p < q
                OBVIOUS
            <4>1. CASE FileOf(b) = f0
                <5>1. p \in 1..n /\ F[p] = b
                    BY <1>3, <1>8, <2>3, <4>1
                <5>2. CASE q = n + 1
                    BY <1>0a, <5>1, <5>2
                <5>3. CASE q # n + 1
                    <6>1. q \in 1..n /\ F[q] = d
                        BY <1>3, <1>8, <4>1, <5>3
                    <6>2. logCall[d].at = "written"
                        BY <1>9, <6>1
                    <6>3. ReadBefore(b, d)
                        BY <1>0, <1>13, <2>4, <6>2 DEF LogComplete
                    <6> QED BY <2>6, <2>8, <4>1, <5>1, <6>1, <6>3 DEF ReadBefore, n, F
                <5> QED BY <5>2, <5>3
            <4>2. CASE FileOf(b) # f0
                <5>1. logFiles'[FileOf(b)] = logFiles[FileOf(b)]
                    BY <1>3, <1>5, <2>1, <4>2
                <5>2. logCall[d].at = "written"
                    BY <1>5, <1>7, <2>1, <5>1
                <5>3. ReadBefore(b, d)
                    BY <1>0, <1>13, <2>4, <5>2 DEF LogComplete
                <5> QED BY <2>6, <2>8, <5>1, <5>3 DEF ReadBefore
            <4> QED BY <4>1, <4>2
        <3> QED BY <1>2, <1>5, <2>1, <2>8, <3>1 DEF ReadBefore
    <2> QED BY <2>5, <2>6, <2>7, <2>8
<1>14. LogComplete'
    <2> SUFFICES ASSUME NEW x \in LogSessions, NEW i \in 1..Len(loggedOf'[x]), NEW j \in 1..Len(loggedOf'[x]),
                        NEW b, NEW d, b = loggedOf'[x][i], d = loggedOf'[x][j], i < j,
                        logCall'[b].at = "written", logCall'[d].at = "written"
                 PROVE  ReadBefore(b, d)'
        BY <1>12 DEF LogComplete, ReadBefore, FileOf
    <2>1. /\ i \in 1..Len(loggedOf[x]) /\ j \in 1..Len(loggedOf[x])
          /\ b = loggedOf[x][i] /\ d = loggedOf[x][j]
        BY <1>1
    <2> QED BY <1>13, <2>1
<1> QED BY <1>2, <1>4, <1>14 DEF LogInd

LEMMA LogStep == LogInd /\ [SessionLogNext]_logVars => LogInd'
<1> SUFFICES ASSUME LogInd, [SessionLogNext]_logVars  PROVE LogInd'
    OBVIOUS
<1>1. CASE \E c \in LogCalls : LogCalled(c) \/ TaskBegins(c) \/ BlockWritten(c) \/ WriteFails(c)
    BY <1>1, LogCalledKeeps, TaskBeginsKeeps, BlockWrittenKeeps, WriteFailsKeeps
<1>2. CASE Midnight \/ UNCHANGED logVars
    <2>1. /\ logCall' = logCall /\ queueBySession' = queueBySession /\ logFiles' = logFiles
          /\ initializedSessions' = initializedSessions /\ loggedOf' = loggedOf
        BY <1>2 DEF Midnight, logVars
    <2>2. today' \in 0..MaxDays /\ today <= today'
        <3>1. today \in 0..MaxDays /\ MaxDays \in Nat
            BY LogFacts
        <3> QED BY <1>2, <3>1 DEF Midnight, logVars
    <2>3. SessionLogTypeOK'
        BY <2>1, <2>2 DEF LogInd, SessionLogTypeOK, Over
    <2>4. ChainOK' /\ LoggedOnce'
        BY <2>1, ChainFrame
    <2>5. OneAtATime'
        <3>1. \A d \in LogCalls : logCall[d].day <= today'
            <4> TAKE d \in LogCalls
            <4>1. logCall[d].day \in 0..MaxDays /\ today \in 0..MaxDays /\ MaxDays \in Nat
                BY LogFacts
            <4>2. logCall[d].day <= today
                BY DEF LogInd, OneAtATime
            <4> QED BY <2>2, <4>1, <4>2
        <3> QED BY <2>1, <3>1 DEF LogInd, OneAtATime, Entered, Over
    <2>6. StartedOK' /\ StartsOnce'
        BY <2>1 DEF LogInd, StartedOK, StartsOnce, Entered, Over
    <2>7. LogComplete'
        <3>1. /\ BlocksKept'
              /\ \A b, d \in LogCalls :
                   /\ logCall[b].at = "written" /\ logCall[d].at = "written" /\ ReadBefore(b, d)
                   => ReadBefore(b, d)'
            BY <2>1, BlocksFrame
        <3>1a. BlocksKept'
            BY <3>1
        <3> SUFFICES ASSUME NEW x \in LogSessions, NEW i \in 1..Len(loggedOf'[x]), NEW j \in 1..Len(loggedOf'[x]),
                            NEW b, NEW d, b = loggedOf'[x][i], d = loggedOf'[x][j], i < j,
                            logCall'[b].at = "written", logCall'[d].at = "written"
                     PROVE  ReadBefore(b, d)'
            BY <3>1a DEF LogComplete, ReadBefore, FileOf
        <3>2. /\ i \in 1..Len(loggedOf[x]) /\ j \in 1..Len(loggedOf[x])
              /\ b = loggedOf[x][i] /\ d = loggedOf[x][j]
              /\ logCall[b].at = "written" /\ logCall[d].at = "written"
            BY <2>1
        <3>3. b \in LogCalls /\ d \in LogCalls
            BY <3>2, InLog
        <3>4. ReadBefore(b, d)
            BY <3>2 DEF LogInd, LogComplete
        <3> QED BY <3>1, <3>2, <3>3, <3>4
    <2> QED BY <2>3, <2>4, <2>5, <2>6, <2>7 DEF LogInd
<1> QED BY <1>1, <1>2 DEF SessionLogNext

LEMMA LogStart == SessionLogInit => LogInd
<1> SUFFICES ASSUME SessionLogInit  PROVE LogInd
    OBVIOUS
<1>1. PICK of \in [LogCalls -> LogSessions] : logCall = [c \in LogCalls |-> Unlogged(of[c])]
    BY DEF SessionLogInit
<1>2. /\ queueBySession = [s \in LogSessions |-> NoLogCall] /\ initializedSessions = {} /\ today = 0
      /\ logFiles = [f \in LogNames \X (0..MaxDays) |-> <<>>]
      /\ loggedOf = [s \in LogSessions |-> <<>>]
    BY DEF SessionLogInit
<1>3. <<>> \in Seq(LogCalls) /\ Len(<<>>) = 0 /\ 1..0 = {} /\ MaxDays \in Nat /\ 0 \in 0..MaxDays
    BY SessionLogAssumption
<1>4. \A c \in LogCalls : /\ Unlogged(of[c]) \in LogRec
                          /\ logCall[c].at = "none" /\ logCall[c].day = 0
    BY <1>1, <1>3 DEF Unlogged, LogRec
<1>5. logCall \in [LogCalls -> LogRec]
    BY <1>1, <1>4
<1>6. SessionLogTypeOK
    <2>1. logFiles \in [LogNames \X (0..MaxDays) -> Seq(LogCalls)] /\ loggedOf \in [LogSessions -> Seq(LogCalls)]
        BY <1>2, <1>3
    <2> QED BY <1>2, <1>3, <1>5, <2>1 DEF SessionLogTypeOK, LogRec
<1>7. \A s \in LogSessions : loggedOf[s] = <<>> /\ 1..Len(loggedOf[s]) = {}
    BY <1>2, <1>3
<1>8. \A f \in LogNames \X (0..MaxDays) : 1..Len(logFiles[f]) = {}
    BY <1>2, <1>3
<1>9. ChainOK /\ LoggedOnce
    BY <1>2, <1>4, <1>7 DEF ChainOK, LoggedOnce
<1>10. OneAtATime
    <2>1. 0 <= 0
        OBVIOUS
    <2> QED BY <1>2, <1>4, <1>7, <2>1 DEF OneAtATime
<1>11. StartedOK /\ StartsOnce
    BY <1>2, <1>7 DEF StartedOK, StartsOnce
<1>12. BlocksKept
    BY <1>4, <1>8 DEF BlocksKept
<1>13. LogComplete
    BY <1>7, <1>12 DEF LogComplete
<1> QED BY <1>6, <1>9, <1>10, <1>11, <1>13 DEF LogInd

(* Whatever turns, checkpoints and resumes are logged at once and          *)
(* whichever writes fail, session-text-log.ts keeps each session's log     *)
(* complete, in the order of the calls, and started once.                  *)
THEOREM SessionLogsComplete == SessionLogSpec => []SessionLogInv
<1>1. LogInd => SessionLogInv
    BY DEF LogInd, SessionLogInv
<1> QED BY <1>1, LogStart, LogStep, PTL DEF SessionLogSpec
=============================================================================

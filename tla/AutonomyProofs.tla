--------------------------- MODULE AutonomyProofs ---------------------------
(***************************************************************************)
(* Proofs of the parts of an autonomous agent's working day that meet only *)
(* in its composition: the scanner of the job market, the bids it leaves   *)
(* behind, the mood analyzer its posts go through and the audit log of     *)
(* what it did.                                                            *)
(***************************************************************************)
EXTENDS JobScanner, BidLifecycle, SentimentAnalyzer, AuditLog,
        FiniteSetTheorems, SequenceTheorems, TLAPS

-----------------------------------------------------------------------------
(* The scanner.                                                            *)

LEMMA SetsAreFinite ==
    ASSUME ScannerTypeOK
    PROVE  /\ IsFiniteSet(activeBidJobIds) /\ Cardinality(activeBidJobIds) \in Nat
           /\ IsFiniteSet(Evaluating) /\ Cardinality(Evaluating) \in Nat
           /\ Cardinality(Evaluating) <= Cardinality(Loops) /\ Cardinality(Loops) \in Nat
<1>1. activeBidJobIds \subseteq OpenJobs /\ Evaluating \subseteq Loops
  BY DEF ScannerTypeOK, Evaluating
<1> QED BY <1>1, JobScannerAssumption, FS_Subset, FS_CardinalityType

(* A step that adds no active bid and puts no loop before its evaluator.   *)
LEMMA CapacityFrame ==
    ASSUME ScannerTypeOK, CapacityKept, activeBidJobIds' \subseteq activeBidJobIds,
           Evaluating' \subseteq Evaluating, seeded' = seeded
    PROVE  CapacityKept'
<1>1. Cardinality(activeBidJobIds') <= Cardinality(activeBidJobIds) /\ Cardinality(activeBidJobIds') \in Nat
  BY SetsAreFinite, FS_Subset, FS_CardinalityType
<1>2. Cardinality(Evaluating') <= Cardinality(Evaluating) /\ Cardinality(Evaluating') \in Nat
  BY SetsAreFinite, FS_Subset, FS_CardinalityType
<1> QED BY <1>1, <1>2, SetsAreFinite, JobScannerAssumption DEF CapacityKept, Allowed, ScannerTypeOK

(* A loop that moves on, dropping what it had to look at, before anything  *)
(* but its evaluator.                                                      *)
LEMMA LoopMovesOn ==
    ASSUME ScannerInv, NEW l \in Loops, Alive(l),
           NEW s \in {"scheduled", "fetching", "ending"},
           loop' = [loop EXCEPT ![l] = At(s)],
           UNCHANGED <<stopped, timerId, bidJobIds, activeBidJobIds, bids, seeded>>
    PROVE  ScannerInv'
<1> USE DEF ScannerInv
<1>1. ScannerTypeOK'
  BY DEF ScannerTypeOK, At
<1>2. RunningConsistently'
  BY DEF RunningConsistently, Alive, At, ScannerTypeOK
<1>3. NothingPendingTwice' /\ OneBidPerLoop'
  BY DEF NothingPendingTwice, OneBidPerLoop, Pending, At, ScannerTypeOK
<1>4. Evaluating' \subseteq Evaluating
  BY DEF Evaluating, At, ScannerTypeOK
<1> QED BY <1>1, <1>2, <1>3, <1>4, CapacityFrame

LEMMA NextJobKeeps ==
    ASSUME ScannerInv, NEW l \in Loops, Alive(l), NEW rest \in SUBSET OpenJobs,
           \A j \in rest : bids[<<l, j>>] = 0,
           NextJob(l, rest),
           UNCHANGED <<stopped, timerId, bidJobIds, activeBidJobIds, bids, seeded>>
    PROVE  ScannerInv'
<1>1. CASE loop' = [loop EXCEPT ![l] = At("ending")]
  BY <1>1, LoopMovesOn
<1>2. ASSUME Cardinality(activeBidJobIds) < maxActiveBids, NEW j \in rest,
             loop' = [loop EXCEPT ![l] = [at |-> "evaluating", job |-> j, jobs |-> rest \ {j}]]
      PROVE  ScannerInv'
  <2> USE DEF ScannerInv
  <2>1. ScannerTypeOK'
    BY <1>2 DEF ScannerTypeOK
  <2>2. RunningConsistently'
    BY <1>2 DEF RunningConsistently, Alive, ScannerTypeOK
  <2>3. OneBidPerLoop'
    BY DEF OneBidPerLoop
  <2>4. NothingPendingTwice'
    <3> SUFFICES ASSUME NEW m \in Loops, NEW k \in OpenJobs, bids[<<m, k>>] > 0
                 PROVE  k \in bidJobIds /\ k \notin Pending(m)'
      BY DEF NothingPendingTwice
    <3>1. CASE m = l
      BY <1>2, <3>1 DEF Pending, ScannerTypeOK, NothingPendingTwice
    <3>2. CASE m # l
      BY <1>2, <3>2 DEF Pending, ScannerTypeOK, NothingPendingTwice
    <3> QED BY <3>1, <3>2
  <2>5. CapacityKept'
    <3>1. /\ Cardinality(Evaluating') <= Cardinality(Loops) /\ Cardinality(Evaluating') \in Nat
          /\ Cardinality(activeBidJobIds) \in Nat /\ Cardinality(Loops) \in Nat
      <4>1. Evaluating' \subseteq Loops
        BY DEF Evaluating
      <4> QED BY <4>1, SetsAreFinite, JobScannerAssumption, FS_Subset, FS_CardinalityType
    <3> QED BY <1>2, <3>1, JobScannerAssumption DEF CapacityKept, Allowed, ScannerTypeOK
  <2> QED BY <2>1, <2>2, <2>3, <2>4, <2>5
<1> QED BY <1>1, <1>2 DEF NextJob

LEMMA BidKeeps ==
    ASSUME ScannerInv, NEW l \in Loops, Bid(l)
    PROVE  ScannerInv'
<1> USE DEF ScannerInv, Bid
<1>1. PICK j \in OpenJobs : j = loop[l].job /\ j \notin loop[l].jobs
  BY DEF ScannerTypeOK
<1>2. bids[<<l, j>>] = 0
  BY <1>1 DEF NothingPendingTwice, Pending, ScannerTypeOK
<1>3. /\ bids' \in [Loops \X OpenJobs -> Nat] /\ bids'[<<l, j>>] = 1
      /\ \A m \in Loops, k \in OpenJobs : <<m, k>> # <<l, j>> => bids'[<<m, k>>] = bids[<<m, k>>]
  BY <1>1, <1>2 DEF ScannerTypeOK
<1>4. ScannerTypeOK'
  BY <1>1, <1>3 DEF ScannerTypeOK
<1>5. RunningConsistently'
  BY DEF RunningConsistently, Alive, ScannerTypeOK
<1>6. OneBidPerLoop'
  <2> SUFFICES ASSUME NEW m \in Loops, NEW k \in OpenJobs PROVE bids'[<<m, k>>] <= 1
    BY DEF OneBidPerLoop
  <2>1. CASE <<m, k>> = <<l, j>>
    BY <1>3, <2>1
  <2>2. CASE <<m, k>> # <<l, j>>
    BY <1>3, <2>2 DEF OneBidPerLoop
  <2> QED BY <2>1, <2>2
<1>7. NothingPendingTwice'
  <2> SUFFICES ASSUME NEW m \in Loops, NEW k \in OpenJobs, bids'[<<m, k>>] > 0
               PROVE  k \in bidJobIds' /\ k \notin Pending(m)'
    BY DEF NothingPendingTwice
  <2>1. Pending(m)' \subseteq Pending(m) /\ Pending(l)' = loop[l].jobs
    BY DEF Pending, ScannerTypeOK
  <2>2. CASE <<m, k>> = <<l, j>>
    BY <1>1, <2>1, <2>2
  <2>3. CASE <<m, k>> # <<l, j>>
    BY <1>3, <2>1, <2>3 DEF NothingPendingTwice
  <2> QED BY <2>2, <2>3
<1>8. CapacityKept'
  <2>1. Evaluating' = Evaluating \ {l} /\ l \in Evaluating
    BY DEF Evaluating, ScannerTypeOK
  <2>2. Cardinality(Evaluating') = Cardinality(Evaluating) - 1
    BY <2>1, SetsAreFinite, FS_RemoveElement
  <2>3. /\ Cardinality(activeBidJobIds') <= Cardinality(activeBidJobIds) + 1
        /\ Cardinality(activeBidJobIds') \in Nat
    <3>1. activeBidJobIds' = activeBidJobIds \cup {j} /\ IsFiniteSet(activeBidJobIds)
      BY <1>1, SetsAreFinite
    <3>2. /\ IsFiniteSet(activeBidJobIds')
          /\ Cardinality(activeBidJobIds') = Cardinality(activeBidJobIds)
             \/ Cardinality(activeBidJobIds') = Cardinality(activeBidJobIds) + 1
      <4>1. CASE j \in activeBidJobIds
        BY <3>1, <4>1, FS_AddElement
      <4>2. CASE j \notin activeBidJobIds
        BY <3>1, <4>2, FS_AddElement
      <4> QED BY <4>1, <4>2
    <3> QED BY <3>2, SetsAreFinite, FS_CardinalityType
  <2> QED BY <2>2, <2>3, SetsAreFinite, JobScannerAssumption DEF CapacityKept, Allowed, ScannerTypeOK
<1> QED BY <1>4, <1>5, <1>6, <1>7, <1>8

LEMMA StartStopKeep ==
    ASSUME ScannerInv, StopScanner \/ \E l \in Loops : StartScanner(l)
    PROVE  ScannerInv'
<1> USE DEF ScannerInv
<1>1. CASE StopScanner
  <2>1. ScannerTypeOK' /\ RunningConsistently' /\ NothingPendingTwice' /\ OneBidPerLoop'
    BY <1>1, JobScannerAssumption DEF StopScanner, ScannerTypeOK, RunningConsistently, NothingPendingTwice, OneBidPerLoop,
              Pending, At
  <2>2. Evaluating' \subseteq Evaluating
    BY <1>1 DEF StopScanner, Evaluating, At, ScannerTypeOK
  <2> QED BY <1>1, <2>1, <2>2, CapacityFrame DEF StopScanner
<1>2. ASSUME NEW l \in Loops, StartScanner(l) PROVE ScannerInv'
  <2>1. ScannerTypeOK' /\ RunningConsistently' /\ NothingPendingTwice' /\ OneBidPerLoop'
    BY <1>2, JobScannerAssumption DEF StartScanner, ScannerTypeOK, RunningConsistently, NothingPendingTwice, OneBidPerLoop,
              Pending, At, Alive
  <2>2. Evaluating' \subseteq Evaluating
    BY <1>2 DEF StartScanner, Evaluating, At, ScannerTypeOK
  <2> QED BY <1>2, <2>1, <2>2, CapacityFrame DEF StartScanner
<1> QED BY <1>1, <1>2

LEMMA ScanEndsKeeps ==
    ASSUME ScannerInv, NEW l \in Loops, ScanEnds(l)
    PROVE  ScannerInv'
<1> USE DEF ScannerInv
<1>1. ScannerTypeOK' /\ NothingPendingTwice' /\ OneBidPerLoop'
  <2>1. PICK s \in {"none", "scheduled"}, t \in Loops \cup {NoLoop} :
          loop' = [loop EXCEPT ![l] = At(s)] /\ timerId' = t
    BY DEF ScanEnds
  <2>2. ScannerTypeOK'
    BY <2>1 DEF ScanEnds, ScannerTypeOK, At
  <2>3. NothingPendingTwice' /\ OneBidPerLoop'
    BY <2>1 DEF ScanEnds, ScannerTypeOK, NothingPendingTwice, OneBidPerLoop, Pending, At
  <2> QED BY <2>2, <2>3
<1>2. RunningConsistently'
  BY JobScannerAssumption DEF ScanEnds, RunningConsistently, Alive, At, ScannerTypeOK
<1>3. Evaluating' \subseteq Evaluating
  BY DEF ScanEnds, Evaluating, At, ScannerTypeOK
<1> QED BY <1>1, <1>2, <1>3, CapacityFrame DEF ScanEnds

LEMMA MarketTellsKeeps ==
    ASSUME ScannerInv,
           \/ \E S \in SUBSET OpenJobs : SetActiveBids(S)
           \/ \E j \in OpenJobs : MarkBidInactive(j)
    PROVE  ScannerInv'
<1> USE DEF ScannerInv
<1>1. ASSUME NEW S \in SUBSET OpenJobs, SetActiveBids(S) PROVE ScannerInv'
  <2>2. Cardinality(S) \in Nat
    BY JobScannerAssumption, FS_Subset, FS_CardinalityType
  <2>1. ScannerTypeOK' /\ RunningConsistently' /\ NothingPendingTwice' /\ OneBidPerLoop' /\ Evaluating' = Evaluating
    BY <1>1, <2>2 DEF SetActiveBids, ScannerTypeOK, RunningConsistently, NothingPendingTwice, OneBidPerLoop, Pending,
                Alive, Evaluating
  <2>3. CapacityKept'
    BY <1>1, <2>1, <2>2, SetsAreFinite, JobScannerAssumption DEF SetActiveBids, CapacityKept, Allowed, ScannerTypeOK
  <2> QED BY <2>1, <2>3
<1>2. ASSUME NEW j \in OpenJobs, MarkBidInactive(j) PROVE ScannerInv'
  <2>1. ScannerTypeOK' /\ RunningConsistently' /\ NothingPendingTwice' /\ OneBidPerLoop' /\ Evaluating' = Evaluating
    BY <1>2 DEF MarkBidInactive, ScannerTypeOK, RunningConsistently, NothingPendingTwice, OneBidPerLoop, Pending,
                Alive, Evaluating
  <2> QED BY <1>2, <2>1, CapacityFrame DEF MarkBidInactive
<1> QED BY <1>1, <1>2

LEMMA ScannerInitially == ScannerInit => ScannerInv
<1> SUFFICES ASSUME ScannerInit PROVE ScannerInv
  OBVIOUS
<1>1. ScannerTypeOK /\ RunningConsistently /\ NothingPendingTwice /\ OneBidPerLoop
  BY DEF ScannerInit, ScannerTypeOK, RunningConsistently, NothingPendingTwice, OneBidPerLoop, Pending, At
<1>2. activeBidJobIds = {} /\ Evaluating = {}
  BY DEF ScannerInit, Evaluating, At
<1>3. CapacityKept
  <2>1. Cardinality({}) = 0 /\ Cardinality(Loops) \in Nat /\ seeded = 0
    BY FS_EmptySet, FS_CardinalityType, JobScannerAssumption DEF ScannerInit
  <2> QED BY <1>2, <2>1, JobScannerAssumption DEF CapacityKept, Allowed
<1> QED BY <1>1, <1>3 DEF ScannerInv

LEMMA ScannerStep == ScannerInv /\ [ScannerNext]_scannerVars => ScannerInv'
<1> SUFFICES ASSUME ScannerInv, [ScannerNext]_scannerVars PROVE ScannerInv'
  OBVIOUS
<1>1. CASE StopScanner
  BY <1>1, StartStopKeep
<1>2. ASSUME NEW l \in Loops, StartScanner(l) PROVE ScannerInv'
  BY <1>2, StartStopKeep
<1>3. ASSUME NEW l \in Loops, ScanBegins(l) PROVE ScannerInv'
  BY <1>3, LoopMovesOn DEF ScanBegins, Alive
<1>4. ASSUME NEW l \in Loops, JobsFetched(l) PROVE ScannerInv'
  <2>1. PICK list \in SUBSET OpenJobs : NextJob(l, list \ bidJobIds)
    BY <1>4 DEF JobsFetched
  <2>2. \A j \in list \ bidJobIds : bids[<<l, j>>] = 0
    BY DEF ScannerInv, NothingPendingTwice, ScannerTypeOK
  <2> QED BY <1>4, <2>1, <2>2, NextJobKeeps DEF JobsFetched, Alive
<1>5. ASSUME NEW l \in Loops, Bid(l) PROVE ScannerInv'
  BY <1>5, BidKeeps
<1>6. ASSUME NEW l \in Loops, JobDone(l) PROVE ScannerInv'
  <2>1. loop[l].jobs \in SUBSET OpenJobs /\ \A j \in loop[l].jobs : bids[<<l, j>>] = 0
    BY DEF ScannerInv, NothingPendingTwice, ScannerTypeOK, Pending
  <2> QED BY <1>6, <2>1, NextJobKeeps DEF JobDone, Alive
<1>7. ASSUME NEW l \in Loops, ScanFails(l) PROVE ScannerInv'
  BY <1>7, LoopMovesOn DEF ScanFails, Alive
<1>8. ASSUME NEW l \in Loops, ScanEnds(l) PROVE ScannerInv'
  BY <1>8, ScanEndsKeeps
<1>9. CASE \/ \E S \in SUBSET OpenJobs : SetActiveBids(S)
           \/ \E j \in OpenJobs : MarkBidInactive(j)
  BY <1>9, MarketTellsKeeps
<1>10. CASE UNCHANGED scannerVars
  BY <1>10 DEF scannerVars, ScannerInv, ScannerTypeOK, RunningConsistently, NothingPendingTwice, OneBidPerLoop,
               CapacityKept, Allowed, Pending, Alive, Evaluating
<1> QED BY <1>1, <1>2, <1>3, <1>4, <1>5, <1>6, <1>7, <1>8, <1>9, <1>10 DEF ScannerNext, LoopSteps

(* The scanner's inductive invariant, however stops and starts overlap     *)
(* with scans and whatever the indexer reports meanwhile.                  *)
THEOREM ScannerInvariant == ScannerSpec => []ScannerInv
BY ScannerInitially, ScannerStep, PTL DEF ScannerSpec

(* No scan loop bids on a job twice (the filter on bidJobIds).             *)
THEOREM LoopsBidOnce == ScannerSpec => []OneBidPerLoop
<1>1. ScannerInv => OneBidPerLoop
  BY DEF ScannerInv
<1> QED BY <1>1, ScannerInvariant, PTL

(* The active bids exceed maxActiveBids, or the number that setActiveBids  *)
(* was handed last if that was more, by no more than one per loop.         *)
THEOREM CapacityHolds == ScannerSpec => []CapacityBounded
<1>1. ScannerInv => CapacityBounded
  <2> SUFFICES ASSUME ScannerInv PROVE CapacityBounded
    OBVIOUS
  <2> QED BY SetsAreFinite, JobScannerAssumption DEF ScannerInv, CapacityKept, CapacityBounded, Allowed, ScannerTypeOK
<1> QED BY <1>1, ScannerInvariant, PTL
-----------------------------------------------------------------------------
(* The bid lifecycle.                                                      *)

(* A watch that takes a bid it has not withdrawn, or ends.                  *)
LEMMA NextBidKeeps ==
    ASSUME LifecycleInv, NEW p \in Watches, NEW left \in SUBSET Bids,
           \A b \in left : withdrawals[<<p, b>>] = 0,
           NextBid(p, left), UNCHANGED <<watching, job, onMarket, withdrawals>>
    PROVE  LifecycleInv'
<1> USE DEF LifecycleInv
<1>1. PICK q : /\ watch' = [watch EXCEPT ![p] = q]
               /\ q = Idle \/ \E b \in left : q = [at |-> "asking", bid |-> b, left |-> left \ {b}]
  BY DEF NextBid
<1>2. /\ q \in [at : {"idle", "asking"}, bid : Bids \cup {NoBid}, left : SUBSET Bids]
      /\ q.left \subseteq left
      /\ q.at = "idle" => q.left = {}
      /\ q.at = "asking" => q.bid \in left \ q.left
  BY <1>1 DEF Idle
<1>3. LifecycleTypeOK'
  BY <1>1, <1>2 DEF LifecycleTypeOK
<1>4. OnlyLosersWithdrawn' /\ OneWithdrawalPerPoll' /\ LosersOnly'
  BY <1>1, <1>2 DEF OnlyLosersWithdrawn, OneWithdrawalPerPoll, LosersOnly, Lost, LifecycleTypeOK
<1>5. LookedAtOnce'
  BY <1>1, <1>2 DEF LookedAtOnce, LifecycleTypeOK
<1> QED BY <1>3, <1>4, <1>5

(* A watch that changes nothing but where it is.                            *)
LEMMA PollMovesOn ==
    ASSUME LifecycleInv, NEW p \in Watches, UNCHANGED <<job, onMarket, withdrawals>>, watching' \in BOOLEAN,
           \/ watch' = [watch EXCEPT ![p].at = "next"]
           \/ watch' = [watch EXCEPT ![p] = Idle]
           \/ watch[p].at = "idle" /\ watch' = [watch EXCEPT ![p].at = "fetching"]
    PROVE  LifecycleInv'
<1> USE DEF LifecycleInv
<1> DEFINE Moved == [at : {"idle", "fetching", "next"}, bid : Bids \cup {NoBid}, left : SUBSET Bids]
<1>1. PICK q \in Moved : /\ watch' = [watch EXCEPT ![p] = q]
                         /\ q.left = {} \/ (q.at = "next" /\ q.left = watch[p].left)
  <2>1. CASE watch' = [watch EXCEPT ![p] = Idle]
    <3>1. Idle \in Moved /\ Idle.left = {}
      BY DEF Idle
    <3> QED BY <2>1, <3>1
  <2>2. ASSUME NEW s \in {"fetching", "next"}, watch' = [watch EXCEPT ![p].at = s],
               s = "fetching" => watch[p].left = {}
        PROVE  \E q \in Moved : /\ watch' = [watch EXCEPT ![p] = q]
                                /\ q.left = {} \/ (q.at = "next" /\ q.left = watch[p].left)
    <3> DEFINE q == [at |-> s, bid |-> watch[p].bid, left |-> watch[p].left]
    <3>1. q \in Moved /\ watch' = [watch EXCEPT ![p] = q]
      <4>1. PICK r \in [at : {"idle", "fetching", "asking", "withdrawing", "marking", "next"},
                        bid : Bids \cup {NoBid}, left : SUBSET Bids] : r = watch[p]
        BY DEF LifecycleTypeOK
      <4>2. q = [r EXCEPT !.at = s] /\ watch' = [watch EXCEPT ![p] = [r EXCEPT !.at = s]]
        BY <2>2, <4>1
      <4> QED BY <4>1, <4>2
    <3>2. q.left = {} \/ (q.at = "next" /\ q.left = watch[p].left)
      BY <2>2
    <3> QED BY <3>1, <3>2
  <2>3. watch[p].at = "idle" => watch[p].left = {}
    BY DEF LifecycleTypeOK
  <2> HIDE DEF Moved
  <2> QED BY <2>1, <2>2, <2>3
<1>2. LifecycleTypeOK'
  BY <1>1 DEF LifecycleTypeOK
<1>3. OnlyLosersWithdrawn' /\ OneWithdrawalPerPoll' /\ LosersOnly'
  BY <1>1 DEF OnlyLosersWithdrawn, OneWithdrawalPerPoll, LosersOnly, Lost, LifecycleTypeOK
<1>4. LookedAtOnce'
  BY <1>1 DEF LookedAtOnce, LifecycleTypeOK
<1> QED BY <1>2, <1>3, <1>4

LEMMA StatusAnsweredKeeps ==
    ASSUME LifecycleInv, NEW p \in Watches, StatusAnswered(p)
    PROVE  LifecycleInv'
<1> USE DEF LifecycleInv
<1>1. PICK s \in {"withdrawing", "marking", "next"} :
        /\ watch' = [watch EXCEPT ![p].at = s]
        /\ s = "withdrawing" => job[watch[p].bid] = "theirs"
  BY DEF StatusAnswered
<1>2. watch[p].at = "asking" /\ UNCHANGED <<watching, job, onMarket, withdrawals>>
  BY DEF StatusAnswered
<1>3. LifecycleTypeOK'
  BY <1>1, <1>2 DEF LifecycleTypeOK
<1>4. OnlyLosersWithdrawn' /\ OneWithdrawalPerPoll' /\ LosersOnly'
  BY <1>1, <1>2 DEF OnlyLosersWithdrawn, OneWithdrawalPerPoll, LosersOnly, Lost, LifecycleTypeOK
<1>5. LookedAtOnce'
  BY <1>1, <1>2 DEF LookedAtOnce, LifecycleTypeOK
<1> QED BY <1>3, <1>4, <1>5

LEMMA WithdrawnKeeps ==
    ASSUME LifecycleInv, NEW p \in Watches, Withdrawn(p)
    PROVE  LifecycleInv'
<1> USE DEF LifecycleInv, Withdrawn
<1>1. PICK b \in Bids : b = watch[p].bid /\ b \notin watch[p].left
  BY DEF LifecycleTypeOK
<1>2. withdrawals[<<p, b>>] = 0 /\ job[b] \in Lost
  BY <1>1 DEF LookedAtOnce, LosersOnly, Lost, LifecycleTypeOK
<1>3. /\ withdrawals' \in [Watches \X Bids -> Nat] /\ withdrawals'[<<p, b>>] = 1
      /\ \A q \in Watches, c \in Bids : <<q, c>> # <<p, b>> => withdrawals'[<<q, c>>] = withdrawals[<<q, c>>]
  BY <1>1, <1>2 DEF LifecycleTypeOK
<1>4. LifecycleTypeOK'
  BY <1>1, <1>3 DEF LifecycleTypeOK
<1>5. OnlyLosersWithdrawn' /\ LosersOnly'
  BY <1>1, <1>2 DEF OnlyLosersWithdrawn, LosersOnly, Lost, LifecycleTypeOK
<1>6. OneWithdrawalPerPoll'
  <2> SUFFICES ASSUME NEW q \in Watches, NEW c \in Bids PROVE withdrawals'[<<q, c>>] <= 1
    BY DEF OneWithdrawalPerPoll
  <2>1. CASE <<q, c>> = <<p, b>>
    BY <1>3, <2>1
  <2>2. CASE <<q, c>> # <<p, b>>
    BY <1>3, <2>2 DEF OneWithdrawalPerPoll
  <2> QED BY <2>1, <2>2
<1>7. LookedAtOnce'
  <2> SUFFICES ASSUME NEW q \in Watches, NEW c \in Bids, withdrawals'[<<q, c>>] > 0
               PROVE  /\ onMarket'[c] = "withdrawn" /\ c \notin watch'[q].left
                      /\ watch'[q].at \in {"asking", "withdrawing"} => watch'[q].bid # c
    BY DEF LookedAtOnce
  <2>1. CASE <<q, c>> = <<p, b>>
    BY <1>1, <2>1 DEF LifecycleTypeOK
  <2>2. CASE <<q, c>> # <<p, b>>
    BY <1>1, <1>3, <2>2 DEF LookedAtOnce, LifecycleTypeOK
  <2> QED BY <2>1, <2>2
<1> QED BY <1>4, <1>5, <1>6, <1>7

LEMMA MarkedInactiveKeeps ==
    ASSUME LifecycleInv, NEW p \in Watches, MarkedInactive(p)
    PROVE  LifecycleInv'
<1> USE DEF LifecycleInv, MarkedInactive
<1>1. LifecycleTypeOK'
  BY DEF LifecycleTypeOK
<1>2. OnlyLosersWithdrawn' /\ OneWithdrawalPerPoll' /\ LosersOnly'
  BY DEF OnlyLosersWithdrawn, OneWithdrawalPerPoll, LosersOnly, Lost, LifecycleTypeOK
<1>3. LookedAtOnce'
  BY DEF LookedAtOnce, LifecycleTypeOK
<1> QED BY <1>1, <1>2, <1>3

LEMMA MarketMoveKeeps ==
    ASSUME LifecycleInv, NEW b \in Bids, JobAssigned(b) \/ JobSubmitted(b) \/ JobOver(b)
    PROVE  LifecycleInv'
<1> USE DEF LifecycleInv, JobAssigned, JobSubmitted, JobOver
<1>1. LifecycleTypeOK' /\ OneWithdrawalPerPoll' /\ LookedAtOnce'
  BY DEF LifecycleTypeOK, OneWithdrawalPerPoll, LookedAtOnce
<1>2. OnlyLosersWithdrawn' /\ LosersOnly'
  BY DEF OnlyLosersWithdrawn, LosersOnly, Lost, LifecycleTypeOK
<1> QED BY <1>1, <1>2

LEMMA LifecycleInitially == LifecycleInit => LifecycleInv
<1> SUFFICES ASSUME LifecycleInit PROVE LifecycleInv
  OBVIOUS
<1>1. \A p \in Watches, b \in Bids : withdrawals[<<p, b>>] = 0
  BY DEF LifecycleInit
<1>2. LifecycleTypeOK /\ OnlyLosersWithdrawn /\ LosersOnly
  BY DEF LifecycleInit, LifecycleTypeOK, OnlyLosersWithdrawn, LosersOnly, Lost, Idle
<1> QED BY <1>1, <1>2 DEF LifecycleInv, OneWithdrawalPerPoll, LookedAtOnce

LEMMA LifecycleStep == LifecycleInv /\ [LifecycleNext]_lifecycleVars => LifecycleInv'
<1> SUFFICES ASSUME LifecycleInv, [LifecycleNext]_lifecycleVars PROVE LifecycleInv'
  OBVIOUS
<1>1. ASSUME NEW b \in Bids, JobAssigned(b) \/ JobSubmitted(b) \/ JobOver(b) PROVE LifecycleInv'
  BY <1>1, MarketMoveKeeps
<1>2. CASE StopWatching
  BY <1>2 DEF StopWatching, LifecycleInv, LifecycleTypeOK, OnlyLosersWithdrawn, OneWithdrawalPerPoll, LosersOnly,
              LookedAtOnce
<1>3. ASSUME NEW p \in Watches, StartWatching(p) \/ PollBegins(p) PROVE LifecycleInv'
  <2>1. watching' \in BOOLEAN
    BY <1>3 DEF StartWatching, PollBegins, LifecycleInv, LifecycleTypeOK
  <2> QED BY <1>3, <2>1, PollMovesOn DEF StartWatching, PollBegins, Fetching
<1>4. ASSUME NEW p \in Watches, BidsFetched(p) PROVE LifecycleInv'
  <2>1. \A b \in {c \in Bids : onMarket[c] = "active"} : withdrawals[<<p, b>>] = 0
    BY DEF LifecycleInv, LookedAtOnce, LifecycleTypeOK
  <2> QED BY <1>4, <2>1, NextBidKeeps DEF BidsFetched
<1>5. ASSUME NEW p \in Watches, StatusAnswered(p) PROVE LifecycleInv'
  BY <1>5, StatusAnsweredKeeps
<1>6. ASSUME NEW p \in Watches, BidSkipped(p) \/ WatchFails(p) PROVE LifecycleInv'
  <2>1. watching' \in BOOLEAN
    BY <1>6 DEF BidSkipped, WatchFails, LifecycleInv, LifecycleTypeOK
  <2> QED BY <1>6, <2>1, PollMovesOn DEF BidSkipped, WatchFails
<1>7. ASSUME NEW p \in Watches, Withdrawn(p) PROVE LifecycleInv'
  BY <1>7, WithdrawnKeeps
<1>8. ASSUME NEW p \in Watches, MarkedInactive(p) PROVE LifecycleInv'
  BY <1>8, MarkedInactiveKeeps
<1>9. ASSUME NEW p \in Watches, ToNextBid(p) PROVE LifecycleInv'
  <2>1. watch[p].left \in SUBSET Bids /\ \A b \in watch[p].left : withdrawals[<<p, b>>] = 0
    BY DEF LifecycleInv, LookedAtOnce, LifecycleTypeOK
  <2> QED BY <1>9, <2>1, NextBidKeeps DEF ToNextBid
<1>10. CASE UNCHANGED lifecycleVars
  BY <1>10 DEF lifecycleVars, LifecycleInv, LifecycleTypeOK, OnlyLosersWithdrawn, OneWithdrawalPerPoll, LosersOnly,
               LookedAtOnce
<1> QED BY <1>1, <1>2, <1>3, <1>4, <1>5, <1>6, <1>7, <1>8, <1>9, <1>10 DEF LifecycleNext, PollSteps

(* The lifecycle's inductive invariant: only bids on jobs that others got  *)
(* or that are over are withdrawn, and once per overlapping watch at most.  *)
THEOREM LifecycleInvariant == LifecycleSpec => []LifecycleInv
BY LifecycleInitially, LifecycleStep, PTL DEF LifecycleSpec

-----------------------------------------------------------------------------
(* The sentiment analyzer: its slots and its cache, for any analyses,      *)
(* contents, limit and size of the cache.                                  *)

(* The parts of the invariant that acquire() and release() can disturb.    *)
QueueTypeOK ==
    /\ running \in Nat /\ queue \in Seq(Analyses)
    /\ analysis \in [Analyses -> [at : {"idle", "waiting", "invoking"}, key : Hashes \cup {NoHash}]]

CacheTypeOK == cache \in Seq([hash : Hashes, fresh : BOOLEAN])

Slots == QueueTypeOK /\ SlotsExact /\ NobodyIsPassed
CacheOK == CacheTypeOK /\ CacheBounded

LEMMA Split ==
    AnalyzerInv <=> Slots /\ CacheOK
BY DEF AnalyzerInv, AnalyzerTypeOK, Slots, CacheOK, QueueTypeOK, CacheTypeOK

LEMMA InvokingFinite == AnalyzerTypeOK \/ QueueTypeOK => IsFiniteSet(Invoking)
<1>1. IsFiniteSet(Analyses) /\ Invoking \in SUBSET Analyses
    BY AnalyzerAssumption DEF Invoking
<1> QED
    BY <1>1, FS_Subset

-----------------------------------------------------------------------------
(* An analysis that asks for a slot takes a free one or goes to the end of *)
(* the queue.                                                              *)
LEMMA AcquireKeeps ==
    ASSUME Slots, NEW a \in Analyses, NEW h \in Hashes \cup {NoHash},
           analysis[a].at = "idle", Acquire(a, h)
    PROVE  Slots'
<1> USE DEF Slots, QueueTypeOK
<1>1. CASE /\ running < maxConcurrency
           /\ running' = running + 1
           /\ analysis' = [analysis EXCEPT ![a] = [at |-> "invoking", key |-> h]]
           /\ UNCHANGED queue
    <2>1. QueueTypeOK'
        BY <1>1
    <2>2. a \notin Invoking /\ Invoking' = Invoking \cup {a}
        BY <1>1 DEF Invoking
    <2>3. Cardinality(Invoking') = Cardinality(Invoking) + 1
        BY <2>2, InvokingFinite, FS_AddElement
    <2>4. SlotsExact'
        BY <1>1, <2>3, AnalyzerAssumption DEF SlotsExact
    <2>5. queue = <<>>
        BY <1>1, AnalyzerAssumption DEF NobodyIsPassed
    <2>6. NobodyIsPassed'
        BY <1>1, <2>5 DEF NobodyIsPassed
    <2> QED
        BY <2>1, <2>4, <2>6
<1>2. CASE /\ running >= maxConcurrency
           /\ queue' = Append(queue, a)
           /\ analysis' = [analysis EXCEPT ![a] = [at |-> "waiting", key |-> h]]
           /\ UNCHANGED running
    <2>1. QueueTypeOK'
        BY <1>2
    <2>2. Invoking' = Invoking
        BY <1>2 DEF Invoking
    <2>3. SlotsExact'
        BY <1>2, <2>2 DEF SlotsExact
    <2>4. /\ Len(queue') = Len(queue) + 1
          /\ \A i \in 1..Len(queue) : queue'[i] = queue[i]
          /\ queue'[Len(queue) + 1] = a
        BY <1>2
    <2>5. \A i \in 1..Len(queue) : queue[i] # a
        BY DEF NobodyIsPassed
    <2>6. \A b \in Analyses : analysis'[b].at = "waiting" <=> analysis[b].at = "waiting" \/ b = a
        BY <1>2
    <2>7. \A b \in Analyses :
             (\E i \in 1..Len(queue') : queue'[i] = b)
                 <=> (\E i \in 1..Len(queue) : queue[i] = b) \/ b = a
        BY <2>4
    <2>8. \A i, j \in 1..Len(queue') : queue'[i] = queue'[j] => i = j
        BY <2>4, <2>5 DEF NobodyIsPassed
    <2>9. running' = maxConcurrency
        BY <1>2, AnalyzerAssumption DEF SlotsExact
    <2>10. NobodyIsPassed'
        BY <2>6, <2>7, <2>8, <2>9 DEF NobodyIsPassed
    <2> QED
        BY <2>1, <2>3, <2>10
<1> QED
    BY <1>1, <1>2 DEF Acquire

(* A model call that is over leaves its slot to the head of the queue, or  *)
(* free if nobody waits.                                                   *)
LEMMA ReleaseKeeps ==
    ASSUME Slots, NEW a \in Analyses, analysis[a].at = "invoking", Release(a)
    PROVE  Slots'
<1> USE DEF Slots, QueueTypeOK
<1>0. a \in Invoking /\ Cardinality(Invoking \ {a}) = Cardinality(Invoking) - 1
      /\ Cardinality(Invoking) \in Nat /\ Cardinality(Invoking \ {a}) \in Nat
      /\ IsFiniteSet(Invoking \ {a})
    <2>1. a \in Invoking
        BY DEF Invoking
    <2>2. IsFiniteSet(Invoking)
        BY InvokingFinite
    <2> QED
        BY <2>1, <2>2, FS_RemoveElement, FS_CardinalityType
<1>1. CASE /\ queue = <<>>
           /\ running' = running - 1
           /\ analysis' = [analysis EXCEPT ![a] = Unasked]
           /\ UNCHANGED queue
    <2>1. QueueTypeOK'
        BY <1>0, <1>1 DEF SlotsExact, Unasked
    <2>2. Invoking' = Invoking \ {a}
        BY <1>1 DEF Invoking, Unasked
    <2>3. SlotsExact'
        BY <1>0, <1>1, <2>2, AnalyzerAssumption DEF SlotsExact
    <2>4. NobodyIsPassed'
        BY <1>1 DEF NobodyIsPassed, Unasked
    <2> QED
        BY <2>1, <2>3, <2>4
<1>2. CASE /\ queue # <<>>
           /\ queue' = Tail(queue)
           /\ analysis' = [analysis EXCEPT ![a] = Unasked, ![Head(queue)].at = "invoking"]
           /\ UNCHANGED running
    <2> DEFINE w == Head(queue)
    <2>1. /\ w \in Analyses /\ w = queue[1] /\ Len(queue) \in Nat \ {0}
          /\ Len(queue') = Len(queue) - 1 /\ queue' \in Seq(Analyses)
          /\ \A i \in 1..Len(queue') : queue'[i] = queue[i + 1]
        BY <1>2
    <2>2. analysis[w].at = "waiting"
        BY <2>1 DEF NobodyIsPassed
    <2>3. /\ w # a
          /\ analysis'[a].at = "idle" /\ analysis'[w].at = "invoking"
          /\ \A b \in Analyses \ {a, w} : analysis'[b] = analysis[b]
        BY <1>2, <2>1, <2>2 DEF Unasked
    <2>4. QueueTypeOK'
        <3>1. /\ analysis'[w] \in [at : {"idle", "waiting", "invoking"}, key : Hashes \cup {NoHash}]
              /\ analysis'[a] \in [at : {"idle", "waiting", "invoking"}, key : Hashes \cup {NoHash}]
            <4>1. analysis'[a] = Unasked /\ analysis'[w] = [analysis[w] EXCEPT !.at = "invoking"]
                BY <1>2, <2>1, <2>2, <2>3
            <4> QED
                BY <2>1, <4>1 DEF Unasked
        <3>2. analysis' = [b \in Analyses |-> analysis'[b]]
            BY <1>2
        <3>3. \A b \in Analyses :
                 analysis'[b] \in [at : {"idle", "waiting", "invoking"}, key : Hashes \cup {NoHash}]
            BY <2>3, <3>1
        <3> HIDE DEF w
        <3> QED
            BY <1>2, <2>1, <3>2, <3>3
    <2>5. w \notin Invoking /\ Invoking' = (Invoking \ {a}) \cup {w}
        BY <2>1, <2>2, <2>3 DEF Invoking
    <2>6. Cardinality(Invoking') = Cardinality(Invoking)
        <3>1. w \notin Invoking \ {a}
            BY <2>5
        <3>2. Cardinality((Invoking \ {a}) \cup {w}) = Cardinality(Invoking \ {a}) + 1
            BY <1>0, <3>1, FS_AddElement
        <3> HIDE DEF w
        <3> QED
            BY <1>0, <2>5, <3>2
    <2>7. SlotsExact'
        BY <1>2, <2>6 DEF SlotsExact
    <2>8. \A i, j \in 1..Len(queue') : queue'[i] = queue'[j] => i = j
        BY <2>1 DEF NobodyIsPassed
    <2>9. \A i \in 1..Len(queue') : queue'[i] # w
        <3> SUFFICES ASSUME NEW i \in 1..Len(queue'), queue'[i] = w  PROVE FALSE
            OBVIOUS
        <3>1. i + 1 \in 1..Len(queue) /\ 1 \in 1..Len(queue) /\ queue[i + 1] = queue[1] /\ i + 1 # 1
            BY <2>1
        <3>2. \A j, k \in 1..Len(queue) : queue[j] = queue[k] => j = k
            BY DEF NobodyIsPassed
        <3> HIDE DEF w
        <3> QED
            BY <3>1, <3>2
    <2>10. \A b \in Analyses \ {w} :
              (\E i \in 1..Len(queue') : queue'[i] = b) <=> (\E i \in 1..Len(queue) : queue[i] = b)
        <3> TAKE b \in Analyses \ {w}
        <3>1. ASSUME NEW i \in 1..Len(queue), queue[i] = b
              PROVE  \E j \in 1..Len(queue') : queue'[j] = b
            <4>1. i # 1
                BY <2>1, <3>1
            <4>2. i - 1 \in 1..Len(queue') /\ queue'[i - 1] = b
                BY <2>1, <3>1, <4>1
            <4> QED
                BY <4>2
        <3>2. ASSUME NEW i \in 1..Len(queue'), queue'[i] = b
              PROVE  \E j \in 1..Len(queue) : queue[j] = b
            <4>1. i + 1 \in 1..Len(queue) /\ queue[i + 1] = b
                BY <2>1, <3>2
            <4> QED
                BY <4>1
        <3> QED
            BY <3>1, <3>2
    <2>11. \A b \in Analyses : analysis'[b].at = "waiting" <=> \E i \in 1..Len(queue') : queue'[i] = b
        <3> TAKE b \in Analyses
        <3>1. CASE b = w
            BY <2>3, <2>9, <3>1
        <3>2. CASE b # w
            <4>1. analysis'[b].at = "waiting" <=> analysis[b].at = "waiting"
                BY <2>3, <3>2
            <4> QED
                BY <2>10, <3>2, <4>1 DEF NobodyIsPassed
        <3> QED
            BY <3>1, <3>2
    <2>12. running' = maxConcurrency
        BY <1>2 DEF NobodyIsPassed
    <2>13. NobodyIsPassed'
        BY <2>8, <2>11, <2>12 DEF NobodyIsPassed
    <2> QED
        BY <2>4, <2>7, <2>13
<1> QED
    BY <1>1, <1>2 DEF Release

LEMMA SlotsUntouched == Slots /\ UNCHANGED <<running, queue, analysis>> => Slots'
BY DEF Slots, QueueTypeOK, SlotsExact, NobodyIsPassed, Invoking

-----------------------------------------------------------------------------
(* What the operations on the Map do to a sequence of entries.             *)
Entries == Seq([hash : Hashes, fresh : BOOLEAN])
Distinct(s) == \A i, j \in 1..Len(s) : s[i].hash = s[j].hash => i = j

LEMMA EntryOf ==
    ASSUME NEW s \in Entries, NEW i \in 1..Len(s)
    PROVE  s[i] \in [hash : Hashes, fresh : BOOLEAN]
BY ElementOfSeq DEF Entries

LEMMA CacheIs == CacheOK <=> cache \in Entries /\ Len(cache) <= maxCacheSize /\ Distinct(cache)
BY DEF CacheOK, CacheTypeOK, CacheBounded, Entries, Distinct

LEMMA WithoutEntryKeeps ==
    ASSUME NEW s \in Entries, Distinct(s), NEW i \in 1..Len(s)
    PROVE  /\ WithoutEntry(s, i) \in Entries
           /\ Len(WithoutEntry(s, i)) = Len(s) - 1
           /\ Distinct(WithoutEntry(s, i))
           /\ \A j \in 1..(Len(s) - 1) : WithoutEntry(s, i)[j].hash # s[i].hash
<1> DEFINE t == WithoutEntry(s, i)
<1>1. Len(s) \in Nat \ {0} /\ Len(s) - 1 \in Nat
    BY DEF Entries
<1>2. \A j \in 1..(Len(s) - 1) : t[j] = IF j < i THEN s[j] ELSE s[j + 1]
    BY DEF WithoutEntry
<1>3. t \in Entries
    <2>1. \A j \in 1..(Len(s) - 1) : t[j] \in [hash : Hashes, fresh : BOOLEAN]
        <3>1. \A j \in 1..Len(s) : s[j] \in [hash : Hashes, fresh : BOOLEAN]
            BY EntryOf
        <3> HIDE DEF t
        <3> QED
            BY <1>1, <1>2, <3>1
    <2>2. t = [j \in 1..(Len(s) - 1) |-> t[j]]
        BY DEF WithoutEntry
    <2>3. t \in [1..(Len(s) - 1) -> [hash : Hashes, fresh : BOOLEAN]]
        BY <2>1, <2>2
    <2> QED
        BY <1>1, <2>3, SeqDef DEF Entries
<1>4. Len(t) = Len(s) - 1
    BY <1>1, <1>3, LenProperties DEF WithoutEntry, Entries
<1>5. Distinct(t)
    BY <1>1, <1>2, <1>4 DEF Distinct
<1>6. \A j \in 1..(Len(s) - 1) : t[j].hash # s[i].hash
    BY <1>1, <1>2 DEF Distinct
<1> QED
    BY <1>3, <1>4, <1>5, <1>6

LEMMA EvictedKeeps ==
    ASSUME NEW s \in Entries, Distinct(s), Len(s) <= maxCacheSize
    PROVE  /\ Evicted(s) \in Entries
           /\ Distinct(Evicted(s))
           /\ Len(Evicted(s)) < maxCacheSize
<1>1. CASE Len(s) >= maxCacheSize
    <2>1. s # <<>> /\ Len(s) \in Nat
        BY <1>1, AnalyzerAssumption DEF Entries
    <2>2. /\ Tail(s) \in Entries /\ Len(Tail(s)) = Len(s) - 1
          /\ \A i \in 1..Len(Tail(s)) : Tail(s)[i] = s[i + 1]
        BY <2>1 DEF Entries
    <2>3. Distinct(Tail(s))
        BY <2>1, <2>2 DEF Distinct
    <2> QED
        BY <1>1, <2>1, <2>2, <2>3, AnalyzerAssumption DEF Evicted
<1>2. CASE ~(Len(s) >= maxCacheSize)
    BY <1>2, AnalyzerAssumption DEF Evicted, Entries
<1> QED
    BY <1>1, <1>2

LEMMA CacheSetKeeps ==
    ASSUME NEW s \in Entries, Distinct(s), NEW h \in Hashes, Len(s) < maxCacheSize
    PROVE  /\ CacheSet(s, h) \in Entries
           /\ Distinct(CacheSet(s, h))
           /\ Len(CacheSet(s, h)) <= maxCacheSize
<1>0. Entry(h) \in [hash : Hashes, fresh : BOOLEAN] /\ Entry(h).hash = h
    BY DEF Entry
<1>1. CASE Position(s, h) = {}
    <2>1. CacheSet(s, h) = Append(s, Entry(h))
        BY <1>1 DEF CacheSet
    <2>2. /\ Append(s, Entry(h)) \in Entries /\ Len(Append(s, Entry(h))) = Len(s) + 1
          /\ \A i \in 1..Len(s) : Append(s, Entry(h))[i] = s[i]
          /\ Append(s, Entry(h))[Len(s) + 1] = Entry(h)
        BY <1>0 DEF Entries
    <2>3. \A i \in 1..Len(s) : s[i].hash # h
        BY <1>1 DEF Position
    <2>4. Distinct(Append(s, Entry(h)))
        BY <1>0, <2>2, <2>3 DEF Distinct, Entries
    <2> QED
        BY <2>1, <2>2, <2>4, AnalyzerAssumption DEF Entries
<1>2. CASE Position(s, h) # {}
    <2> DEFINE t == [i \in 1..Len(s) |-> IF s[i].hash = h THEN Entry(h) ELSE s[i]]
    <2>1. CacheSet(s, h) = t
        BY <1>2 DEF CacheSet
    <2>2. t \in [1..Len(s) -> [hash : Hashes, fresh : BOOLEAN]] /\ Len(s) \in Nat
        <3>1. Len(s) \in Nat
            BY DEF Entries
        <3>3. \A i \in 1..Len(s) : s[i] \in [hash : Hashes, fresh : BOOLEAN]
            BY EntryOf
        <3>2. \A i \in 1..Len(s) : t[i] \in [hash : Hashes, fresh : BOOLEAN]
            BY <1>0, <3>3
        <3> QED
            BY <3>1, <3>2
    <2>3. t \in Entries
        BY <2>2, SeqDef DEF Entries
    <2>4. Len(t) = Len(s)
        BY <2>2, <2>3, LenProperties DEF Entries
    <2>5. \A i \in 1..Len(s) : t[i].hash = s[i].hash
        BY <1>0
    <2>6. Distinct(t)
        BY <2>4, <2>5 DEF Distinct
    <2> HIDE DEF t
    <2> QED
        BY <2>1, <2>2, <2>3, <2>4, <2>6, AnalyzerAssumption
<1> QED
    BY <1>1, <1>2

-----------------------------------------------------------------------------
LEMMA AnalyzeSentimentKeeps ==
    ASSUME AnalyzerInv, NEW a \in Analyses, NEW h \in Hashes, AnalyzeSentiment(a, h)
    PROVE  AnalyzerInv'
<1>0. Slots /\ CacheOK
    BY Split
<1>1. cache \in Entries /\ Len(cache) <= maxCacheSize /\ Distinct(cache)
    BY <1>0, CacheIs
<1>2. ASSUME NEW i \in Position(cache, h), cache' = WithoutEntry(cache, i)
      PROVE  CacheOK'
    <2>1. i \in 1..Len(cache)
        BY DEF Position
    <2>2. cache' \in Entries /\ Len(cache') = Len(cache) - 1 /\ Distinct(cache')
        BY <1>1, <1>2, <2>1, WithoutEntryKeeps
    <2>3. Len(cache) \in Nat
        BY <1>1 DEF Entries
    <2> QED
        BY <1>1, <2>2, <2>3, AnalyzerAssumption DEF CacheOK, CacheTypeOK, CacheBounded, Entries, Distinct
<1>3. ASSUME NEW i \in Position(cache, h), cache[i].fresh,
             cache' = Append(WithoutEntry(cache, i), cache[i])
      PROVE  CacheOK'
    <2> DEFINE t == WithoutEntry(cache, i)
    <2>1. i \in 1..Len(cache) /\ cache[i] \in [hash : Hashes, fresh : BOOLEAN]
        <3>1. i \in 1..Len(cache)
            BY DEF Position
        <3> QED
            BY <1>1, <3>1, EntryOf
    <2>2. /\ t \in Entries /\ Len(t) = Len(cache) - 1 /\ Distinct(t)
          /\ \A j \in 1..(Len(cache) - 1) : t[j].hash # cache[i].hash
        BY <1>1, <2>1, WithoutEntryKeeps
    <2> HIDE DEF t
    <2>3. /\ cache' \in Entries /\ Len(cache') = Len(cache)
          /\ \A j \in 1..Len(t) : cache'[j] = t[j]
          /\ cache'[Len(t) + 1] = cache[i]
        BY <1>1, <1>3, <2>1, <2>2 DEF Entries, t
    <2>4. Distinct(cache')
        BY <1>1, <2>2, <2>3 DEF Distinct, Entries
    <2> QED
        BY <1>1, <2>3, <2>4 DEF Entries, CacheOK, CacheTypeOK, CacheBounded, Distinct
<1>4. CASE \E i \in Position(cache, h) :
             /\ cache[i].fresh
             /\ cache' = Append(WithoutEntry(cache, i), cache[i])
             /\ UNCHANGED <<running, queue, analysis>>
    BY <1>0, <1>3, <1>4, SlotsUntouched, Split DEF AnalyzerInv, AnalyzerTypeOK, Slots, CacheOK,
       QueueTypeOK, CacheTypeOK
<1>5. CASE \E i \in Position(cache, h) :
             ~cache[i].fresh /\ cache' = WithoutEntry(cache, i) /\ Acquire(a, h)
    <2>1. Slots'
        BY <1>0, <1>5, AcquireKeeps DEF AnalyzeSentiment
    <2>2. CacheOK'
        BY <1>2, <1>5
    <2> QED
        BY <2>1, <2>2 DEF AnalyzerInv, AnalyzerTypeOK, Slots, CacheOK, QueueTypeOK, CacheTypeOK
<1>6. CASE Acquire(a, h) /\ UNCHANGED cache
    <2>1. Slots'
        BY <1>0, <1>6, AcquireKeeps DEF AnalyzeSentiment
    <2>2. CacheOK'
        BY <1>0, <1>6 DEF CacheOK, CacheTypeOK, CacheBounded
    <2> QED
        BY <2>1, <2>2 DEF AnalyzerInv, AnalyzerTypeOK, Slots, CacheOK, QueueTypeOK, CacheTypeOK
<1> QED
    BY <1>4, <1>5, <1>6 DEF AnalyzeSentiment

LEMMA Joined == Slots' /\ CacheOK' => AnalyzerInv'
BY DEF AnalyzerInv, AnalyzerTypeOK, Slots, CacheOK, QueueTypeOK, CacheTypeOK

LEMMA CacheUntouched == CacheOK /\ UNCHANGED cache => CacheOK'
BY DEF CacheOK, CacheTypeOK, CacheBounded

(* A model call that ends gives back its slot, its answer is cached or not.*)
LEMMA CallEndsKeeps ==
    ASSUME AnalyzerInv, NEW a \in Analyses, Answered(a) \/ InvocationFails(a)
    PROVE  AnalyzerInv'
<1>0. Slots /\ CacheOK
    BY Split
<1>1. Slots'
    BY <1>0, ReleaseKeeps DEF Answered, InvocationFails
<1>2. CASE UNCHANGED cache
    BY <1>0, <1>1, <1>2, CacheUntouched, Joined
<1>3. CASE /\ analysis[a].key # NoHash
           /\ cache' = CacheSet(Evicted(cache), analysis[a].key)
    <2>1. cache \in Entries /\ Len(cache) <= maxCacheSize /\ Distinct(cache)
        BY <1>0, CacheIs
    <2>2. Evicted(cache) \in Entries /\ Distinct(Evicted(cache)) /\ Len(Evicted(cache)) < maxCacheSize
        BY <2>1, EvictedKeeps
    <2>3. analysis[a].key \in Hashes
        BY <1>0, <1>3 DEF Slots, QueueTypeOK
    <2>4. cache' \in Entries /\ Distinct(cache') /\ Len(cache') <= maxCacheSize
        BY <1>3, <2>2, <2>3, CacheSetKeeps
    <2>5. CacheOK'
        BY <2>4 DEF CacheOK, CacheTypeOK, CacheBounded, Entries, Distinct
    <2> QED
        BY <1>1, <2>5, Joined
<1> QED
    BY <1>2, <1>3 DEF Answered, InvocationFails

(* For any analyses, contents, limit and cache size: at most               *)
(* maxConcurrency model calls are under way and the counter is exact, who  *)
(* waits stands in the queue once and is not passed by newcomers, and the  *)
(* cache keeps to its size.                                                *)
THEOREM AnalyzerInvariant == AnalyzerSpec => []AnalyzerInv
<1>1. AnalyzerInit => AnalyzerInv
    <2> SUFFICES ASSUME AnalyzerInit PROVE AnalyzerInv
        OBVIOUS
    <2>1. AnalyzerTypeOK
        BY DEF AnalyzerInit, AnalyzerTypeOK, Unasked
    <2>2. Invoking = {}
        BY DEF AnalyzerInit, Invoking, Unasked
    <2>3. SlotsExact
        BY <2>2, FS_EmptySet, AnalyzerAssumption DEF AnalyzerInit, SlotsExact
    <2>4. NobodyIsPassed /\ CacheBounded
        BY AnalyzerAssumption DEF AnalyzerInit, NobodyIsPassed, CacheBounded, Unasked
    <2> QED
        BY <2>1, <2>3, <2>4 DEF AnalyzerInv
<1>2. AnalyzerInv /\ [AnalyzerNext]_analyzerVars => AnalyzerInv'
    <2> SUFFICES ASSUME AnalyzerInv, [AnalyzerNext]_analyzerVars PROVE AnalyzerInv'
        OBVIOUS
    <2>0. Slots /\ CacheOK
        BY Split
    <2>1. ASSUME NEW a \in Analyses, NEW h \in Hashes, AnalyzeSentiment(a, h)
          PROVE  AnalyzerInv'
        BY <2>1, AnalyzeSentimentKeeps
    <2>2. ASSUME NEW a \in Analyses, AnalyzeMoodImpact(a)
          PROVE  AnalyzerInv'
        BY <2>0, <2>2, AcquireKeeps, CacheUntouched, Joined DEF AnalyzeMoodImpact
    <2>3. ASSUME NEW a \in Analyses, Answered(a) \/ InvocationFails(a)
          PROVE  AnalyzerInv'
        BY <2>3, CallEndsKeeps
    <2>4. ASSUME NEW i \in 1..Len(cache), Expires(i)
          PROVE  AnalyzerInv'
        <3>1. cache \in Seq([hash : Hashes, fresh : BOOLEAN])
            BY <2>0 DEF CacheOK, CacheTypeOK
        <3>2. /\ cache' \in Seq([hash : Hashes, fresh : BOOLEAN]) /\ Len(cache') = Len(cache)
              /\ \A j \in 1..Len(cache) : cache'[j].hash = cache[j].hash
            <4> DEFINE e == [cache[i] EXCEPT !.fresh = FALSE]
            <4>1. cache' = [cache EXCEPT ![i] = e]
                BY <2>4 DEF Expires
            <4>2. cache[i] \in [hash : Hashes, fresh : BOOLEAN]
                BY <3>1, EntryOf DEF Entries
            <4>3. e \in [hash : Hashes, fresh : BOOLEAN] /\ e.hash = cache[i].hash
                BY <4>2
            <4> HIDE DEF e
            <4> QED
                BY <3>1, <4>1, <4>3, ExceptSeq
        <3>3. CacheOK'
            BY <2>0, <3>2 DEF CacheOK, CacheTypeOK, CacheBounded
        <3> QED
            BY <2>0, <2>4, <3>3, SlotsUntouched, Joined DEF Expires
    <2>5. CASE clearCache
        <3>1. CacheOK'
            BY <2>5, AnalyzerAssumption DEF clearCache, CacheOK, CacheTypeOK, CacheBounded
        <3> QED
            BY <2>0, <2>5, <3>1, SlotsUntouched, Joined DEF clearCache
    <2>6. CASE UNCHANGED analyzerVars
        BY <2>0, <2>6, SlotsUntouched, CacheUntouched, Joined DEF analyzerVars
    <2> QED
        BY <2>1, <2>2, <2>3, <2>4, <2>5, <2>6 DEF AnalyzerNext
<1> QED
    BY <1>1, <1>2, PTL DEF AnalyzerSpec

-----------------------------------------------------------------------------
(* The audit log, for any ring, threshold and number of overlapping        *)
(* flushes.  First what concatenation does to the entries of two lists.    *)

Below(s, t) == \A x \in ToSet(s), y \in ToSet(t) : x < y

LEMMA InListOf ==
    ASSUME NEW s \in Seq(Nat)
    PROVE  /\ ToSet(s) = {s[i] : i \in 1..Len(s)} /\ ToSet(s) \subseteq Nat
           /\ IsInjective(s) <=> \A i, j \in 1..Len(s) : s[i] = s[j] => i = j
           /\ Ascending(s) <=> \A i, j \in 1..Len(s) : i < j => s[i] < s[j]
<1>1. DOMAIN s = 1..Len(s) /\ \A i \in 1..Len(s) : s[i] \in Nat
    BY LenProperties, ElementOfSeq
<1> QED BY <1>1 DEF ToSet, IsInjective, Ascending

LEMMA NothingListed ==
    ToSet(<<>>) = {} /\ IsInjective(<<>>) /\ Ascending(<<>>)
BY DEF ToSet, IsInjective, Ascending

LEMMA OneListed ==
    ASSUME NEW n \in Nat
    PROVE  /\ <<n>> \in Seq(Nat) /\ ToSet(<<n>>) = {n}
           /\ IsInjective(<<n>>) /\ Ascending(<<n>>)
<1>1. <<n>> \in Seq(Nat) /\ Len(<<n>>) = 1 /\ <<n>>[1] = n
    OBVIOUS
<1>2. \A i \in 1..Len(<<n>>) : i = 1
    BY <1>1
<1>3. ToSet(<<n>>) = {<<n>>[i] : i \in 1..Len(<<n>>)}
    BY <1>1, InListOf
<1>4. IsInjective(<<n>>) /\ Ascending(<<n>>)
    <2> DEFINE s == <<n>>
    <2>1. s \in Seq(Nat) /\ \A i, j \in 1..Len(s) : i = j /\ ~ (i < j)
        BY <1>1, <1>2
    <2> HIDE DEF s
    <2>2. IsInjective(s)
        BY <2>1, InListOf
    <2>3. Ascending(s)
        BY <2>1, InListOf
    <2> QED BY <2>2, <2>3 DEF s
<1>6. ToSet(<<n>>) = {n}
    BY <1>1, <1>3
<1> QED BY <1>1, <1>4, <1>6

LEMMA ListsJoined ==
    ASSUME NEW s \in Seq(Nat), NEW t \in Seq(Nat)
    PROVE  /\ s \o t \in Seq(Nat)
           /\ ToSet(s \o t) = ToSet(s) \cup ToSet(t)
           /\ IsInjective(s \o t) <=>
                IsInjective(s) /\ IsInjective(t) /\ ToSet(s) \cap ToSet(t) = {}
           /\ Ascending(s \o t) <=> Ascending(s) /\ Ascending(t) /\ Below(s, t)
<1> DEFINE m == Len(s)
           n == Len(t)
           st == s \o t
<1>1. /\ st \in Seq(Nat) /\ Len(st) = m + n /\ m \in Nat /\ n \in Nat
      /\ \A i \in 1..m : st[i] = s[i] /\ i \in 1..Len(st)
      /\ \A i \in 1..n : st[m + i] = t[i] /\ m + i \in 1..Len(st)
      /\ \A i \in 1..Len(st) : i \in 1..m \/ \E j \in 1..n : i = m + j
    <2>1. st \in Seq(Nat) /\ Len(st) = m + n /\ m \in Nat /\ n \in Nat
        BY ConcatProperties, LenProperties
    <2>2. \A i \in 1..m + n : st[i] = IF i <= m THEN s[i] ELSE t[i - m]
        BY ConcatProperties
    <2>3. \A i \in 1..Len(st) : i \in 1..m \/ \E j \in 1..n : i = m + j
        <3> TAKE i \in 1..Len(st)
        <3>1. CASE i > m
            <4>1. i - m \in 1..n /\ i = m + (i - m)
                BY <2>1, <3>1
            <4> QED BY <4>1
        <3>2. CASE ~ i > m
            BY <2>1, <3>2
        <3> QED BY <3>1, <3>2
    <2>4. \A i \in 1..m : st[i] = s[i] /\ i \in 1..Len(st)
        BY <2>1, <2>2
    <2>5. \A i \in 1..n : st[m + i] = t[i] /\ m + i \in 1..Len(st)
        <3> TAKE i \in 1..n
        <3>1. m + i \in 1..m + n /\ ~ (m + i <= m) /\ (m + i) - m = i
            BY <2>1
        <3> QED BY <2>1, <2>2, <3>1
    <2> QED BY <2>1, <2>3, <2>4, <2>5
<1>2. /\ \A i \in 1..m : s[i] \in ToSet(s)
      /\ \A i \in 1..n : t[i] \in ToSet(t)
      /\ \A x \in ToSet(s) : \E i \in 1..m : x = s[i]
      /\ \A x \in ToSet(t) : \E i \in 1..n : x = t[i]
    <2>1. ToSet(s) = {s[i] : i \in 1..m}
        BY InListOf
    <2>2. ToSet(t) = {t[i] : i \in 1..n}
        BY InListOf
    <2> HIDE DEF m, n
    <2> QED BY <2>1, <2>2
<1>3. \A x : x \in ToSet(st) <=> \E i \in 1..Len(st) : x = st[i]
    <2>1. ToSet(st) = {st[i] : i \in 1..Len(st)}
        <3> HIDE DEF st
        <3> QED BY <1>1, InListOf
    <2> HIDE DEF st
    <2> QED BY <2>1
<1> HIDE DEF m, n, st
<1>4. ToSet(st) = ToSet(s) \cup ToSet(t)
    <2>1. ASSUME NEW x \in ToSet(st)  PROVE x \in ToSet(s) \cup ToSet(t)
        <3>1. PICK i \in 1..Len(st) : x = st[i]
            BY <1>3
        <3>2. CASE i \in 1..m
            BY <1>1, <1>2, <3>1, <3>2
        <3>3. CASE i \notin 1..m
            <4>1. PICK j \in 1..n : i = m + j
                BY <1>1, <3>3
            <4>2. x = t[j]
                BY <1>1, <3>1, <4>1
            <4> QED BY <1>2, <4>2
        <3> QED BY <3>2, <3>3
    <2>2. ASSUME NEW x \in ToSet(s)  PROVE x \in ToSet(st)
        <3>1. PICK i \in 1..m : x = s[i]
            BY <1>2
        <3>2. x = st[i] /\ i \in 1..Len(st)
            BY <1>1, <3>1
        <3> QED BY <1>3, <3>2
    <2>3. ASSUME NEW x \in ToSet(t)  PROVE x \in ToSet(st)
        <3>1. PICK i \in 1..n : x = t[i]
            BY <1>2
        <3>2. x = st[m + i] /\ m + i \in 1..Len(st)
            BY <1>1, <3>1
        <3> QED BY <1>3, <3>2
    <2> QED BY <2>1, <2>2, <2>3
<1>5. IsInjective(s) <=> \A i, j \in 1..m : s[i] = s[j] => i = j
    BY InListOf DEF m
<1>6. IsInjective(t) <=> \A i, j \in 1..n : t[i] = t[j] => i = j
    BY InListOf DEF n
<1>7. IsInjective(st) <=> \A i, j \in 1..Len(st) : st[i] = st[j] => i = j
    BY <1>1, InListOf
<1>8. IsInjective(st) <=>
        IsInjective(s) /\ IsInjective(t) /\ ToSet(s) \cap ToSet(t) = {}
    <2>1. ASSUME IsInjective(st)
          PROVE  IsInjective(s) /\ IsInjective(t) /\ ToSet(s) \cap ToSet(t) = {}
        <3>1. IsInjective(s)
            BY <1>1, <1>5, <1>7, <2>1
        <3>2. IsInjective(t)
            <4> SUFFICES ASSUME NEW i \in 1..n, NEW j \in 1..n, t[i] = t[j]  PROVE i = j
                BY <1>6
            <4>1. m + i = m + j
                BY <1>1, <1>7, <2>1
            <4> QED BY <1>1, <4>1
        <3>3. ASSUME NEW x \in ToSet(s) \cap ToSet(t)  PROVE FALSE
            <4>1. PICK i \in 1..m : x = s[i]
                BY <1>2, <3>3
            <4>2. PICK j \in 1..n : x = t[j]
                BY <1>2, <3>3
            <4>3. i \in 1..Len(st) /\ st[i] = x
                BY <1>1, <4>1
            <4>4. m + j \in 1..Len(st) /\ st[m + j] = x
                BY <1>1, <4>2
            <4>5. i = m + j
                BY <1>7, <2>1, <4>3, <4>4
            <4> QED BY <1>1, <4>5
        <3> QED BY <3>1, <3>2, <3>3
    <2>2. ASSUME IsInjective(s), IsInjective(t), ToSet(s) \cap ToSet(t) = {},
                 NEW i \in 1..Len(st), NEW j \in 1..Len(st), st[i] = st[j]
          PROVE  i = j
        <3>1. CASE i \in 1..m /\ j \in 1..m
            BY <1>1, <1>5, <2>2, <3>1
        <3>2. CASE i \in 1..m /\ j \notin 1..m
            <4>1. PICK k \in 1..n : j = m + k
                BY <1>1, <3>2
            <4> QED BY <1>1, <1>2, <2>2, <3>2, <4>1
        <3>3. CASE i \notin 1..m /\ j \in 1..m
            <4>1. PICK k \in 1..n : i = m + k
                BY <1>1, <3>3
            <4> QED BY <1>1, <1>2, <2>2, <3>3, <4>1
        <3>4. CASE i \notin 1..m /\ j \notin 1..m
            <4>1. PICK k \in 1..n : i = m + k
                BY <1>1, <3>4
            <4>2. PICK l \in 1..n : j = m + l
                BY <1>1, <3>4
            <4>3. t[k] = t[l]
                BY <1>1, <2>2, <4>1, <4>2
            <4>4. k = l
                BY <1>6, <2>2, <4>3
            <4> QED BY <4>1, <4>2, <4>4
        <3> QED BY <3>1, <3>2, <3>3, <3>4
    <2> QED BY <1>7, <2>1, <2>2
<1>9. Ascending(s) <=> \A i, j \in 1..m : i < j => s[i] < s[j]
    BY InListOf DEF m
<1>10. Ascending(t) <=> \A i, j \in 1..n : i < j => t[i] < t[j]
    BY InListOf DEF n
<1>11. Ascending(st) <=> \A i, j \in 1..Len(st) : i < j => st[i] < st[j]
    BY <1>1, InListOf
<1>12. Ascending(st) <=> Ascending(s) /\ Ascending(t) /\ Below(s, t)
    <2>1. ASSUME Ascending(st)
          PROVE  Ascending(s) /\ Ascending(t) /\ Below(s, t)
        <3>1. Ascending(s)
            BY <1>1, <1>9, <1>11, <2>1
        <3>2. Ascending(t)
            <4> SUFFICES ASSUME NEW i \in 1..n, NEW j \in 1..n, i < j  PROVE t[i] < t[j]
                BY <1>10
            <4>1. m + i < m + j
                BY <1>1
            <4> QED BY <1>1, <1>11, <2>1, <4>1
        <3>3. ASSUME NEW x \in ToSet(s), NEW y \in ToSet(t)  PROVE x < y
            <4>1. PICK i \in 1..m : x = s[i]
                BY <1>2
            <4>2. PICK j \in 1..n : y = t[j]
                BY <1>2
            <4>3. i < m + j
                BY <1>1
            <4> QED BY <1>1, <1>11, <2>1, <4>1, <4>2, <4>3
        <3> QED BY <3>1, <3>2, <3>3 DEF Below
    <2>2. ASSUME Ascending(s), Ascending(t), Below(s, t),
                 NEW i \in 1..Len(st), NEW j \in 1..Len(st), i < j
          PROVE  st[i] < st[j]
        <3>1. CASE j \in 1..m
            <4>1. i \in 1..m
                BY <1>1, <2>2, <3>1
            <4> QED BY <1>1, <1>9, <2>2, <3>1, <4>1
        <3>2. CASE i \in 1..m /\ j \notin 1..m
            <4>1. PICK k \in 1..n : j = m + k
                BY <1>1, <3>2
            <4> QED BY <1>1, <1>2, <2>2, <3>2, <4>1 DEF Below
        <3>3. CASE i \notin 1..m /\ j \notin 1..m
            <4>1. PICK k \in 1..n : i = m + k
                BY <1>1, <3>3
            <4>2. PICK l \in 1..n : j = m + l
                BY <1>1, <3>3
            <4>3. k < l
                BY <1>1, <2>2, <4>1, <4>2
            <4>4. t[k] < t[l]
                BY <1>10, <2>2, <4>3
            <4> QED BY <1>1, <4>1, <4>2, <4>4
        <3>4. CASE i \notin 1..m /\ j \in 1..m
            BY <1>1, <2>2, <3>4
        <3> QED BY <3>1, <3>2, <3>3, <3>4
    <2> QED BY <1>11, <2>1, <2>2
<1> QED BY <1>1, <1>4, <1>8, <1>12 DEF st

-----------------------------------------------------------------------------
(* The places of the entries as an invariant: s is stored, b[f] on its way *)
(* with flush f, p pending, and lo..hi the entries that must be somewhere. *)

Apart(s, b, p) ==
    /\ IsInjective(s) /\ IsInjective(p) /\ ToSet(s) \cap ToSet(p) = {}
    /\ \A f \in Flushes :
         /\ IsInjective(b[f])
         /\ ToSet(s) \cap ToSet(b[f]) = {} /\ ToSet(b[f]) \cap ToSet(p) = {}
    /\ \A f, g \in Flushes : f # g => ToSet(b[f]) \cap ToSet(b[g]) = {}

Covers(s, b, p, lo, hi) ==
    /\ ToSet(s) \subseteq 1..hi /\ ToSet(p) \subseteq 1..hi
    /\ \A f \in Flushes : ToSet(b[f]) \subseteq 1..hi
    /\ \A e \in lo..hi : e \in ToSet(s) \/ e \in ToSet(p) \/ \E f \in Flushes : e \in ToSet(b[f])

InOrder(s, b, p) ==
    /\ Ascending(s) /\ Ascending(p) /\ Below(s, p)
    /\ \A f \in Flushes : Ascending(b[f]) /\ Below(s, b[f]) /\ Below(b[f], p)

OneOnItsWay(b) == \A f, g \in Flushes : b[f] # <<>> /\ b[g] # <<>> => f = g

LEMMA TrailIs ==
    ASSUME NEW s \in Seq(Nat), NEW t \in Seq(Nat), NEW p \in Seq(Nat)
    PROVE  /\ ToSet(s \o t \o p) = ToSet(s) \cup ToSet(t) \cup ToSet(p)
           /\ IsInjective(s \o t \o p) <=>
                /\ IsInjective(s) /\ IsInjective(t) /\ IsInjective(p)
                /\ ToSet(s) \cap ToSet(t) = {} /\ ToSet(s) \cap ToSet(p) = {}
                /\ ToSet(t) \cap ToSet(p) = {}
           /\ Ascending(s \o t \o p) <=>
                /\ Ascending(s) /\ Ascending(t) /\ Ascending(p)
                /\ Below(s, t) /\ Below(s, p) /\ Below(t, p)
<1> DEFINE st == s \o t
<1>1. /\ st \in Seq(Nat) /\ ToSet(st) = ToSet(s) \cup ToSet(t)
      /\ IsInjective(st) <=>
                IsInjective(s) /\ IsInjective(t) /\ ToSet(s) \cap ToSet(t) = {}
      /\ Ascending(st) <=> Ascending(s) /\ Ascending(t) /\ Below(s, t)
    BY ListsJoined
<1> HIDE DEF st
<1>2. /\ ToSet(st \o p) = ToSet(st) \cup ToSet(p)
      /\ IsInjective(st \o p) <=>
                IsInjective(st) /\ IsInjective(p) /\ ToSet(st) \cap ToSet(p) = {}
      /\ Ascending(st \o p) <=> Ascending(st) /\ Ascending(p) /\ Below(st, p)
    BY <1>1, ListsJoined
<1>3. Below(st, p) <=> Below(s, p) /\ Below(t, p)
    BY <1>1 DEF Below
<1>4. ToSet(st) \cap ToSet(p) = {} <=> ToSet(s) \cap ToSet(p) = {} /\ ToSet(t) \cap ToSet(p) = {}
    BY <1>1
<1>5. ToSet(st \o p) = ToSet(s) \cup ToSet(t) \cup ToSet(p)
    BY <1>1, <1>2
<1>6. IsInjective(st \o p) <=>
                /\ IsInjective(s) /\ IsInjective(t) /\ IsInjective(p)
                /\ ToSet(s) \cap ToSet(t) = {} /\ ToSet(s) \cap ToSet(p) = {}
                /\ ToSet(t) \cap ToSet(p) = {}
    BY <1>1, <1>2, <1>4
<1>7. Ascending(st \o p) <=>
                /\ Ascending(s) /\ Ascending(t) /\ Ascending(p)
                /\ Below(s, t) /\ Below(s, p) /\ Below(t, p)
    BY <1>1, <1>2, <1>3
<1> QED BY <1>5, <1>6, <1>7 DEF st

(* EntriesKept and OrderKept in these terms.                               *)
LEMMA TrailsAre ==
    ASSUME NEW s \in Seq(Nat), NEW b \in [Flushes -> Seq(Nat)], NEW p \in Seq(Nat),
           NEW c \in Nat, NEW l \in Nat
    PROVE  /\ /\ \A f \in Flushes :
                   IsInjective(s \o b[f] \o p) /\ ToSet(s \o b[f] \o p) \subseteq 1..l
              /\ \A f, g \in Flushes : f # g => ToSet(b[f]) \cap ToSet(b[g]) = {}
              /\ (c + 1)..l \subseteq UNION {ToSet(s \o b[f] \o p) : f \in Flushes}
              <=> Apart(s, b, p) /\ Covers(s, b, p, c + 1, l)
           /\ (\A f \in Flushes : Ascending(s \o b[f] \o p)) <=> InOrder(s, b, p)
<1>1. PICK any \in Flushes : TRUE
    BY AuditLogAssumption
<1>2. ASSUME NEW f \in Flushes
      PROVE  /\ ToSet(s \o b[f] \o p) = ToSet(s) \cup ToSet(b[f]) \cup ToSet(p)
             /\ IsInjective(s \o b[f] \o p) <=>
                  /\ IsInjective(s) /\ IsInjective(b[f]) /\ IsInjective(p)
                  /\ ToSet(s) \cap ToSet(b[f]) = {} /\ ToSet(s) \cap ToSet(p) = {}
                  /\ ToSet(b[f]) \cap ToSet(p) = {}
             /\ Ascending(s \o b[f] \o p) <=>
                  /\ Ascending(s) /\ Ascending(b[f]) /\ Ascending(p)
                  /\ Below(s, b[f]) /\ Below(s, p) /\ Below(b[f], p)
    <2>1. b[f] \in Seq(Nat)
        OBVIOUS
    <2> QED BY <2>1, TrailIs
<1> DEFINE trail(f) == s \o b[f] \o p
<1> HIDE DEF trail
<1>3. \A f \in Flushes :
             /\ ToSet(trail(f)) = ToSet(s) \cup ToSet(b[f]) \cup ToSet(p)
             /\ IsInjective(trail(f)) <=>
                  /\ IsInjective(s) /\ IsInjective(b[f]) /\ IsInjective(p)
                  /\ ToSet(s) \cap ToSet(b[f]) = {} /\ ToSet(s) \cap ToSet(p) = {}
                  /\ ToSet(b[f]) \cap ToSet(p) = {}
             /\ Ascending(trail(f)) <=>
                  /\ Ascending(s) /\ Ascending(b[f]) /\ Ascending(p)
                  /\ Below(s, b[f]) /\ Below(s, p) /\ Below(b[f], p)
    BY <1>2 DEF trail
<1>4. (\A f \in Flushes : Ascending(trail(f))) <=> InOrder(s, b, p)
    BY <1>1, <1>3 DEF InOrder
<1>5. (\A f \in Flushes : IsInjective(trail(f)))
      /\ (\A f, g \in Flushes : f # g => ToSet(b[f]) \cap ToSet(b[g]) = {})
      <=> Apart(s, b, p)
    BY <1>1, <1>3 DEF Apart
<1>6. (\A f \in Flushes : ToSet(trail(f)) \subseteq 1..l)
      <=> ToSet(s) \subseteq 1..l /\ ToSet(p) \subseteq 1..l
          /\ \A f \in Flushes : ToSet(b[f]) \subseteq 1..l
    BY <1>1, <1>3
<1>7. (c + 1)..l \subseteq UNION {ToSet(trail(f)) : f \in Flushes}
      <=> \A e \in (c + 1)..l :
             e \in ToSet(s) \/ e \in ToSet(p) \/ \E f \in Flushes : e \in ToSet(b[f])
    <2>1. \A e : e \in UNION {ToSet(trail(f)) : f \in Flushes}
                 <=> \E f \in Flushes : e \in ToSet(trail(f))
        OBVIOUS
    <2>2. \A e : (\E f \in Flushes : e \in ToSet(trail(f)))
                 <=> e \in ToSet(s) \/ e \in ToSet(p) \/ \E f \in Flushes : e \in ToSet(b[f])
        BY <1>1, <1>3
    <2> QED BY <2>1, <2>2
<1>8. /\ \A f \in Flushes : IsInjective(trail(f)) /\ ToSet(trail(f)) \subseteq 1..l
      /\ \A f, g \in Flushes : f # g => ToSet(b[f]) \cap ToSet(b[g]) = {}
      /\ (c + 1)..l \subseteq UNION {ToSet(trail(f)) : f \in Flushes}
      <=> Apart(s, b, p) /\ Covers(s, b, p, c + 1, l)
    BY <1>5, <1>6, <1>7 DEF Covers
<1> QED BY <1>4, <1>8 DEF trail

(* log: the new entry goes behind those that are pending.                  *)
LEMMA EntryPending ==
    ASSUME NEW s \in Seq(Nat), NEW b \in [Flushes -> Seq(Nat)], NEW p \in Seq(Nat),
           NEW lo \in Nat, NEW hi \in Nat,
           Apart(s, b, p), Covers(s, b, p, lo, hi)
    PROVE  /\ Append(p, hi + 1) \in Seq(Nat)
           /\ Apart(s, b, Append(p, hi + 1)) /\ Covers(s, b, Append(p, hi + 1), lo, hi + 1)
           /\ InOrder(s, b, p) => InOrder(s, b, Append(p, hi + 1))
<1> DEFINE e == hi + 1
           q == Append(p, e)
<1>1. e \in Nat /\ e \notin 1..hi /\ \A x \in 1..hi : x < e
    OBVIOUS
<1>2. q = p \o <<e>>
    BY <1>1, AppendIsConcat
<1>3. /\ <<e>> \in Seq(Nat) /\ ToSet(<<e>>) = {e} /\ IsInjective(<<e>>) /\ Ascending(<<e>>)
    BY <1>1, OneListed
<1>4. /\ q \in Seq(Nat) /\ ToSet(q) = ToSet(p) \cup {e}
      /\ IsInjective(q) <=> IsInjective(p) /\ e \notin ToSet(p)
      /\ Ascending(q) <=> Ascending(p) /\ \A x \in ToSet(p) : x < e
    <2>1. Below(p, <<e>>) <=> \A x \in ToSet(p) : x < e
        BY <1>3 DEF Below
    <2> DEFINE o == <<e>>
    <2>2. o \in Seq(Nat) /\ q = p \o o
        BY <1>2, <1>3
    <2> HIDE DEF e, o, q
    <2>3. /\ q \in Seq(Nat) /\ ToSet(q) = ToSet(p) \cup ToSet(o)
          /\ IsInjective(q) <=> IsInjective(p) /\ IsInjective(o) /\ ToSet(p) \cap ToSet(o) = {}
          /\ Ascending(q) <=> Ascending(p) /\ Ascending(o) /\ Below(p, o)
        BY <2>2, ListsJoined
    <2> QED BY <1>3, <2>1, <2>3 DEF o
<1> HIDE DEF q, e
<1>5. ToSet(p) \subseteq 1..hi /\ ToSet(s) \subseteq 1..hi /\ \A f \in Flushes : ToSet(b[f]) \subseteq 1..hi
    BY DEF Covers
<1>6. Apart(s, b, q)
    <2>1. IsInjective(q)
        BY <1>1, <1>4, <1>5 DEF Apart
    <2>2. ToSet(s) \cap ToSet(q) = {}
        BY <1>1, <1>4, <1>5 DEF Apart
    <2>3. \A f \in Flushes : ToSet(b[f]) \cap ToSet(q) = {}
        BY <1>1, <1>4, <1>5 DEF Apart
    <2> QED BY <2>1, <2>2, <2>3 DEF Apart
<1>7. Covers(s, b, q, lo, e)
    <2>1. \A x \in 1..hi : x \in 1..e
        BY DEF e
    <2>2. e \in 1..e
        BY DEF e
    <2>3. ToSet(s) \subseteq 1..e /\ ToSet(q) \subseteq 1..e
          /\ \A f \in Flushes : ToSet(b[f]) \subseteq 1..e
        BY <1>4, <1>5, <2>1, <2>2
    <2>4. \A x \in lo..e : x \in lo..hi \/ x = e
        BY DEF e
    <2> QED BY <1>4, <2>3, <2>4 DEF Covers
<1>8. InOrder(s, b, p) => InOrder(s, b, q)
    <2> SUFFICES ASSUME InOrder(s, b, p)  PROVE InOrder(s, b, q)
        OBVIOUS
    <2>1. Ascending(q)
        BY <1>1, <1>4, <1>5 DEF InOrder
    <2>2. Below(s, q)
        BY <1>1, <1>4, <1>5 DEF InOrder, Below
    <2>3. \A f \in Flushes : Below(b[f], q)
        BY <1>1, <1>4, <1>5 DEF InOrder, Below
    <2> QED BY <2>1, <2>2, <2>3 DEF InOrder
<1> QED BY <1>4, <1>6, <1>7, <1>8 DEF q, e

(* A flush takes all that is pending.                                      *)
LEMMA FlushTakes ==
    ASSUME NEW s \in Seq(Nat), NEW b \in [Flushes -> Seq(Nat)], NEW p \in Seq(Nat),
           NEW lo \in Nat, NEW hi \in Nat, NEW f \in Flushes, b[f] = <<>>,
           Apart(s, b, p), Covers(s, b, p, lo, hi)
    PROVE  /\ [b EXCEPT ![f] = p] \in [Flushes -> Seq(Nat)]
           /\ Apart(s, [b EXCEPT ![f] = p], <<>>)
           /\ Covers(s, [b EXCEPT ![f] = p], <<>>, lo, hi)
           /\ InOrder(s, b, p) => InOrder(s, [b EXCEPT ![f] = p], <<>>)
           /\ (\A g \in Flushes : b[g] = <<>>) => OneOnItsWay([b EXCEPT ![f] = p])
<1> DEFINE c == [b EXCEPT ![f] = p]
<1>1. /\ c \in [Flushes -> Seq(Nat)] /\ c[f] = p
      /\ \A g \in Flushes : g # f => c[g] = b[g]
    OBVIOUS
<1>2. ToSet(<<>>) = {} /\ IsInjective(<<>>) /\ Ascending(<<>>)
    BY NothingListed
<1> HIDE DEF c
<1>3. Apart(s, c, <<>>)
    BY <1>1, <1>2 DEF Apart
<1>4. Covers(s, c, <<>>, lo, hi)
    <2>1. \A x \in lo..hi : x \in ToSet(s) \/ \E g \in Flushes : x \in ToSet(c[g])
        BY <1>1, <1>2 DEF Covers
    <2>2. \A g \in Flushes : ToSet(c[g]) \subseteq 1..hi
        BY <1>1 DEF Covers
    <2> QED BY <1>2, <2>1, <2>2 DEF Covers
<1>5. InOrder(s, b, p) => InOrder(s, c, <<>>)
    <2>1. Below(s, <<>>) /\ \A g \in Flushes : Below(c[g], <<>>)
        BY <1>2 DEF Below
    <2> QED BY <1>1, <1>2, <2>1 DEF InOrder
<1>6. (\A g \in Flushes : b[g] = <<>>) => OneOnItsWay(c)
    BY <1>1 DEF OneOnItsWay
<1> QED BY <1>1, <1>3, <1>4, <1>5, <1>6 DEF c

(* The adapter has stored the batch of a flush.                            *)
LEMMA BatchStored ==
    ASSUME NEW s \in Seq(Nat), NEW b \in [Flushes -> Seq(Nat)], NEW p \in Seq(Nat),
           NEW lo \in Nat, NEW hi \in Nat, NEW f \in Flushes, b[f] # <<>>,
           Apart(s, b, p), Covers(s, b, p, lo, hi)
    PROVE  /\ s \o b[f] \in Seq(Nat) /\ [b EXCEPT ![f] = <<>>] \in [Flushes -> Seq(Nat)]
           /\ Apart(s \o b[f], [b EXCEPT ![f] = <<>>], p)
           /\ Covers(s \o b[f], [b EXCEPT ![f] = <<>>], p, lo, hi)
           /\ OneOnItsWay(b) => OneOnItsWay([b EXCEPT ![f] = <<>>])
           /\ OneOnItsWay(b) /\ InOrder(s, b, p) => InOrder(s \o b[f], [b EXCEPT ![f] = <<>>], p)
<1> DEFINE c == [b EXCEPT ![f] = <<>>]
           t == b[f]
           st == s \o t
<1>1. /\ c \in [Flushes -> Seq(Nat)] /\ c[f] = <<>>
      /\ \A g \in Flushes : g # f => c[g] = b[g]
    OBVIOUS
<1>2. ToSet(<<>>) = {} /\ IsInjective(<<>>) /\ Ascending(<<>>)
    BY NothingListed
<1>3. t \in Seq(Nat) /\ t # <<>>
    OBVIOUS
<1> HIDE DEF c, t
<1>4. /\ st \in Seq(Nat) /\ ToSet(st) = ToSet(s) \cup ToSet(t)
      /\ IsInjective(st) <=> IsInjective(s) /\ IsInjective(t) /\ ToSet(s) \cap ToSet(t) = {}
      /\ Ascending(st) <=> Ascending(s) /\ Ascending(t) /\ Below(s, t)
    BY <1>3, ListsJoined
<1> HIDE DEF st
<1>5. Apart(st, c, p)
    <2>1. IsInjective(st)
        BY <1>4 DEF Apart, t
    <2>2. ToSet(st) \cap ToSet(p) = {}
        BY <1>4 DEF Apart, t
    <2>3. \A g \in Flushes : /\ IsInjective(c[g])
                             /\ ToSet(st) \cap ToSet(c[g]) = {} /\ ToSet(c[g]) \cap ToSet(p) = {}
        <3> TAKE g \in Flushes
        <3>1. CASE g = f
            BY <1>1, <1>2, <3>1
        <3>2. CASE g # f
            <4>1. ToSet(t) \cap ToSet(b[g]) = {}
                BY <3>2 DEF Apart, t
            <4> QED BY <1>1, <1>4, <3>2, <4>1 DEF Apart
        <3> QED BY <3>1, <3>2
    <2>4. \A g, h \in Flushes : g # h => ToSet(c[g]) \cap ToSet(c[h]) = {}
        <3> TAKE g, h \in Flushes
        <3>1. CASE g = f \/ h = f
            BY <1>1, <1>2, <3>1
        <3>2. CASE g # f /\ h # f
            BY <1>1, <3>2 DEF Apart
        <3> QED BY <3>1, <3>2
    <2> QED BY <2>1, <2>2, <2>3, <2>4 DEF Apart
<1>6. Covers(st, c, p, lo, hi)
    <2>1. ToSet(st) \subseteq 1..hi /\ ToSet(p) \subseteq 1..hi
        BY <1>4 DEF Covers, t
    <2>2. \A g \in Flushes : ToSet(c[g]) \subseteq 1..hi
        BY <1>1, <1>2 DEF Covers
    <2>3. ASSUME NEW x \in lo..hi
          PROVE  x \in ToSet(st) \/ x \in ToSet(p) \/ \E g \in Flushes : x \in ToSet(c[g])
        <3>1. CASE x \in ToSet(s) \/ x \in ToSet(p)
            BY <1>4, <3>1
        <3>2. CASE \E g \in Flushes : x \in ToSet(b[g])
            <4>1. PICK g \in Flushes : x \in ToSet(b[g])
                BY <3>2
            <4>2. CASE g = f
                BY <1>4, <4>1, <4>2 DEF t
            <4>3. CASE g # f
                BY <1>1, <4>1, <4>3
            <4> QED BY <4>2, <4>3
        <3> QED BY <3>1, <3>2 DEF Covers
    <2> QED BY <2>1, <2>2, <2>3 DEF Covers
<1>7. OneOnItsWay(b) => OneOnItsWay(c)
    BY <1>1 DEF OneOnItsWay
<1>8. OneOnItsWay(b) /\ InOrder(s, b, p) => InOrder(st, c, p)
    <2> SUFFICES ASSUME OneOnItsWay(b), InOrder(s, b, p)  PROVE InOrder(st, c, p)
        OBVIOUS
    <2>1. \A g \in Flushes : c[g] = <<>>
        BY <1>1, <1>3 DEF OneOnItsWay, t
    <2>2. Ascending(st)
        BY <1>4 DEF InOrder, t
    <2>3. Below(st, p)
        BY <1>4 DEF InOrder, t, Below
    <2>4. \A g \in Flushes : Ascending(c[g]) /\ Below(st, c[g]) /\ Below(c[g], p)
        BY <1>2, <2>1 DEF Below
    <2> QED BY <2>2, <2>3, <2>4 DEF InOrder
<1> QED BY <1>1, <1>4, <1>5, <1>6, <1>7, <1>8 DEF c, st, t

(* The adapter has refused it: it goes back in front of what is pending.   *)
LEMMA BatchBack ==
    ASSUME NEW s \in Seq(Nat), NEW b \in [Flushes -> Seq(Nat)], NEW p \in Seq(Nat),
           NEW lo \in Nat, NEW hi \in Nat, NEW f \in Flushes, b[f] # <<>>,
           Apart(s, b, p), Covers(s, b, p, lo, hi)
    PROVE  /\ b[f] \o p \in Seq(Nat) /\ [b EXCEPT ![f] = <<>>] \in [Flushes -> Seq(Nat)]
           /\ Apart(s, [b EXCEPT ![f] = <<>>], b[f] \o p)
           /\ Covers(s, [b EXCEPT ![f] = <<>>], b[f] \o p, lo, hi)
           /\ OneOnItsWay(b) => OneOnItsWay([b EXCEPT ![f] = <<>>])
           /\ OneOnItsWay(b) /\ InOrder(s, b, p) => InOrder(s, [b EXCEPT ![f] = <<>>], b[f] \o p)
<1> DEFINE c == [b EXCEPT ![f] = <<>>]
           t == b[f]
           tp == t \o p
<1>1. /\ c \in [Flushes -> Seq(Nat)] /\ c[f] = <<>>
      /\ \A g \in Flushes : g # f => c[g] = b[g]
    OBVIOUS
<1>2. ToSet(<<>>) = {} /\ IsInjective(<<>>) /\ Ascending(<<>>)
    BY NothingListed
<1>3. t \in Seq(Nat) /\ t # <<>>
    OBVIOUS
<1> HIDE DEF c, t
<1>4. /\ tp \in Seq(Nat) /\ ToSet(tp) = ToSet(t) \cup ToSet(p)
      /\ IsInjective(tp) <=> IsInjective(t) /\ IsInjective(p) /\ ToSet(t) \cap ToSet(p) = {}
      /\ Ascending(tp) <=> Ascending(t) /\ Ascending(p) /\ Below(t, p)
    BY <1>3, ListsJoined
<1> HIDE DEF tp
<1>5. Apart(s, c, tp)
    <2>1. IsInjective(tp)
        BY <1>4 DEF Apart, t
    <2>2. ToSet(s) \cap ToSet(tp) = {}
        BY <1>4 DEF Apart, t
    <2>3. \A g \in Flushes : /\ IsInjective(c[g])
                             /\ ToSet(s) \cap ToSet(c[g]) = {} /\ ToSet(c[g]) \cap ToSet(tp) = {}
        <3> TAKE g \in Flushes
        <3>1. CASE g = f
            BY <1>1, <1>2, <3>1
        <3>2. CASE g # f
            <4>1. ToSet(t) \cap ToSet(b[g]) = {}
                BY <3>2 DEF Apart, t
            <4> QED BY <1>1, <1>4, <3>2, <4>1 DEF Apart
        <3> QED BY <3>1, <3>2
    <2>4. \A g, h \in Flushes : g # h => ToSet(c[g]) \cap ToSet(c[h]) = {}
        <3> TAKE g, h \in Flushes
        <3>1. CASE g = f \/ h = f
            BY <1>1, <1>2, <3>1
        <3>2. CASE g # f /\ h # f
            BY <1>1, <3>2 DEF Apart
        <3> QED BY <3>1, <3>2
    <2>5. IsInjective(s)
        BY DEF Apart
    <2> QED BY <2>1, <2>2, <2>3, <2>4, <2>5 DEF Apart
<1>6. Covers(s, c, tp, lo, hi)
    <2>1. ToSet(s) \subseteq 1..hi /\ ToSet(tp) \subseteq 1..hi
        BY <1>4 DEF Covers, t
    <2>2. \A g \in Flushes : ToSet(c[g]) \subseteq 1..hi
        BY <1>1, <1>2 DEF Covers
    <2>3. ASSUME NEW x \in lo..hi
          PROVE  x \in ToSet(s) \/ x \in ToSet(tp) \/ \E g \in Flushes : x \in ToSet(c[g])
        <3>1. CASE x \in ToSet(s) \/ x \in ToSet(p)
            BY <1>4, <3>1
        <3>2. CASE \E g \in Flushes : x \in ToSet(b[g])
            <4>1. PICK g \in Flushes : x \in ToSet(b[g])
                BY <3>2
            <4>2. CASE g = f
                BY <1>4, <4>1, <4>2 DEF t
            <4>3. CASE g # f
                BY <1>1, <4>1, <4>3
            <4> QED BY <4>2, <4>3
        <3> QED BY <3>1, <3>2 DEF Covers
    <2> QED BY <2>1, <2>2, <2>3 DEF Covers
<1>7. OneOnItsWay(b) => OneOnItsWay(c)
    BY <1>1 DEF OneOnItsWay
<1>8. OneOnItsWay(b) /\ InOrder(s, b, p) => InOrder(s, c, tp)
    <2> SUFFICES ASSUME OneOnItsWay(b), InOrder(s, b, p)  PROVE InOrder(s, c, tp)
        OBVIOUS
    <2>1. \A g \in Flushes : c[g] = <<>>
        BY <1>1, <1>3 DEF OneOnItsWay, t
    <2>2. Ascending(s) /\ Ascending(tp)
        BY <1>4 DEF InOrder, t
    <2>3. Below(s, tp)
        BY <1>4 DEF InOrder, t, Below
    <2>4. \A g \in Flushes : Ascending(c[g]) /\ Below(s, c[g]) /\ Below(c[g], tp)
        BY <1>2, <2>1 DEF Below
    <2> QED BY <2>2, <2>3, <2>4 DEF InOrder
<1> QED BY <1>1, <1>4, <1>5, <1>6, <1>7, <1>8 DEF c, tp, t

-----------------------------------------------------------------------------
(* The ring.                                                               *)

LatestOf(c, l) == Newest([i \in 1..(l - c) |-> c + i], maxInMemoryEntries)

(* What it holds, entry by entry.                                          *)
Latest(r, c, l) ==
    /\ r \in Seq(Nat)
    /\ Len(r) = IF l - c > maxInMemoryEntries THEN maxInMemoryEntries ELSE l - c
    /\ \A i \in 1..Len(r) : r[i] = l - Len(r) + i

LEMMA LatestIs ==
    ASSUME NEW c \in Nat, NEW l \in Nat, c <= l
    PROVE  Latest(LatestOf(c, l), c, l)
<1> DEFINE all == [i \in 1..(l - c) |-> c + i]
           m == maxInMemoryEntries
           n == l - c
<1>1. n \in Nat /\ m \in Nat \ {0}
    BY AuditLogAssumption
<1>2. /\ all \in Seq(Nat) /\ Len(all) = n
      /\ \A i \in 1..n : all[i] = c + i
    <2>1. all \in [1..n -> Nat]
        OBVIOUS
    <2>2. all \in Seq(Nat)
        BY <1>1, <2>1
    <2>3. Len(all) = n
        BY <1>1, <2>2, LenProperties
    <2> QED BY <2>2, <2>3
<1> DEFINE r == SubSeq(all, n - m + 1, n)
<1>3. CASE n > m
    <2>1. r \in Seq(Nat) /\ Len(r) = m /\ \A i \in 1..m : r[i] = all[n - m + i]
        <3>1. n - m + 1 \in 1..n
            BY <1>1, <1>3
        <3>2. \A i \in (n - m + 1)..n : all[i] \in Nat
            BY <1>1, <1>2, <3>1
        <3> HIDE DEF all, n, m
        <3>3. /\ SubSeq(all, n - m + 1, n) \in Seq(Nat)
              /\ Len(SubSeq(all, n - m + 1, n)) =
                   IF n - m + 1 <= n THEN n - (n - m + 1) + 1 ELSE 0
              /\ \A i \in 1..(n - (n - m + 1) + 1) :
                   SubSeq(all, n - m + 1, n)[i] = all[(n - m + 1) + i - 1]
            BY <1>1, <3>2, SubSeqProperties
        <3>4. n - (n - m + 1) + 1 = m /\ n - m + 1 <= n
            BY <1>1
        <3>5. \A i \in 1..m : (n - m + 1) + i - 1 = n - m + i
            BY <1>1
        <3> QED BY <3>3, <3>4, <3>5
    <2>2. \A i \in 1..m : n - m + i \in 1..n /\ c + (n - m + i) = l - m + i
        BY <1>1, <1>3
    <2>3. LatestOf(c, l) = r
        BY <1>2, <1>3 DEF LatestOf, Newest
    <2>4. \A i \in 1..m : r[i] = l - m + i
        <3> HIDE DEF r, all, n, m
        <3> TAKE i \in 1..m
        <3>1. r[i] = all[n - m + i] /\ n - m + i \in 1..n
            BY <2>1, <2>2
        <3>2. all[n - m + i] = c + (n - m + i)
            BY <1>2, <3>1
        <3> QED BY <2>2, <3>1, <3>2
    <2>5. Len(r) = IF l - c > maxInMemoryEntries THEN maxInMemoryEntries ELSE l - c
        BY <1>3, <2>1
    <2> HIDE DEF r
    <2> QED BY <2>1, <2>3, <2>4, <2>5 DEF Latest
<1>4. CASE ~ n > m
    <2>1. LatestOf(c, l) = all
        BY <1>2, <1>4 DEF LatestOf, Newest
    <2>2. \A i \in 1..n : c + i = l - n + i
        BY <1>1
    <2>3. Len(all) = IF l - c > maxInMemoryEntries THEN maxInMemoryEntries ELSE l - c
        BY <1>2, <1>4
    <2> HIDE DEF all
    <2> QED BY <1>2, <2>1, <2>2, <2>3 DEF Latest
<1> QED BY <1>3, <1>4

LEMMA LatestUnique ==
    ASSUME NEW c \in Nat, NEW l \in Nat, c <= l, NEW r, Latest(r, c, l), NEW t, Latest(t, c, l)
    PROVE  r = t
<1>1. /\ r \in Seq(Nat) /\ t \in Seq(Nat) /\ Len(r) = Len(t)
      /\ \A i \in 1..Len(r) : r[i] = t[i]
    BY DEF Latest
<1> QED BY <1>1, SeqEqual

(* log: the entry is added and the oldest one dropped.                     *)
LEMMA EntryKept ==
    ASSUME NEW c \in Nat, NEW l \in Nat, c <= l, NEW r, Latest(r, c, l)
    PROVE  Newest(Append(r, l + 1), maxInMemoryEntries) = LatestOf(c, l + 1)
<1> DEFINE a == Append(r, l + 1)
           m == maxInMemoryEntries
           k == Len(r)
<1>1. r \in Seq(Nat) /\ k \in Nat /\ m \in Nat \ {0} /\ l + 1 \in Nat /\ k <= m /\ k <= l - c
    BY AuditLogAssumption DEF Latest
<1>2. /\ a \in Seq(Nat) /\ Len(a) = k + 1
      /\ \A i \in 1..(k + 1) : a[i] = l - k + i
    <2>1. /\ a \in Seq(Nat) /\ Len(a) = k + 1
          /\ \A i \in 1..k : a[i] = r[i]
          /\ a[k + 1] = l + 1
        BY <1>1, AppendProperties
    <2>2. \A i \in 1..k : r[i] = l - k + i
        BY DEF Latest
    <2>3. \A i \in 1..(k + 1) : i \in 1..k \/ i = k + 1
        BY <1>1
    <2>4. l - k + (k + 1) = l + 1
        BY <1>1
    <2> HIDE DEF a, k
    <2> QED BY <2>1, <2>2, <2>3, <2>4
<1> DEFINE w == SubSeq(a, 2, k + 1)
<1> HIDE DEF a, k
<1>3. k = IF l - c > m THEN m ELSE l - c
    BY DEF Latest, k
<1>4. CASE k + 1 > m
    <2>1. k = m
        BY <1>1, <1>4
    <2>2. Newest(a, m) = w
        <3>1. (k + 1) - m + 1 = 2
            BY <1>1, <2>1
        <3> QED BY <1>2, <1>4, <3>1 DEF Newest
    <2>3. /\ w \in Seq(Nat) /\ Len(w) = k
          /\ \A i \in 1..k : w[i] = a[i + 1]
        <3>1. \A i \in 2..(k + 1) : a[i] \in Nat
            BY <1>1, <1>2, ElementOfSeq
        <3>2. k + 1 \in Int /\ 2 <= k + 1 /\ (k + 1) - 2 + 1 = k /\ \A i \in 1..k : 2 + i - 1 = i + 1
            BY <1>1, <2>1
        <3>3. /\ w \in Seq(Nat) /\ Len(w) = IF 2 <= k + 1 THEN (k + 1) - 2 + 1 ELSE 0
              /\ \A i \in 1..((k + 1) - 2 + 1) : w[i] = a[2 + i - 1]
            BY <3>1, <3>2, SubSeqProperties
        <3> HIDE DEF w
        <3> QED BY <3>2, <3>3
    <2> HIDE DEF w
    <2>4. \A i \in 1..k : w[i] = (l + 1) - k + i
        <3>1. \A i \in 1..k : i + 1 \in 1..(k + 1) /\ l - k + (i + 1) = (l + 1) - k + i
            BY <1>1
        <3> QED BY <1>2, <2>3, <3>1
    <2>5. k = IF (l + 1) - c > m THEN m ELSE (l + 1) - c
        BY <1>1, <1>3, <2>1
    <2>6. Latest(w, c, l + 1)
        BY <2>3, <2>4, <2>5 DEF Latest
    <2>7. Latest(LatestOf(c, l + 1), c, l + 1)
        BY <1>1, LatestIs
    <2>8. w = LatestOf(c, l + 1)
        BY <1>1, <2>6, <2>7, LatestUnique
    <2> QED BY <2>2, <2>8 DEF a
<1>5. CASE ~ k + 1 > m
    <2>1. Newest(a, m) = a
        BY <1>2, <1>5 DEF Newest
    <2>2. k + 1 = IF (l + 1) - c > m THEN m ELSE (l + 1) - c
        BY <1>1, <1>3, <1>5
    <2>3. \A i \in 1..(k + 1) : a[i] = (l + 1) - (k + 1) + i
        <3>1. \A i \in 1..(k + 1) : l - k + i = (l + 1) - (k + 1) + i
            BY <1>1
        <3> QED BY <1>2, <3>1
    <2>4. Latest(a, c, l + 1)
        BY <1>2, <2>2, <2>3 DEF Latest
    <2>5. Latest(LatestOf(c, l + 1), c, l + 1)
        BY <1>1, LatestIs
    <2>6. a = LatestOf(c, l + 1)
        BY <1>1, <2>4, <2>5, LatestUnique
    <2> QED BY <2>1, <2>6 DEF a
<1> QED BY <1>1, <1>4, <1>5

LEMMA NothingKept ==
    ASSUME NEW l \in Nat
    PROVE  LatestOf(l, l) = <<>>
<1>1. Latest(LatestOf(l, l), l, l)
    BY LatestIs
<1>2. Latest(<<>>, l, l)
    <2>1. <<>> \in Seq(Nat) /\ Len(<<>>) = 0 /\ l - l = 0 /\ ~ 0 > maxInMemoryEntries
        BY AuditLogAssumption
    <2> QED BY <2>1 DEF Latest
<1> QED BY <1>1, <1>2, LatestUnique

-----------------------------------------------------------------------------
AuditTypeOK ==
    /\ persistenceAdapter \in BOOLEAN /\ overlapped \in BOOLEAN
    /\ logged \in Nat /\ cleared \in Nat /\ cleared <= logged
    /\ stored \in Seq(Nat) /\ pendingFlush \in Seq(Nat)
    /\ batch \in [Flushes -> Seq(Nat)]

PlacesOK ==
    /\ Apart(stored, batch, pendingFlush)
    /\ Covers(stored, batch, pendingFlush, cleared + 1, logged)
    /\ ~overlapped => OneOnItsWay(batch) /\ InOrder(stored, batch, pendingFlush)

RingOK == entries = LatestOf(cleared, logged)

(* AuditInv, and what makes it inductive: as long as no two flushes        *)
(* overlapped there is one batch at most, so that one that comes back      *)
(* comes back where it belongs.                                            *)
AuditInd == AuditTypeOK /\ PlacesOK /\ RingOK

LEMMA AuditInitially == AuditInit => AuditInd
<1> SUFFICES ASSUME AuditInit  PROVE AuditInd
    OBVIOUS
<1>0. ToSet(<<>>) = {} /\ IsInjective(<<>>) /\ Ascending(<<>>)
    BY NothingListed
<1>1. AuditTypeOK
    <2>1. <<>> \in Seq(Nat)
        OBVIOUS
    <2>2. batch \in [Flushes -> Seq(Nat)]
        BY <2>1 DEF AuditInit
    <2>3. persistenceAdapter \in BOOLEAN /\ overlapped \in BOOLEAN
        BY DEF AuditInit
    <2>4. logged \in Nat /\ cleared \in Nat /\ cleared <= logged
        BY DEF AuditInit
    <2>5. stored \in Seq(Nat) /\ pendingFlush \in Seq(Nat)
        BY <2>1 DEF AuditInit
    <2> QED BY <2>2, <2>3, <2>4, <2>5 DEF AuditTypeOK
<1>2. stored = <<>> /\ pendingFlush = <<>> /\ \A f \in Flushes : batch[f] = <<>>
    BY DEF AuditInit
<1>3. Apart(stored, batch, pendingFlush)
    BY <1>0, <1>2 DEF Apart
<1>4. Covers(stored, batch, pendingFlush, cleared + 1, logged)
    <2>1. (cleared + 1)..logged = {}
        BY DEF AuditInit
    <2> QED BY <1>0, <1>2, <2>1 DEF Covers
<1>5. OneOnItsWay(batch) /\ InOrder(stored, batch, pendingFlush)
    BY <1>0, <1>2 DEF OneOnItsWay, InOrder, Below
<1>6. RingOK
    BY NothingKept DEF AuditInit, RingOK
<1> QED BY <1>1, <1>3, <1>4, <1>5, <1>6 DEF AuditInd, PlacesOK

(* What a flush takes it has, whether a call of flush or the threshold     *)
(* started it.                                                             *)
LEMMA TakesKeeps ==
    ASSUME AuditTypeOK, NEW list \in Seq(Nat), Takes(list), NEW hi \in Nat, NEW lo \in Nat,
           Apart(stored, batch, list), Covers(stored, batch, list, lo, hi),
           ~overlapped => OneOnItsWay(batch) /\ InOrder(stored, batch, list)
    PROVE  /\ batch' \in [Flushes -> Seq(Nat)] /\ pendingFlush' \in Seq(Nat)
           /\ overlapped' \in BOOLEAN
           /\ Apart(stored, batch', pendingFlush') /\ Covers(stored, batch', pendingFlush', lo, hi)
           /\ ~overlapped' => OneOnItsWay(batch') /\ InOrder(stored, batch', pendingFlush')
<1>1. PICK f \in Flushes :
        /\ batch[f] = <<>> /\ batch' = [batch EXCEPT ![f] = list]
        /\ overlapped' = (overlapped \/ \E g \in Flushes : batch[g] # <<>>)
        /\ pendingFlush' = <<>>
    BY DEF Takes
<1>2. stored \in Seq(Nat) /\ batch \in [Flushes -> Seq(Nat)] /\ overlapped \in BOOLEAN
    BY DEF AuditTypeOK
<1>3. /\ [batch EXCEPT ![f] = list] \in [Flushes -> Seq(Nat)]
      /\ Apart(stored, [batch EXCEPT ![f] = list], <<>>)
      /\ Covers(stored, [batch EXCEPT ![f] = list], <<>>, lo, hi)
      /\ InOrder(stored, batch, list) => InOrder(stored, [batch EXCEPT ![f] = list], <<>>)
      /\ (\A g \in Flushes : batch[g] = <<>>) => OneOnItsWay([batch EXCEPT ![f] = list])
    BY <1>1, <1>2, FlushTakes
<1>4. ~overlapped' => ~overlapped /\ \A g \in Flushes : batch[g] = <<>>
    BY <1>1
<1>5. /\ batch' \in [Flushes -> Seq(Nat)] /\ pendingFlush' \in Seq(Nat)
      /\ Apart(stored, batch', pendingFlush') /\ Covers(stored, batch', pendingFlush', lo, hi)
    BY <1>1, <1>3
<1>6. ~overlapped' => OneOnItsWay(batch') /\ InOrder(stored, batch', pendingFlush')
    BY <1>1, <1>3, <1>4
<1>7. overlapped' \in BOOLEAN
    BY <1>1
<1> QED BY <1>5, <1>6, <1>7

LEMMA LogKeeps ==
    ASSUME AuditInd, Log
    PROVE  AuditInd'
<1> DEFINE list == Append(pendingFlush, logged + 1)
<1>1. /\ stored \in Seq(Nat) /\ batch \in [Flushes -> Seq(Nat)] /\ pendingFlush \in Seq(Nat)
      /\ overlapped \in BOOLEAN /\ persistenceAdapter \in BOOLEAN
      /\ logged \in Nat /\ cleared \in Nat /\ cleared <= logged /\ cleared + 1 \in Nat
    BY DEF AuditInd, AuditTypeOK
<1>2. /\ logged' = logged + 1 /\ cleared' = cleared /\ stored' = stored
      /\ persistenceAdapter' = persistenceAdapter
      /\ entries' = Newest(Append(entries, logged + 1), maxInMemoryEntries)
      /\ \/ Takes(list)
         \/ pendingFlush' = list /\ batch' = batch /\ overlapped' = overlapped
    BY DEF Log
<1>3. /\ Apart(stored, batch, pendingFlush)
      /\ Covers(stored, batch, pendingFlush, cleared + 1, logged)
      /\ ~overlapped => OneOnItsWay(batch) /\ InOrder(stored, batch, pendingFlush)
    BY DEF AuditInd, PlacesOK
<1>4. /\ list \in Seq(Nat)
      /\ Apart(stored, batch, list) /\ Covers(stored, batch, list, cleared + 1, logged + 1)
      /\ InOrder(stored, batch, pendingFlush) => InOrder(stored, batch, list)
    <2> DEFINE lo == cleared + 1
    <2>1. lo \in Nat /\ Covers(stored, batch, pendingFlush, lo, logged)
        BY <1>1, <1>3
    <2> HIDE DEF lo
    <2>2. /\ Append(pendingFlush, logged + 1) \in Seq(Nat)
          /\ Apart(stored, batch, Append(pendingFlush, logged + 1))
          /\ Covers(stored, batch, Append(pendingFlush, logged + 1), lo, logged + 1)
          /\ InOrder(stored, batch, pendingFlush)
             => InOrder(stored, batch, Append(pendingFlush, logged + 1))
        BY <1>1, <1>3, <2>1, EntryPending
    <2> QED BY <2>2 DEF lo
<1> HIDE DEF list
<1>5. /\ batch' \in [Flushes -> Seq(Nat)] /\ pendingFlush' \in Seq(Nat)
      /\ overlapped' \in BOOLEAN
      /\ Apart(stored, batch', pendingFlush')
      /\ Covers(stored, batch', pendingFlush', cleared + 1, logged + 1)
      /\ ~overlapped' => OneOnItsWay(batch') /\ InOrder(stored, batch', pendingFlush')
    <2>1. CASE Takes(list)
        <3>1. AuditTypeOK /\ logged + 1 \in Nat
            BY <1>1 DEF AuditInd
        <3>2. ~overlapped => OneOnItsWay(batch) /\ InOrder(stored, batch, list)
            BY <1>3, <1>4
        <3> QED BY <1>1, <1>4, <2>1, <3>1, <3>2, TakesKeeps
    <2>2. CASE pendingFlush' = list /\ batch' = batch /\ overlapped' = overlapped
        BY <1>1, <1>3, <1>4, <2>2
    <2> QED BY <1>2, <2>1, <2>2
<1>6. AuditTypeOK'
    BY <1>1, <1>2, <1>5 DEF AuditTypeOK
<1>7. PlacesOK'
    BY <1>2, <1>5 DEF PlacesOK
<1>8. RingOK'
    <2>1. Latest(entries, cleared, logged)
        BY <1>1, LatestIs DEF AuditInd, RingOK
    <2>2. entries' = LatestOf(cleared, logged + 1)
        BY <1>1, <1>2, <2>1, EntryKept
    <2> QED BY <1>2, <2>2 DEF RingOK
<1> QED BY <1>6, <1>7, <1>8 DEF AuditInd

LEMMA FlushKeeps ==
    ASSUME AuditInd, Flush
    PROVE  AuditInd'
<1>1. /\ stored' = stored /\ logged' = logged /\ cleared' = cleared /\ entries' = entries
      /\ persistenceAdapter' = persistenceAdapter /\ Takes(pendingFlush)
    BY DEF Flush
<1>2. pendingFlush \in Seq(Nat) /\ logged \in Nat /\ cleared + 1 \in Nat /\ AuditTypeOK
    BY DEF AuditInd, AuditTypeOK
<1>3. /\ Apart(stored, batch, pendingFlush)
      /\ Covers(stored, batch, pendingFlush, cleared + 1, logged)
      /\ ~overlapped => OneOnItsWay(batch) /\ InOrder(stored, batch, pendingFlush)
    BY DEF AuditInd, PlacesOK
<1>4. /\ batch' \in [Flushes -> Seq(Nat)] /\ pendingFlush' \in Seq(Nat)
      /\ overlapped' \in BOOLEAN
      /\ Apart(stored, batch', pendingFlush')
      /\ Covers(stored, batch', pendingFlush', cleared + 1, logged)
      /\ ~overlapped' => OneOnItsWay(batch') /\ InOrder(stored, batch', pendingFlush')
    BY <1>1, <1>2, <1>3, TakesKeeps
<1>5. AuditTypeOK'
    BY <1>1, <1>2, <1>4 DEF AuditTypeOK
<1>6. PlacesOK' /\ RingOK'
    BY <1>1, <1>4 DEF PlacesOK, RingOK, AuditInd
<1> QED BY <1>5, <1>6 DEF AuditInd

(* A flush that ends, well or badly.                                       *)
LEMMA FlushEndsKeeps ==
    ASSUME AuditInd, NEW f \in Flushes, FlushStored(f) \/ FlushFails(f)
    PROVE  AuditInd'
<1>1. /\ batch[f] # <<>> /\ batch' = [batch EXCEPT ![f] = <<>>]
      /\ logged' = logged /\ cleared' = cleared /\ entries' = entries
      /\ persistenceAdapter' = persistenceAdapter /\ overlapped' = overlapped
      /\ \/ stored' = stored \o batch[f] /\ pendingFlush' = pendingFlush
         \/ stored' = stored /\ pendingFlush' = batch[f] \o pendingFlush
    BY DEF FlushStored, FlushFails
<1>2. /\ stored \in Seq(Nat) /\ batch \in [Flushes -> Seq(Nat)] /\ pendingFlush \in Seq(Nat)
      /\ logged \in Nat /\ cleared + 1 \in Nat
    BY DEF AuditInd, AuditTypeOK
<1>3. /\ Apart(stored, batch, pendingFlush)
      /\ Covers(stored, batch, pendingFlush, cleared + 1, logged)
      /\ ~overlapped => OneOnItsWay(batch) /\ InOrder(stored, batch, pendingFlush)
    BY DEF AuditInd, PlacesOK
<1>4. /\ stored' \in Seq(Nat) /\ batch' \in [Flushes -> Seq(Nat)] /\ pendingFlush' \in Seq(Nat)
      /\ Apart(stored', batch', pendingFlush')
      /\ Covers(stored', batch', pendingFlush', cleared + 1, logged)
      /\ OneOnItsWay(batch) => OneOnItsWay(batch')
      /\ OneOnItsWay(batch) /\ InOrder(stored, batch, pendingFlush)
         => InOrder(stored', batch', pendingFlush')
    <2>1. CASE stored' = stored \o batch[f] /\ pendingFlush' = pendingFlush
        <3>1. /\ stored \o batch[f] \in Seq(Nat) /\ [batch EXCEPT ![f] = <<>>] \in [Flushes -> Seq(Nat)]
              /\ Apart(stored \o batch[f], [batch EXCEPT ![f] = <<>>], pendingFlush)
              /\ Covers(stored \o batch[f], [batch EXCEPT ![f] = <<>>], pendingFlush, cleared + 1, logged)
              /\ OneOnItsWay(batch) => OneOnItsWay([batch EXCEPT ![f] = <<>>])
              /\ OneOnItsWay(batch) /\ InOrder(stored, batch, pendingFlush)
                 => InOrder(stored \o batch[f], [batch EXCEPT ![f] = <<>>], pendingFlush)
            BY <1>1, <1>2, <1>3, BatchStored
        <3> QED BY <1>1, <1>2, <2>1, <3>1
    <2>2. CASE stored' = stored /\ pendingFlush' = batch[f] \o pendingFlush
        <3>1. /\ batch[f] \o pendingFlush \in Seq(Nat) /\ [batch EXCEPT ![f] = <<>>] \in [Flushes -> Seq(Nat)]
              /\ Apart(stored, [batch EXCEPT ![f] = <<>>], batch[f] \o pendingFlush)
              /\ Covers(stored, [batch EXCEPT ![f] = <<>>], batch[f] \o pendingFlush, cleared + 1, logged)
              /\ OneOnItsWay(batch) => OneOnItsWay([batch EXCEPT ![f] = <<>>])
              /\ OneOnItsWay(batch) /\ InOrder(stored, batch, pendingFlush)
                 => InOrder(stored, [batch EXCEPT ![f] = <<>>], batch[f] \o pendingFlush)
            BY <1>1, <1>2, <1>3, BatchBack
        <3> QED BY <1>1, <1>2, <2>2, <3>1
    <2> QED BY <1>1, <2>1, <2>2
<1>5. AuditTypeOK'
    BY <1>1, <1>4 DEF AuditTypeOK, AuditInd
<1>6. PlacesOK'
    BY <1>1, <1>3, <1>4 DEF PlacesOK
<1>7. RingOK'
    BY <1>1 DEF RingOK, AuditInd
<1> QED BY <1>5, <1>6, <1>7 DEF AuditInd

LEMMA ClearKeeps ==
    ASSUME AuditInd, Clear
    PROVE  AuditInd'
<1>0. ToSet(<<>>) = {} /\ IsInjective(<<>>) /\ Ascending(<<>>)
    BY NothingListed
<1>1. /\ entries' = <<>> /\ pendingFlush' = <<>> /\ cleared' = logged
      /\ persistenceAdapter' = persistenceAdapter /\ logged' = logged /\ batch' = batch
      /\ stored' = stored /\ overlapped' = overlapped
    BY DEF Clear
<1>2. logged \in Nat
    BY DEF AuditInd, AuditTypeOK
<1>3. AuditTypeOK'
    BY <1>1, <1>2 DEF AuditInd, AuditTypeOK
<1>4. Apart(stored, batch, <<>>)
    BY <1>0 DEF Apart, AuditInd, PlacesOK
<1>5. Covers(stored, batch, <<>>, logged + 1, logged)
    <2>1. (logged + 1)..logged = {}
        BY <1>2
    <2> QED BY <1>0, <2>1 DEF Covers, AuditInd, PlacesOK
<1>6. ~overlapped => OneOnItsWay(batch) /\ InOrder(stored, batch, <<>>)
    BY <1>0 DEF InOrder, Below, AuditInd, PlacesOK
<1>7. PlacesOK'
    BY <1>1, <1>4, <1>5, <1>6 DEF PlacesOK
<1>8. RingOK'
    BY <1>1, <1>2, NothingKept DEF RingOK
<1> QED BY <1>3, <1>7, <1>8 DEF AuditInd

LEMMA AuditStep == AuditInd /\ [AuditNext]_auditVars => AuditInd'
<1> SUFFICES ASSUME AuditInd, [AuditNext]_auditVars  PROVE AuditInd'
    OBVIOUS
<1>1. CASE SetPersistenceAdapter
    BY <1>1 DEF SetPersistenceAdapter, AuditInd, AuditTypeOK, PlacesOK, RingOK
<1>2. CASE UNCHANGED auditVars
    BY <1>2 DEF auditVars, AuditInd, AuditTypeOK, PlacesOK, RingOK
<1> QED BY <1>1, <1>2, LogKeeps, FlushKeeps, FlushEndsKeeps, ClearKeeps DEF AuditNext

(* The audit trail (autonomy/social/ActionAuditLog.ts) loses and repeats   *)
(* nothing on its way to the adapter, whatever flushes overlap and fail,   *)
(* keeps the order unless two flushes overlap, and the ring holds the      *)
(* newest entries.                                                         *)
THEOREM AuditTrailIsKept == AuditSpec => []AuditInv
<1>1. AuditInd => AuditInv
    <2> SUFFICES ASSUME AuditInd  PROVE AuditInv
        OBVIOUS
    <2>1. /\ stored \in Seq(Nat) /\ batch \in [Flushes -> Seq(Nat)] /\ pendingFlush \in Seq(Nat)
          /\ cleared \in Nat /\ logged \in Nat
        BY DEF AuditInd, AuditTypeOK
    <2>2. /\ EntriesKept <=> Apart(stored, batch, pendingFlush)
                             /\ Covers(stored, batch, pendingFlush, cleared + 1, logged)
          /\ (\A f \in Flushes : Ascending(TrailOf(f))) <=> InOrder(stored, batch, pendingFlush)
        BY <2>1, TrailsAre DEF EntriesKept, TrailOf
    <2>3. EntriesKept /\ OrderKept
        BY <2>2 DEF OrderKept, AuditInd, PlacesOK
    <2>4. RingIsNewest
        BY DEF RingIsNewest, AuditInd, RingOK, LatestOf
    <2> QED BY <2>3, <2>4 DEF AuditInv
<1> QED BY <1>1, AuditInitially, AuditStep, PTL DEF AuditSpec
=============================================================================

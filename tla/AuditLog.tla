------------------------------ MODULE AuditLog ------------------------------
(***************************************************************************)
(* autonomy/social/ActionAuditLog.ts: the ring buffer of the latest        *)
(* entries and the list of those still to be persisted.  A flush takes the *)
(* whole list with it and puts it back in front when the adapter fails;    *)
(* nothing waits for a flush, so flushes overlap.  An entry goes by its    *)
(* number.  The adapter is external: it stores a batch whole or not at all.*)
(***************************************************************************)
EXTENDS Naturals, SequencesExt

CONSTANTS
    Flushes,            \* the flushes that can be under way at once: a bound
    maxInMemoryEntries, flushThreshold,
    MaxEntries          \* bound on the entries logged

ASSUME AuditLogAssumption ==
    /\ Flushes # {}
    /\ maxInMemoryEntries \in Nat \ {0} /\ flushThreshold \in Nat \ {0} /\ MaxEntries \in Nat

VARIABLES
    persistenceAdapter, \* one is set
    logged,             \* how many entries were logged (history)
    entries, pendingFlush,
    batch,              \* what each flush took, empty when it is over
    stored,             \* what the adapter has
    cleared,            \* the entries logged before the last clear (history)
    overlapped          \* two flushes were under way at a time (history)

auditVars == <<persistenceAdapter, logged, entries, pendingFlush, batch, stored, cleared, overlapped>>

AuditInit ==
    /\ persistenceAdapter = FALSE
    /\ logged = 0 /\ cleared = 0
    /\ entries = <<>> /\ pendingFlush = <<>> /\ stored = <<>>
    /\ batch = [f \in Flushes |-> <<>>]
    /\ overlapped = FALSE

-----------------------------------------------------------------------------
SetPersistenceAdapter ==
    /\ persistenceAdapter' = TRUE
    /\ UNCHANGED <<logged, entries, pendingFlush, batch, stored, cleared, overlapped>>

(* The newest n of a sequence.                                             *)
Newest(seq, n) == IF Len(seq) > n THEN SubSeq(seq, Len(seq) - n + 1, Len(seq)) ELSE seq

(* A flush takes `list`, everything that was pending.                      *)
Takes(list) ==
    \E f \in Flushes :
        /\ batch[f] = <<>>
        /\ batch' = [batch EXCEPT ![f] = list]
        /\ overlapped' = (overlapped \/ \E g \in Flushes : batch[g] # <<>>)
        /\ pendingFlush' = <<>>

(* log: evicts the oldest entries, and flushes at the threshold.           *)
Log ==
    /\ logged < MaxEntries
    /\ logged' = logged + 1
    /\ entries' = Newest(Append(entries, logged'), maxInMemoryEntries)
    /\ LET list == Append(pendingFlush, logged') IN
        IF persistenceAdapter /\ Len(list) >= flushThreshold
        THEN Takes(list)
        ELSE pendingFlush' = list /\ UNCHANGED <<batch, overlapped>>
    /\ UNCHANGED <<persistenceAdapter, stored, cleared>>

(* flush, called from outside.                                             *)
Flush ==
    /\ persistenceAdapter /\ pendingFlush # <<>>
    /\ Takes(pendingFlush)
    /\ UNCHANGED <<persistenceAdapter, logged, entries, stored, cleared>>

FlushStored(f) ==
    /\ batch[f] # <<>>
    /\ stored' = stored \o batch[f]
    /\ batch' = [batch EXCEPT ![f] = <<>>]
    /\ UNCHANGED <<persistenceAdapter, logged, entries, pendingFlush, cleared, overlapped>>

(* Mutant: the batch goes back behind what was logged meanwhile.           *)
FlushFailsToTheEnd(f) ==
    /\ batch[f] # <<>>
    /\ pendingFlush' = pendingFlush \o batch[f]
    /\ batch' = [batch EXCEPT ![f] = <<>>]
    /\ UNCHANGED <<persistenceAdapter, logged, entries, stored, cleared, overlapped>>

FlushFails(f) ==
    /\ batch[f] # <<>>
    /\ pendingFlush' = batch[f] \o pendingFlush
    /\ batch' = [batch EXCEPT ![f] = <<>>]
    /\ UNCHANGED <<persistenceAdapter, logged, entries, stored, cleared, overlapped>>

(* clear: the batches under way are out of its reach.                      *)
Clear ==
    /\ entries' = <<>> /\ pendingFlush' = <<>>
    /\ cleared' = logged
    /\ UNCHANGED <<persistenceAdapter, logged, batch, stored, overlapped>>

AuditNext ==
    \/ SetPersistenceAdapter \/ Log \/ Flush \/ Clear
    \/ \E f \in Flushes : FlushStored(f) \/ FlushFails(f)

AuditSpec == AuditInit /\ [][AuditNext]_auditVars

-----------------------------------------------------------------------------
(* The places an entry can be on its way to the adapter, oldest first: all *)
(* of them but for the flushes other than f.                               *)
TrailOf(f) == stored \o batch[f] \o pendingFlush

Ascending(seq) == \A i, j \in DOMAIN seq : i < j => seq[i] < seq[j]

(* An entry is pending, in one flush or stored, and only in one of these,  *)
(* unless clear() dropped it.                                              *)
EntriesKept ==
    /\ \A f \in Flushes : IsInjective(TrailOf(f)) /\ ToSet(TrailOf(f)) \subseteq 1..logged
    /\ \A f, g \in Flushes : f # g => ToSet(batch[f]) \cap ToSet(batch[g]) = {}
    /\ (cleared + 1)..logged \subseteq UNION {ToSet(TrailOf(f)) : f \in Flushes}

(* Entries reach the adapter in the order they were logged as long as no   *)
(* two flushes overlapped, failed flushes included.                        *)
OrderKept == ~overlapped => \A f \in Flushes : Ascending(TrailOf(f))

(* The ring holds the newest entries since the last clear.                 *)
RingIsNewest ==
    entries = Newest([i \in 1..(logged - cleared) |-> cleared + i], maxInMemoryEntries)

(* The audit trail loses and repeats nothing on its way to the adapter,    *)
(* and reorders nothing but what overlapping flushes hold: log, flush and  *)
(* clear against flushes that end in any order, well or badly.             *)
AuditInv == EntriesKept /\ OrderKept /\ RingIsNewest
=============================================================================

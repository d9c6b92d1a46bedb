----------------------------- MODULE AutonomyMC -----------------------------
(* What an agent does on its own beside its turns: the loop that bids on   *)
(* jobs, the loop that withdraws lost bids, the analyses of what it reads, *)
(* and the audit log.  They share no state, so an instance runs one of     *)
(* them, `part`, and the others stand still.                               *)
EXTENDS JobScanner, BidLifecycle, SentimentAnalyzer, AuditLog

VARIABLE part

AutonomyInit ==
    /\ part \in {"scanner", "lifecycle", "moods", "audit"}
    /\ ScannerInit /\ LifecycleInit /\ AnalyzerInit /\ AuditInit

AutonomyNext ==
    /\ UNCHANGED part
    /\ \/ part = "scanner" /\ ScannerNext /\ UNCHANGED <<lifecycleVars, analyzerVars, auditVars>>
       \/ part = "lifecycle" /\ LifecycleNext /\ UNCHANGED <<scannerVars, analyzerVars, auditVars>>
       \/ part = "moods" /\ AnalyzerNext /\ UNCHANGED <<scannerVars, lifecycleVars, auditVars>>
       \/ part = "audit" /\ AuditNext /\ UNCHANGED <<scannerVars, lifecycleVars, analyzerVars>>

AutonomySpec ==
    /\ AutonomyInit
    /\ [][AutonomyNext]_<<scannerVars, lifecycleVars, analyzerVars, auditVars, part>>
    /\ ScannerFairness /\ LifecycleFairness /\ AnalyzerFairness
=============================================================================

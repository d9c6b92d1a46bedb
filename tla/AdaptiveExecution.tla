------------------------- MODULE AdaptiveExecution --------------------------
(***************************************************************************)
(* runtime/execution/adaptive-execution.ts: the outcomes of turns, kept in *)
(* a rolling window per scope and in a table of the storage, decide        *)
(* whether the next turn of the scope runs degraded, and raise alerts.     *)
(* Turns overlap: a turn takes its decision when it starts and records its *)
(* outcome when it ends, saving the window behind an await.  On postgres a *)
(* save is a query and then a statement; elsewhere it is one statement.    *)
(* Scores are percentages; an entry is numbered in the order of recording. *)
(***************************************************************************)
EXTENDS Naturals, Sequences, FiniteSets

CONSTANTS
    Scopes, MaxTurns,       \* scopes; bound: turns
    rollingWindowSize, minSamples, minRate,         \* minWeightedSuccessRate
    alertMinSamples, alertRate,                     \* alertBelowWeightedSuccessRate
    Outcomes,               \* bound: how turns end
    MaxRestarts, MaxCooldowns                       \* bounds

Samples == 1..MaxTurns      \* the turns, in the order they start

ASSUME AdaptiveAssumption ==
    /\ MaxTurns \in Nat
    /\ rollingWindowSize \in Nat \ {0} /\ minSamples \in Nat /\ alertMinSamples \in Nat
    /\ minRate \in 0..100 /\ alertRate \in 0..100
    /\ Outcomes \subseteq {"failed", "nothing", "partial", "success"}
    /\ MaxRestarts \in Nat /\ MaxCooldowns \in Nat

VARIABLES
    postgres,   \* the kind of the storage
    connected,  \* storageAdapter: persistence was initialized and not closed
    kpiWindows,
    rows,       \* the table; an empty window where there is no row
    alerted,    \* alertState holds a time within the cooldown
    progress,   \* how far each turn is
    scopeOf, degraded,      \* of each turn
    payload,    \* the window a turn is saving
    rowSeen,    \* the query found a row
    restarts,
    recorded,   \* history: outcomes recorded in each scope
    streak,     \* history: successes in a row since the last restart
    unsaved,    \* history: a save failed, or passed another on postgres
    alerts, cooldowns       \* history: alerts, and cooldowns that ended

kpiVars == <<kpiWindows, rows, recorded, streak, unsaved>>
turnSamples == <<progress, scopeOf, degraded, payload, rowSeen>>
alertVars == <<alerted, alerts, cooldowns>>
adaptiveVars == <<postgres, connected, restarts, kpiVars, turnSamples, alertVars>>

AdaptiveInit ==
    /\ postgres \in BOOLEAN /\ connected \in BOOLEAN /\ restarts = 0
    /\ kpiWindows = [s \in Scopes |-> <<>>] /\ rows = [s \in Scopes |-> <<>>]
    /\ recorded = [s \in Scopes |-> 0] /\ streak = [s \in Scopes |-> 0]
    /\ unsaved = [s \in Scopes |-> ~ connected]
    /\ progress = [o \in Samples |-> "new"] /\ scopeOf \in [Samples -> Scopes]
    /\ degraded = [o \in Samples |-> FALSE]
    /\ payload = [o \in Samples |-> <<>>] /\ rowSeen = [o \in Samples |-> FALSE]
    /\ alerted = [s \in Scopes |-> FALSE]
    /\ alerts = [s \in Scopes |-> 0] /\ cooldowns = [s \in Scopes |-> 0]

-----------------------------------------------------------------------------
(* weightedSuccessRate >= rate.  The code adds and divides floating-point  *)
(* fractions; where the exact mean is not the rate it misses it by far     *)
(* more than their error, and where it is the rate the rounding decides:   *)
(* seven scores of 0.85 average 0.8499999999999999.  So on a tie the       *)
(* comparison may come out either way.                                     *)
Reaches(w, rate, tie) ==
    LET total[i \in 0..Len(w)] == IF i = 0 THEN 0 ELSE total[i - 1] + w[i].score
    IN  \/ total[Len(w)] > rate * Len(w)
        \/ total[Len(w)] = rate * Len(w) /\ tie

BelowTarget(s, tie) ==
    /\ Len(kpiWindows[s]) >= minSamples /\ kpiWindows[s] # <<>>
    /\ ~ Reaches(kpiWindows[s], minRate, tie)

(* evaluateTaskOutcome: what a turn is worth, by whether it was degraded.  *)
(* (No caller in the repository gives the overrides it would accept.)      *)
Score(outcome, weak) ==
    CASE outcome = "failed" -> 0
      [] outcome = "nothing" -> 10
      [] outcome = "partial" -> IF weak THEN 50 ELSE 60
      [] outcome = "success" -> IF weak THEN 85 ELSE 95

Proceeds(o, to) == progress' = [progress EXCEPT ![o] = to]

(* What a turn held in its locals goes with it.                            *)
SaveOver(o) ==
    /\ Proceeds(o, "saved")
    /\ payload' = [payload EXCEPT ![o] = <<>>] /\ rowSeen' = [rowSeen EXCEPT ![o] = FALSE]

Saving(s) == {o \in Samples : scopeOf[o] = s /\ progress[o] \in {"querying", "writing"}}

(* Mutant: a window that is too long loses its newest entries.             *)
NewestKept(w) ==
    IF Len(w) > rollingWindowSize THEN SubSeq(w, 1, rollingWindowSize) ELSE w

Rolled(w) ==
    IF Len(w) > rollingWindowSize
    THEN SubSeq(w, Len(w) - rollingWindowSize + 1, Len(w))
    ELSE w

(* resolveTurnDecision: below the target the turn may be forced to all     *)
(* tools and to fail_open, as configured and requested.                    *)
TurnStarts(o) ==
    /\ progress[o] = "new" /\ \A p \in 1..(o - 1) : progress[p] # "new"
    /\ \E forced, tie \in BOOLEAN :
         degraded' = [degraded EXCEPT ![o] = forced /\ BelowTarget(scopeOf[o], tie)]
    /\ Proceeds(o, "turn")
    /\ UNCHANGED <<postgres, connected, restarts, kpiVars, scopeOf, payload, rowSeen, alertVars>>

(* recordTurnOutcome up to its await; where the save is one statement, the *)
(* storage takes the statements in their order.                            *)
TurnEnds(o) ==
    LET s == scopeOf[o] IN
    /\ progress[o] = "turn"
    /\ \E outcome \in Outcomes, fellBack \in BOOLEAN, stored \in BOOLEAN :
         LET entry == [n |-> recorded[s] + 1, score |-> Score(outcome, degraded[o] \/ fellBack)]
             w == Rolled(Append(kpiWindows[s], entry))
             direct == connected /\ ~ postgres
         IN  /\ stored => direct
             /\ kpiWindows' = [kpiWindows EXCEPT ![s] = w]
             /\ rows' = IF stored THEN [rows EXCEPT ![s] = w] ELSE rows
             /\ unsaved' = [unsaved EXCEPT ![s] =
                  IF direct THEN ~ stored ELSE @ \/ ~ connected \/ Saving(s) # {}]
             /\ payload' = IF connected /\ postgres THEN [payload EXCEPT ![o] = w] ELSE payload
             /\ streak' = [streak EXCEPT ![s] = IF outcome = "success" THEN @ + 1 ELSE 0]
    /\ recorded' = [recorded EXCEPT ![s] = @ + 1]
    /\ Proceeds(o, IF connected /\ postgres THEN "querying" ELSE "saved")
    /\ degraded' = [degraded EXCEPT ![o] = FALSE]
    /\ UNCHANGED <<postgres, connected, restarts, scopeOf, rowSeen, alertVars>>

(* postgres: is there a row?                                               *)
RowQueried(o) ==
    /\ progress[o] = "querying"
    /\ rowSeen' = [rowSeen EXCEPT ![o] = rows[scopeOf[o]] # <<>>]
    /\ Proceeds(o, "writing")
    /\ UNCHANGED <<postgres, connected, restarts, kpiVars, scopeOf, degraded, payload, alertVars>>

(* postgres: update, or insert, which the primary key refuses where        *)
(* another turn has inserted since.                                        *)
RowWritten(o) ==
    LET s == scopeOf[o] IN
    /\ progress[o] = "writing"
    /\ rowSeen[o] \/ rows[s] = <<>>
    /\ rows' = [rows EXCEPT ![s] = payload[o]]
    /\ SaveOver(o)
    /\ UNCHANGED <<postgres, connected, restarts, kpiWindows, recorded, streak, unsaved,
                   scopeOf, degraded, alertVars>>

(* The query or the statement fails, or comes after close(): the error is  *)
(* logged.                                                                 *)
SaveFails(o) ==
    /\ progress[o] \in {"querying", "writing"}
    /\ unsaved' = [unsaved EXCEPT ![scopeOf[o]] = TRUE]
    /\ SaveOver(o)
    /\ UNCHANGED <<postgres, connected, restarts, kpiWindows, rows, recorded, streak,
                   scopeOf, degraded, alertVars>>

AlertDue(s, tie) ==
    /\ Len(kpiWindows[s]) >= alertMinSamples
    /\ kpiWindows[s] # <<>> /\ ~ Reaches(kpiWindows[s], alertRate, tie)

(* Mutant: the time of the alert is not kept.                              *)
OutcomeRecordedForgetting(o) ==
    LET s == scopeOf[o] IN
    /\ progress[o] = "saved"
    /\ \E tie \in BOOLEAN :
         alerts' = IF AlertDue(s, tie) /\ ~ alerted[s] THEN [alerts EXCEPT ![s] = @ + 1] ELSE alerts
    /\ Proceeds(o, "done")
    /\ UNCHANGED <<postgres, connected, restarts, kpiVars, scopeOf, degraded, payload, rowSeen,
                   alerted, cooldowns>>

(* The window as it is now, other turns' outcomes included, is summed up   *)
(* and an alert raised unless the last one is recent.                      *)
OutcomeRecorded(o) ==
    LET s == scopeOf[o] IN
    /\ progress[o] = "saved"
    /\ \E tie \in BOOLEAN :
         LET raise == AlertDue(s, tie) /\ ~ alerted[s]
         IN  /\ alerted' = [alerted EXCEPT ![s] = @ \/ raise]
             /\ alerts' = IF raise THEN [alerts EXCEPT ![s] = @ + 1] ELSE alerts
    /\ Proceeds(o, "done")
    /\ UNCHANGED <<postgres, connected, restarts, kpiVars, scopeOf, degraded, payload, rowSeen,
                   cooldowns>>

CooldownEnds(s) ==
    /\ alerted[s] /\ cooldowns[s] < MaxCooldowns
    /\ alerted' = [alerted EXCEPT ![s] = FALSE]
    /\ cooldowns' = [cooldowns EXCEPT ![s] = @ + 1]
    /\ UNCHANGED <<postgres, connected, restarts, kpiVars, turnSamples, alerts>>

(* close(): whatever is saved from now on is not.                          *)
StorageClosed ==
    /\ connected
    /\ connected' = FALSE
    /\ unsaved' = [s \in Scopes |-> unsaved[s] \/ Saving(s) # {}]
    /\ UNCHANGED <<postgres, restarts, kpiWindows, rows, recorded, streak, turnSamples, alertVars>>

(* A new process: initialize() loads the windows, or goes on without the   *)
(* storage.  The turns that were under way are gone.                       *)
ProcessRestarts ==
    /\ restarts < MaxRestarts /\ restarts' = restarts + 1
    /\ connected' \in BOOLEAN
    /\ kpiWindows' = IF connected' THEN [s \in Scopes |-> Rolled(rows[s])] ELSE [s \in Scopes |-> <<>>]
    /\ unsaved' = [s \in Scopes |-> ~ connected']
    /\ streak' = [s \in Scopes |-> 0]
    /\ alerted' = [s \in Scopes |-> FALSE]
    /\ alerts' = [s \in Scopes |-> 0] /\ cooldowns' = [s \in Scopes |-> 0]
    /\ progress' = [o \in Samples |-> IF progress[o] = "new" THEN "new" ELSE "done"]
    /\ degraded' = [o \in Samples |-> FALSE]
    /\ payload' = [o \in Samples |-> <<>>] /\ rowSeen' = [o \in Samples |-> FALSE]
    /\ UNCHANGED <<postgres, rows, recorded, scopeOf>>

AdaptiveNext ==
    \/ \E o \in Samples : \/ TurnStarts(o) \/ TurnEnds(o) \/ RowQueried(o) \/ RowWritten(o)
                          \/ SaveFails(o) \/ OutcomeRecorded(o)
    \/ \E s \in Scopes : CooldownEnds(s)
    \/ StorageClosed \/ ProcessRestarts

AdaptiveSpec == AdaptiveInit /\ [][AdaptiveNext]_adaptiveVars
-----------------------------------------------------------------------------
Scores == {0, 10, 50, 60, 85, 95}
Windows == Seq([n : Nat, score : Scores])

AdaptiveTypeOK ==
    /\ postgres \in BOOLEAN /\ connected \in BOOLEAN
    /\ kpiWindows \in [Scopes -> Windows] /\ rows \in [Scopes -> Windows]
    /\ progress \in [Samples -> {"new", "turn", "querying", "writing", "saved", "done"}]
    /\ payload \in [Samples -> Windows]
    /\ alerted \in [Scopes -> BOOLEAN]

(* No window counts an outcome twice or out of order, not even one loaded  *)
(* from a row that an older save had overwritten.                          *)
InOrder(w, s) ==
    /\ Len(w) <= rollingWindowSize
    /\ \A i \in DOMAIN w : w[i].n \in 1..recorded[s]
    /\ \A i, j \in DOMAIN w : i < j => w[i].n < w[j].n

(* The row is the window whenever no save is under way, unless one failed  *)
(* or two overlapped on postgres.                                          *)
RowIsWindow(s) == Saving(s) = {} /\ ~ unsaved[s] => rows[s] = kpiWindows[s]

(* One alert per cooldown.                                                 *)
AlertsSpaced(s) == alerts[s] <= cooldowns[s] + (IF alerted[s] THEN 1 ELSE 0)

(* The windows in memory and in the storage stay in step through           *)
(* overlapping turns, failing saves and restarts, and alerts keep their    *)
(* distance although the window is looked at after an await.               *)
AdaptiveInv ==
    /\ AdaptiveTypeOK
    /\ \A s \in Scopes :
         /\ InOrder(kpiWindows[s], s) /\ InOrder(rows[s], s)
         /\ RowIsWindow(s) /\ AlertsSpaced(s)
    /\ \A o \in Samples : InOrder(payload[o], scopeOf[o])

(* A degraded scope finds its way back: a window's worth of successes      *)
(* lifts it over the target, although a success counts less while it is    *)
(* degraded, as long as the target is below what such a success counts.    *)
(* (The configuration admits higher ones; at 85 itself, rounding decides.) *)
SuccessRestores ==
    minRate < 85 =>
        \A s \in Scopes, tie \in BOOLEAN :
            streak[s] >= rollingWindowSize => ~ BelowTarget(s, tie)
=============================================================================

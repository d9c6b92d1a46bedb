---------------------------- MODULE SessionLog -----------------------------
(***************************************************************************)
(* platform/observability/session-text-log.ts: the text log of the turns,  *)
(* checkpoints and resumes of the sessions.  What is logged of a session   *)
(* is queued on a promise; a task takes the file of its day, puts a line   *)
(* in front if it is the session's first, and appends, which may fail.     *)
(* Ids of several sessions can be shortened to the name of one file.  A    *)
(* write is whole or nothing (mkdir and appendFile, external).             *)
(***************************************************************************)
EXTENDS Naturals, Sequences

CONSTANTS
    LogCalls,           \* the calls of logTurn and logEvent
    NoLogCall,          \* the promise that is already resolved
    LogSessions, LogNames,
    NameOf,             \* sanitizeSessionLogId
    MaxDays             \* bound: midnights

ASSUME SessionLogAssumption ==
    NoLogCall \notin LogCalls /\ NameOf \in [LogSessions -> LogNames] /\ MaxDays \in Nat

VARIABLES
    logCall,            \* where each call is, its session, the promise it is
                        \* chained on, the day of its file, whether it has the start line
    queueBySession,     \* the promise at the end of each session's chain
    initializedSessions,
    today,
    logFiles,           \* the blocks in the file of each name and day
    loggedOf            \* the calls of each session, in order (history)

logVars == <<logCall, queueBySession, initializedSessions, today, logFiles, loggedOf>>

Unlogged(s) == [at |-> "none", session |-> s, previous |-> NoLogCall, day |-> 0, start |-> FALSE]

SessionLogInit ==
    /\ logCall \in {[c \in LogCalls |-> Unlogged(of[c])] : of \in [LogCalls -> LogSessions]}
    /\ queueBySession = [s \in LogSessions |-> NoLogCall]
    /\ initializedSessions = {} /\ today = 0
    /\ logFiles = [f \in LogNames \X (0..MaxDays) |-> <<>>]
    /\ loggedOf = [s \in LogSessions |-> <<>>]

(* enqueue: chained on what is queued for the session, failed or not.      *)
LogCalled(c) ==
    LET s == logCall[c].session
    IN  /\ logCall[c].at = "none"
        /\ logCall' = [logCall EXCEPT ![c].at = "queued", ![c].previous = queueBySession[s]]
        /\ queueBySession' = [queueBySession EXCEPT ![s] = c]
        /\ loggedOf' = [loggedOf EXCEPT ![s] = Append(@, c)]
        /\ UNCHANGED <<initializedSessions, today, logFiles>>

Over == {"written", "failed"}

(* Mutant: the task does not wait for the one before it.                   *)
TaskBeginsUnchained(c) ==
    LET s == logCall[c].session
    IN  /\ logCall[c].at = "queued"
        /\ logCall' = [logCall EXCEPT ![c].at = "writing", ![c].day = today,
                                      ![c].start = s \notin initializedSessions]
        /\ initializedSessions' = initializedSessions \cup {s}
        /\ UNCHANGED <<queueBySession, today, logFiles, loggedOf>>

(* The task up to its first await: the session counts as started before    *)
(* its start line is written.                                              *)
TaskBegins(c) ==
    LET s == logCall[c].session
    IN  /\ logCall[c].at = "queued"
        /\ logCall[c].previous # NoLogCall => logCall[logCall[c].previous].at \in Over
        /\ logCall' = [logCall EXCEPT ![c].at = "writing", ![c].day = today,
                                      ![c].start = s \notin initializedSessions]
        /\ initializedSessions' = initializedSessions \cup {s}
        /\ UNCHANGED <<queueBySession, today, logFiles, loggedOf>>

FileOf(c) == <<NameOf[logCall[c].session], logCall[c].day>>

BlockWritten(c) ==
    /\ logCall[c].at = "writing"
    /\ logFiles' = [logFiles EXCEPT ![FileOf(c)] = Append(@, c)]
    /\ logCall' = [logCall EXCEPT ![c].at = "written"]
    /\ UNCHANGED <<queueBySession, initializedSessions, today, loggedOf>>

(* A failure is a warning to the caller, whose turn goes on.               *)
WriteFails(c) ==
    /\ logCall[c].at = "writing"
    /\ logCall' = [logCall EXCEPT ![c].at = "failed"]
    /\ UNCHANGED <<queueBySession, initializedSessions, today, logFiles, loggedOf>>

Midnight ==
    /\ today < MaxDays
    /\ today' = today + 1
    /\ UNCHANGED <<logCall, queueBySession, initializedSessions, logFiles, loggedOf>>

SessionLogNext ==
    \/ \E c \in LogCalls : LogCalled(c) \/ TaskBegins(c) \/ BlockWritten(c) \/ WriteFails(c)
    \/ Midnight

SessionLogSpec == SessionLogInit /\ [][SessionLogNext]_logVars

-----------------------------------------------------------------------------
SessionLogTypeOK ==
    /\ logCall \in [LogCalls ->
         [at : {"none", "queued", "writing"} \cup Over, session : LogSessions,
          previous : LogCalls \cup {NoLogCall}, day : 0..MaxDays, start : BOOLEAN]]
    /\ queueBySession \in [LogSessions -> LogCalls \cup {NoLogCall}]
    /\ initializedSessions \subseteq LogSessions
    /\ today \in 0..MaxDays
    /\ logFiles \in [LogNames \X (0..MaxDays) -> Seq(LogCalls)]
    /\ loggedOf \in [LogSessions -> Seq(LogCalls)]

(* The files hold what was written, each block once and in the file of its *)
(* session's name and its day ...                                          *)
BlocksKept ==
    /\ \A f \in LogNames \X (0..MaxDays) : \A p \in 1..Len(logFiles[f]) :
         /\ logCall[logFiles[f][p]].at = "written" /\ FileOf(logFiles[f][p]) = f
         /\ \A q \in 1..Len(logFiles[f]) : logFiles[f][q] = logFiles[f][p] => q = p
    /\ \A c \in LogCalls : logCall[c].at = "written" =>
         \E p \in 1..Len(logFiles[FileOf(c)]) : logFiles[FileOf(c)][p] = c

(* ... and c's block comes before d's to whoever reads from day to day.    *)
ReadBefore(c, d) ==
    \/ logCall[c].day < logCall[d].day
    \/ /\ logCall[c].day = logCall[d].day
       /\ \A p, q \in 1..Len(logFiles[FileOf(c)]) :
            logFiles[FileOf(c)][p] = c /\ logFiles[FileOf(c)][q] = d => p < q

(* The log of a session, read from day to day, is what was logged, in the  *)
(* order of the calls and each once, but for the writes that failed: also  *)
(* across midnight and with another session in the same file.              *)
LogComplete ==
    /\ BlocksKept
    /\ \A s \in LogSessions : \A i, j \in 1..Len(loggedOf[s]) :
         LET c == loggedOf[s][i]
             d == loggedOf[s][j]
         IN  i < j /\ logCall[c].at = "written" /\ logCall[d].at = "written" => ReadBefore(c, d)

(* The start line is the head of the session's first block and of no other *)
(* one.  If that write failed the session has none.                        *)
StartsOnce ==
    \A s \in LogSessions : \A i \in 1..Len(loggedOf[s]) :
        logCall[loggedOf[s][i]].at \in Over \cup {"writing"} => (logCall[loggedOf[s][i]].start <=> i = 1)

(* The promise of the session log: complete and in order, whatever         *)
(* overlaps and fails.                                                     *)
SessionLogInv == SessionLogTypeOK /\ LogComplete /\ StartsOnce
=============================================================================

\* Two jobs and two scan loops, one active bid allowed; two bids and two
\* overlapping watches; five entries, two overlapping flushes, a ring of three;
\* three analyses, one model call at a time, three contents in a cache of two.
SPECIFICATION AutonomySpec
CONSTANTS
    OpenJobs = {j1, j2}
    Loops = {l1, l2}
    NoLoop = NoLoop
    NoJob = NoJob
    maxActiveBids = 1
    Bids = {b1, b2}
    Watches = {w1, w2}
    NoBid = NoBid
    Flushes = {f1, f2}
    maxInMemoryEntries = 3
    flushThreshold = 2
    MaxEntries = 5
    Analyses = {a1, a2, a3}
    Hashes = {h1, h2, h3}
    NoHash = NoHash
    maxConcurrency = 1
    maxCacheSize = 2
INVARIANTS ScannerInv LifecycleInv AuditInv AnalyzerInv
PROPERTIES StoppedScannerRests LosingBidEnds WaitingAnalysisInvoked
CHECK_DEADLOCK FALSE

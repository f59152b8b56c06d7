\* The engine with thread-safe maps and no collaborator failure:
\* deduplication, uncaught reports and the cleanup at thread end.
CONSTANTS
    t1 = t1
    t2 = t2
    tid0 = tid0
    e1 = e1
    e2 = e2
    e3 = e3
    Listed = Listed
    Other = Other
    NoExc = NoExc
    NoBuf = NoBuf
    Threads <- MCThreads
    FallbackTid = tid0
    Exc <- MCExc
    Types <- MCTypes
    TypeOf <- MCTypeOf
    ReportedCaughtTypes <- MCReportedCaughtTypes
    Capacity = 2
    Faults = {}
    ThreadSafeMaps = TRUE
    MaxThrows = 4
    EqualsOverrides = {}
SPECIFICATION Spec
INVARIANT NoDuplicateReport
INVARIANT UncaughtDeathReported
INVARIANT EndedThreadClean
PROPERTY RingKeepsReported
\* The program stops when every thread has ended.
CHECK_DEADLOCK FALSE

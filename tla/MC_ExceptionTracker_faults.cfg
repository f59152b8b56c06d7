\* Every collaborator failure the handlers check for may happen:
\* a buffer of reported exceptions never holds an unreported one.
CONSTANTS
    t1 = t1
    t2 = t2
    tid0 = tid0
    e1 = e1
    e2 = e2
    e3 = e3
    Listed = Listed
    Other = Other
    NoExc = NoExc
    NoBuf = NoBuf
    Threads <- MCThreads
    FallbackTid = tid0
    Exc <- MCExc
    Types <- MCTypes
    TypeOf <- MCTypeOf
    ReportedCaughtTypes <- MCReportedCaughtTypes
    Capacity = 1
    Faults = {"tid", "jvmti", "alloc"}
    ThreadSafeMaps = TRUE
    MaxThrows = 3
    EqualsOverrides = {}
SPECIFICATION Spec
SYMMETRY ThreadSymmetry
INVARIANT TypeOK
INVARIANT BufferOnlyReported
PROPERTY ImplementsReporting
\* The program stops when every thread has ended.
CHECK_DEADLOCK FALSE

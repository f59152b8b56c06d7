\* An exception class overriding equals(): a catch of another exception
\* that equals the pending one resolves the pending record (spec P7).
CONSTANTS
    t1 = t1
    t2 = t2
    tid0 = tid0
    e1 = e1
    e2 = e2
    e3 = e3
    Listed = Listed
    Other = Other
    NoExc = NoExc
    NoBuf = NoBuf
    Threads <- MCThreads
    FallbackTid = tid0
    Exc <- MCExc
    Types <- MCTypes
    TypeOf <- MCTypeOf
    ReportedCaughtTypes <- MCReportedCaughtTypes
    Capacity = 2
    Faults = {}
    ThreadSafeMaps = TRUE
    MaxThrows = 2
    EqualsOverrides <- MCEqualsOverrides
SPECIFICATION Spec
SYMMETRY ThreadSymmetry
PROPERTY ImplementsReporting
\* The program stops when every thread has ended.
CHECK_DEADLOCK FALSE

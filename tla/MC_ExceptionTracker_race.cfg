\* callback_on_thread_end pops both maps without shared_lock; with maps
\* that are not thread safe alone, another thread's postponed report is lost.
CONSTANTS
    t1 = t1
    t2 = t2
    tid0 = tid0
    e1 = e1
    e2 = e2
    e3 = e3
    Listed = Listed
    Other = Other
    NoExc = NoExc
    NoBuf = NoBuf
    Threads <- MCThreads
    FallbackTid = tid0
    Exc <- MCExc
    Types <- MCTypes
    TypeOf <- MCTypeOf
    ReportedCaughtTypes <- MCReportedCaughtTypes
    Capacity = 2
    Faults = {}
    ThreadSafeMaps = FALSE
    MaxThrows = 2
    EqualsOverrides = {}
SPECIFICATION Spec
SYMMETRY ThreadSymmetry
INVARIANT UncaughtDeathReported
\* The program stops when every thread has ended.
CHECK_DEADLOCK FALSE

--------------------------- MODULE ExceptionTracker ---------------------------
(***************************************************************************)
(* The exception correlation and deduplication engine of abrt-checker.c:   *)
(* the JVMTI callbacks callback_on_exception, callback_on_exception_catch  *)
(* and callback_on_thread_end, over the two per-thread maps threadMap      *)
(* (buffers of already reported exceptions) and uncaughtExceptionMap       *)
(* (the postponed report of an exception thrown with no Java handler).     *)
(*                                                                         *)
(* Each application thread is a process.  A JVMTI event is delivered on    *)
(* the thread it happens in, so the events of one thread are sequential;   *)
(* events of different threads interleave.  The exception and catch        *)
(* callbacks run under the raw monitor shared_lock and are one step each.  *)
(* callback_on_thread_end takes no lock: its two map pops are separate     *)
(* steps, and when the maps are not thread safe on their own              *)
(* (ThreadSafeMaps = FALSE) each pop is a read and a later write-back.     *)
(*                                                                         *)
(* Data is abstracted: an exception object is a model value compared by   *)
(* identity, a pending report is the exception it is about, a report is   *)
(* the thread, the exception and whether it is phrased "Caught".          *)
(***************************************************************************)
EXTENDS Naturals, Sequences, FiniteSets, Functions

CONSTANTS
    Threads,              \* values of Thread.getId() of the application threads
    FallbackTid,          \* the tid 0 a handler keeps when get_tid() fails
    Exc,                  \* exception objects
    Types,                \* exception class names
    TypeOf,               \* the class of each exception object
    ReportedCaughtTypes,  \* globalConfig.reportedCaughExceptionTypes; {} is NULL
    Capacity,             \* REPORTED_EXCEPTION_STACK_CAPACITY
    Faults,               \* collaborator failures that may happen
    ThreadSafeMaps,       \* whether one jthread_map operation is atomic alone
    MaxThrows,            \* bound on the number of Exception events
    EqualsOverrides,      \* pairs <<a, b>> of distinct objects with a.equals(b)
    NoExc,                \* "no exception": an empty slot, a NULL report
    NoBuf                 \* a thread without a buffer of reported exceptions

(* The failures the handlers check for: get_tid() failing ("tid"), a JVMTI *)
(* or JNI lookup failing ("jvmti"), malloc() returning NULL ("alloc").    *)
FaultKinds == {"tid", "jvmti", "alloc"}

ASSUME ConstantsAssumption ==
    /\ FallbackTid \notin Threads
    /\ TypeOf \in [Exc -> Types]
    /\ ReportedCaughtTypes \subseteq Types
    /\ Capacity \in Nat \ {0}
    /\ Faults \subseteq FaultKinds
    /\ ThreadSafeMaps \in BOOLEAN
    /\ MaxThrows \in Nat
    /\ EqualsOverrides \subseteq Exc \X Exc
    /\ NoExc \notin Exc
    /\ NoBuf \notin Seq(Exc)

(* Keys of the two maps: real thread ids and the fallback id 0.           *)
Keys == Threads \cup {FallbackTid}

VARIABLES
    threadMap,            \* tid -> buffer of reported exceptions, or NoBuf
    uncaughtExceptionMap, \* tid -> exception of the postponed report, or NoExc
    flying,               \* thread -> exception being propagated in Java
    pc,                   \* thread -> "run", "pop_rpt", "pop_buf" or "done"
    held,                 \* thread -> report popped by callback_on_thread_end
    snapU,                \* thread -> uncaughtExceptionMap read by its pop
    snapB,                \* thread -> threadMap read by its pop
    reports,              \* the reports emitted, in order
    thrown,               \* thread -> exceptions thrown on it (history)
    diedOf,               \* thread -> the uncaught exception it ended with
    resolved,             \* thread -> exceptions whose postponed report a catch popped
    throws                \* number of Exception events so far

vars == <<threadMap, uncaughtExceptionMap, flying, pc, held, snapU, snapB,
          reports, thrown, diedOf, resolved, throws>>

NoFly == [exc |-> NoExc, known |-> FALSE]
Flight == [exc : Exc, known : BOOLEAN] \cup {NoFly}
Report == [thr : Threads, exc : Exc, caught : BOOLEAN]
Buffer == {b \in Seq(Exc) : Len(b) <= Capacity}
EmptyUMap == [k \in Keys |-> NoExc]
EmptyTMap == [k \in Keys |-> NoBuf]
-----------------------------------------------------------------------------
(* Outcomes of the calls that may fail.                                    *)
CanFail(kind) == IF kind \in Faults THEN BOOLEAN ELSE {TRUE}

(* get_tid(): the thread's id, or failure, in which case tid stays 0.     *)
GetTid(t) == IF "tid" \in Faults THEN {t, FallbackTid} ELSE {t}

(* jthrowable_circular_buf_push: append, overwriting the oldest when full. *)
BufPush(b, e) == IF Len(b) = Capacity THEN Append(Tail(b), e) ELSE Append(b, e)

(* jthrowable_circular_buf_find on a buffer that may be NULL.             *)
BufFind(b, e) == b # NoBuf /\ e \in Range(b)

(* exception_is_intended_to_be_reported: the class name is looked up (it   *)
(* may fail, then the answer is no) and compared with the configured list. *)
IntendedToBeReported(e, typeOk) == typeOk /\ TypeOf[e] \in ReportedCaughtTypes

(* The buffer the handler got from jthread_map_get, or NULL when get_tid() *)
(* failed and tid is the fallback id.                                      *)
LookupBuf(tid) == IF tid \in Threads THEN threadMap[tid] ELSE NoBuf

(* Mutants of RememberReported: a push only into a newly created buffer,   *)
(* and a push that appends past the ring's capacity.                      *)
RememberReportedOnlyNew(tid, buf, e) ==
    IF buf = NoBuf
    THEN \E ok \in CanFail("alloc") :
             threadMap' = IF ok THEN [threadMap EXCEPT ![tid] = <<e>>]
                                ELSE threadMap
    ELSE UNCHANGED threadMap
RememberReportedAppend(tid, buf, e) ==
    IF buf = NoBuf
    THEN \E ok \in CanFail("alloc") :
             threadMap' = IF ok THEN [threadMap EXCEPT ![tid] = <<e>>]
                                ELSE threadMap
    ELSE threadMap' = [threadMap EXCEPT ![tid] = Append(buf, e)]

(* Mutant of RememberReported: a new buffer is created even when the      *)
(* thread has one, as if the test NULL == threads_exc_buf were dropped.   *)
RememberReportedAlwaysNew(tid, buf, e) ==
    \E ok \in CanFail("alloc") :
        threadMap' = IF ok THEN [threadMap EXCEPT ![tid] = <<e>>] ELSE threadMap

(* After a report: create_exception_buf_for_thread if buf was NULL (its    *)
(* malloc may fail), then jthrowable_circular_buf_push.                    *)
RememberReported(tid, buf, e) ==
    IF buf = NoBuf
    THEN \E ok \in CanFail("alloc") :
             threadMap' = IF ok THEN [threadMap EXCEPT ![tid] = <<e>>]
                                ELSE threadMap
    ELSE threadMap' = [threadMap EXCEPT ![tid] = BufPush(buf, e)]

(* Mutant of StorePostponed: a push that keeps an existing entry.        *)
StorePostponedKeepFirst(tid, e) ==
    uncaughtExceptionMap' =
        IF uncaughtExceptionMap[tid] = NoExc
        THEN [uncaughtExceptionMap EXCEPT ![tid] = e] ELSE uncaughtExceptionMap

(* jthread_map_push(uncaughtExceptionMap, tid, rpt): stores the report,   *)
(* replacing the one the thread may already have.                         *)
StorePostponed(tid, e) ==
    uncaughtExceptionMap' = [uncaughtExceptionMap EXCEPT ![tid] = e]

(* report_stacktrace: the report is logged (and sent to ABRT when a stack *)
(* trace was generated) whatever its outcome; the model keeps the call.    *)
Emit(t, e, caught) ==
    reports' = Append(reports, [thr |-> t, exc |-> e, caught |-> caught])
-----------------------------------------------------------------------------
(* callback_on_exception(t, e, catch_method): under shared_lock.  A throw  *)
(* with a Java handler is reported at once if its class is listed; one    *)
(* with no handler becomes the thread's postponed report.                 *)
callback_on_exception(t, e, known) ==
    \E typeOk \in CanFail("jvmti"), tid \in GetTid(t),
       lookupsOk \in CanFail("jvmti"), allocOk \in CanFail("alloc") :
        LET buf == LookupBuf(tid) IN
        \/ /\ known /\ ~IntendedToBeReported(e, typeOk)
           /\ UNCHANGED <<threadMap, uncaughtExceptionMap, reports>>
        \/ /\ ~known \/ IntendedToBeReported(e, typeOk)
           /\ \/ /\ BufFind(buf, e) \/ ~lookupsOk
                 /\ UNCHANGED <<threadMap, uncaughtExceptionMap, reports>>
              \/ /\ ~BufFind(buf, e) /\ lookupsOk /\ ~known
                 /\ IF allocOk THEN StorePostponed(tid, e)
                               ELSE UNCHANGED uncaughtExceptionMap
                 /\ UNCHANGED <<threadMap, reports>>
              \/ /\ ~BufFind(buf, e) /\ lookupsOk /\ known
                 /\ Emit(t, e, TRUE)
                 /\ RememberReported(tid, buf, e)
                 /\ UNCHANGED uncaughtExceptionMap

(* Mutant of ReportResolved: the exception is remembered as reported      *)
(* even when it is not reported.                                          *)
ReportResolvedAlwaysRemember(t, tid, rpt, typeOk, lookupsOk) ==
    LET buf == LookupBuf(tid) IN
    /\ IF IntendedToBeReported(rpt, typeOk) /\ ~BufFind(buf, rpt) /\ lookupsOk
       THEN Emit(t, rpt, TRUE) ELSE UNCHANGED reports
    /\ IF BufFind(buf, rpt) THEN UNCHANGED threadMap
       ELSE RememberReported(tid, buf, rpt)

(* The popped report of callback_on_exception_catch: reported as caught   *)
(* when its class is listed and the thread's buffer does not hold it.     *)
ReportResolved(t, tid, rpt, typeOk, lookupsOk) ==
    LET buf == LookupBuf(tid) IN
    IF IntendedToBeReported(rpt, typeOk) /\ ~BufFind(buf, rpt) /\ lookupsOk
    THEN Emit(t, rpt, TRUE) /\ RememberReported(tid, buf, rpt)
    ELSE UNCHANGED <<threadMap, reports>>

(* Mutant of JavaEquals: the result of equals() is ignored and only its    *)
(* failure is tested.                                                     *)
JavaEqualsIgnored(a, b) == TRUE

(* exception_object.equals(rpt->exception_object), a call of Java code:    *)
(* identity, unless the class of the caught exception overrides equals.   *)
JavaEquals(a, b) == a = b \/ <<a, b>> \in EqualsOverrides

(* callback_on_exception_catch(t, e): resolves the postponed report of t   *)
(* when e equals its exception; reports it only if its class is listed.   *)
callback_on_exception_catch(t, e) ==
    LET rpt == uncaughtExceptionMap[t] IN
    \E tidOk \in CanFail("tid"), equalsOk \in CanFail("jvmti"),
       typeOk \in CanFail("jvmti"), tid \in GetTid(t),
       lookupsOk \in CanFail("jvmti") :
        \/ /\ \/ uncaughtExceptionMap = EmptyUMap
              \/ ~tidOk \/ rpt = NoExc \/ ~equalsOk \/ ~JavaEquals(e, rpt)
           /\ UNCHANGED <<threadMap, uncaughtExceptionMap, reports, resolved>>
        \/ /\ uncaughtExceptionMap # EmptyUMap
           /\ tidOk /\ rpt # NoExc /\ equalsOk /\ JavaEquals(e, rpt)
           /\ uncaughtExceptionMap' = [uncaughtExceptionMap EXCEPT ![t] = NoExc]
           /\ resolved' = [resolved EXCEPT ![t] = @ \cup {rpt}]
           /\ ReportResolved(t, tid, rpt, typeOk, lookupsOk)

(* callback_on_thread_end, first part: the emptiness test and get_tid().   *)
ThreadEndBegin(t) ==
    \E tidOk \in CanFail("tid") :
        IF /\ tidOk
           /\ threadMap # EmptyTMap \/ uncaughtExceptionMap # EmptyUMap
        THEN /\ pc' = [pc EXCEPT ![t] = "pop_rpt"]
             /\ snapU' = IF ThreadSafeMaps THEN snapU
                         ELSE [snapU EXCEPT ![t] = uncaughtExceptionMap]
        ELSE pc' = [pc EXCEPT ![t] = "done"] /\ UNCHANGED snapU

(* jthread_map_pop(uncaughtExceptionMap, tid); then the pop of threadMap   *)
(* reads that map.  Without thread-safe maps the write-back is of the map *)
(* as read, and what other threads stored meanwhile is lost.              *)
ThreadEndPopReport(t) ==
    LET base == IF ThreadSafeMaps THEN uncaughtExceptionMap ELSE snapU[t] IN
    /\ pc[t] = "pop_rpt"
    /\ uncaughtExceptionMap' = [base EXCEPT ![t] = NoExc]
    /\ held' = [held EXCEPT ![t] = base[t]]
    /\ snapB' = IF ThreadSafeMaps THEN snapB ELSE [snapB EXCEPT ![t] = threadMap]
    /\ pc' = [pc EXCEPT ![t] = "pop_buf"]
    /\ UNCHANGED <<threadMap, flying, snapU, reports, thrown, diedOf, resolved,
                   throws>>

(* Mutant of ThreadEndPopBuffer: the buffer is only popped when there is  *)
(* a postponed report.                                                    *)
ThreadEndPopBufferOnlyWithReport(t) ==
    LET base == IF ThreadSafeMaps THEN threadMap ELSE snapB[t]
        rpt  == held[t]
    IN /\ pc[t] = "pop_buf"
       /\ threadMap' = IF rpt # NoExc THEN [base EXCEPT ![t] = NoBuf] ELSE base
       /\ IF rpt # NoExc /\ ~BufFind(base[t], rpt)
          THEN Emit(t, rpt, FALSE) ELSE UNCHANGED reports
       /\ held' = [held EXCEPT ![t] = NoExc]
       /\ pc' = [pc EXCEPT ![t] = "done"]
       /\ UNCHANGED <<uncaughtExceptionMap, flying, snapU, snapB, thrown,
                      diedOf, resolved, throws>>

(* jthread_map_pop(threadMap, tid), then the report of the postponed       *)
(* exception as "Uncaught" unless the buffer shows it already reported.   *)
ThreadEndPopBuffer(t) ==
    LET base == IF ThreadSafeMaps THEN threadMap ELSE snapB[t]
        rpt  == held[t]
    IN /\ pc[t] = "pop_buf"
       /\ threadMap' = [base EXCEPT ![t] = NoBuf]
       /\ IF rpt # NoExc /\ ~BufFind(base[t], rpt)
          THEN Emit(t, rpt, FALSE) ELSE UNCHANGED reports
       /\ held' = [held EXCEPT ![t] = NoExc]
       /\ pc' = [pc EXCEPT ![t] = "done"]
       /\ UNCHANGED <<uncaughtExceptionMap, flying, snapU, snapB, thrown,
                      diedOf, resolved, throws>>
-----------------------------------------------------------------------------
(* The JVM side: what a running thread does that the agent sees.          *)

(* An exception is thrown; known says whether a Java handler will catch it.*)
Throw(t, e, known) ==
    /\ pc[t] = "run" /\ flying[t] = NoFly /\ throws < MaxThrows
    /\ flying' = [flying EXCEPT ![t] = [exc |-> e, known |-> known]]
    /\ thrown' = [thrown EXCEPT ![t] = @ \cup {e}]
    /\ throws' = throws + 1
    /\ callback_on_exception(t, e, known)
    /\ UNCHANGED <<pc, held, snapU, snapB, diedOf, resolved>>

(* A Java handler catches the exception in flight.                        *)
Catch(t) ==
    /\ pc[t] = "run" /\ flying[t] # NoFly
    /\ flying' = [flying EXCEPT ![t] = NoFly]
    /\ callback_on_exception_catch(t, flying[t].exc)
    /\ UNCHANGED <<pc, held, snapU, snapB, thrown, diedOf, throws>>

(* Native code clears an exception that no Java handler was found for;    *)
(* JVMTI sends no event for it.                                           *)
NativeClear(t) ==
    /\ pc[t] = "run" /\ flying[t] # NoFly /\ ~flying[t].known
    /\ flying' = [flying EXCEPT ![t] = NoFly]
    /\ UNCHANGED <<threadMap, uncaughtExceptionMap, pc, held, snapU, snapB,
                   reports, thrown, diedOf, resolved, throws>>

(* The thread terminates, normally or killed by its uncaught exception.   *)
ThreadEnd(t) ==
    /\ pc[t] = "run" /\ ~flying[t].known
    /\ diedOf' = [diedOf EXCEPT ![t] = flying[t].exc]
    /\ flying' = [flying EXCEPT ![t] = NoFly]
    /\ ThreadEndBegin(t)
    /\ UNCHANGED <<threadMap, uncaughtExceptionMap, held, snapB, reports,
                   thrown, resolved, throws>>
-----------------------------------------------------------------------------
Init ==
    /\ threadMap = EmptyTMap
    /\ uncaughtExceptionMap = EmptyUMap
    /\ flying = [t \in Threads |-> NoFly]
    /\ pc = [t \in Threads |-> "run"]
    /\ held = [t \in Threads |-> NoExc]
    /\ snapU = [t \in Threads |-> EmptyUMap]
    /\ snapB = [t \in Threads |-> EmptyTMap]
    /\ reports = <<>>
    /\ thrown = [t \in Threads |-> {}]
    /\ diedOf = [t \in Threads |-> NoExc]
    /\ resolved = [t \in Threads |-> {}]
    /\ throws = 0

Next ==
    \E t \in Threads :
        \/ \E e \in Exc, known \in BOOLEAN : Throw(t, e, known)
        \/ Catch(t)
        \/ NativeClear(t)
        \/ ThreadEnd(t)
        \/ ThreadEndPopReport(t)
        \/ ThreadEndPopBuffer(t)

Spec == Init /\ [][Next]_vars
-----------------------------------------------------------------------------
(* Every variable holds a value of its intended kind.                     *)
TypeOK ==
    /\ threadMap \in [Keys -> Buffer \cup {NoBuf}]
    /\ uncaughtExceptionMap \in [Keys -> Exc \cup {NoExc}]
    /\ flying \in [Threads -> Flight]
    /\ pc \in [Threads -> {"run", "pop_rpt", "pop_buf", "done"}]
    /\ held \in [Threads -> Exc \cup {NoExc}]
    /\ snapU \in [Threads -> [Keys -> Exc \cup {NoExc}]]
    /\ snapB \in [Threads -> [Keys -> Buffer \cup {NoBuf}]]
    /\ reports \in Seq(Report)
    /\ thrown \in [Threads -> SUBSET Exc]
    /\ diedOf \in [Threads -> Exc \cup {NoExc}]
    /\ resolved \in [Threads -> SUBSET Exc]
    /\ throws \in 0..MaxThrows

Reported(t, e) == \E i \in 1..Len(reports) : reports[i].thr = t /\ reports[i].exc = e

(* Deduplication (spec P1/P2): while the buffer of reported exceptions     *)
(* can hold every exception, no thread reports the same exception twice,  *)
(* whichever of the throw, catch and thread-end callbacks emits it.       *)
NoDuplicateReport ==
    \A i, j \in 1..Len(reports) :
        i < j => ~(reports[i].thr = reports[j].thr /\ reports[i].exc = reports[j].exc)

(* A thread killed by an uncaught exception has that exception reported,  *)
(* by callback_on_thread_end or earlier as a listed caught exception.     *)
UncaughtDeathReported ==
    \A t \in Threads : pc[t] = "done" /\ diedOf[t] # NoExc => Reported(t, diedOf[t])

(* Thread t's ring loses no exception in a step that does not end t's     *)
(* end callback.                                                          *)
RingKept(t) ==
    pc'[t] # "done" /\ threadMap[t] # NoBuf =>
        threadMap'[t] # NoBuf /\ Range(threadMap[t]) \subseteq Range(threadMap'[t])

(* The circular buffer's overwriting of its oldest entry never happens    *)
(* while the ring can hold every listed exception: no step of any         *)
(* callback removes an exception from a living thread's ring, so the     *)
(* deduplication of callback_on_exception and callback_on_exception_catch *)
(* never forgets a report.                                                *)
RingKeepsReported == [][\A t \in Threads : RingKept(t)]_vars

(* No map entry of a thread outlives its callback_on_thread_end.          *)
EndedThreadClean ==
    \A t \in Threads : pc[t] = "done" =>
        uncaughtExceptionMap[t] = NoExc /\ threadMap[t] = NoBuf

(* A buffer of reported exceptions holds only exceptions that have been   *)
(* reported on its thread, so the deduplication never suppresses a report *)
(* of an exception that was not reported, whatever failed on the way.     *)
BufferOnlyReported ==
    \A t \in Threads : threadMap[t] # NoBuf =>
        \A i \in 1..Len(threadMap[t]) : Reported(t, threadMap[t][i])

(* An "Uncaught" report names the exception its thread ended with: an      *)
(* exception that native code handled is not reported as uncaught.        *)
NoFalseUncaught ==
    \A i \in 1..Len(reports) :
        ~reports[i].caught => reports[i].exc = diedOf[reports[i].thr]
-----------------------------------------------------------------------------
(* The refinement mapping to ExceptionReporting.  A thread's pending       *)
(* record is its entry of uncaughtExceptionMap, and between the two pops  *)
(* of callback_on_thread_end the report that callback holds; a thread has *)
(* ended once its end callback has begun.                                 *)
pendingBar == [t \in Threads |-> IF pc[t] = "pop_buf" THEN held[t]
                                 ELSE uncaughtExceptionMap[t]]
endedBar == [t \in Threads |-> pc[t] # "run"]

Reporting == INSTANCE ExceptionReporting WITH pending <- pendingBar, ended <- endedBar

(* The three callbacks implement the pending-record protocol: a catch      *)
(* resolves only the pending record of its own exception (spec P7), the   *)
(* end callback reports only the record left after the thread ended, and *)
(* no callback of one thread changes another thread's record.             *)
ImplementsReporting == Reporting!Spec
=============================================================================

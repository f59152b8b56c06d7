----------------------- MODULE ExceptionTracker_safety -----------------------
(***************************************************************************)
(* Proofs of the two invariants of the thread's end that the run "core"   *)
(* checks: no map entry outlives callback_on_thread_end, and a thread     *)
(* killed by an uncaught exception has it reported.  Both need one        *)
(* jthread_map operation to be atomic (the run "race" shows the write-back *)
(* losing an entry otherwise) and get_tid() to succeed (a failed get_tid() *)
(* makes callback_on_thread_end return at once); the second also needs     *)
(* the JVMTI look-ups and malloc of callback_on_exception to succeed,      *)
(* since a failure there drops the postponed report silently.             *)
(***************************************************************************)
EXTENDS ExceptionTracker_refinement

(* The inductive strengthening of EndedThreadClean.                        *)
CleanInv == IInv /\ PoppedCleared /\ EndedThreadClean

(* An exception in flight with no Java handler is the thread's postponed   *)
(* report, or was already reported on the thread.                         *)
FlyingPendingAt(t) ==
    pc[t] = "run" /\ flying[t].exc # NoExc /\ ~flying[t].known =>
        uncaughtExceptionMap[t] = flying[t].exc \/ Reported(t, flying[t].exc)

(* After the end callback's emptiness test, the exception the thread died *)
(* of is its postponed report, or was already reported.                   *)
DiedPendingAt(t) ==
    pc[t] = "pop_rpt" /\ diedOf[t] # NoExc =>
        uncaughtExceptionMap[t] = diedOf[t] \/ Reported(t, diedOf[t])

(* After the pop of uncaughtExceptionMap, it is the report the callback    *)
(* holds, or was already reported.                                        *)
DiedHeldAt(t) ==
    pc[t] = "pop_buf" /\ diedOf[t] # NoExc =>
        held[t] = diedOf[t] \/ Reported(t, diedOf[t])

(* UncaughtDeathReported, for one thread.                                  *)
DeathReportedAt(t) ==
    pc[t] = "done" /\ diedOf[t] # NoExc => Reported(t, diedOf[t])

PendingAt(t) ==
    FlyingPendingAt(t) /\ DiedPendingAt(t) /\ DiedHeldAt(t) /\ DeathReportedAt(t)

(* The inductive strengthening of UncaughtDeathReported.                   *)
DeathInv == IInv /\ \A t \in Threads : PendingAt(t)
-----------------------------------------------------------------------------
(* Without get_tid() failures a handler's tid is its own thread's id.      *)
LEMMA OwnTid ==
    ASSUME "tid" \notin Faults, NEW t \in Threads
    PROVE  GetTid(t) = {t} /\ CanFail("tid") = {TRUE}
BY DEF GetTid, CanFail

(* Remembering a report changes at most the buffer under the handler's tid. *)
LEMMA RememberOwn ==
    ASSUME TypeOK, NEW tid \in Keys, NEW b, NEW e, RememberReported(tid, b, e)
    PROVE  \A k \in Keys \ {tid} : threadMap'[k] = threadMap[k]
<1>1. CASE b = NoBuf
  BY <1>1 DEF RememberReported, TypeOK
<1>2. CASE b # NoBuf
  BY <1>2 DEF RememberReported, TypeOK
<1> QED
  BY <1>1, <1>2

(* A step in which only thread t's map entries and phase may change, and  *)
(* after which t's entries are gone if its end callback is done or past   *)
(* its first pop, keeps both conditions.                                  *)
LEMMA CleanFrame ==
    ASSUME PoppedCleared, EndedThreadClean, NEW t \in Threads,
           \A u \in Threads \ {t} :
               /\ uncaughtExceptionMap'[u] = uncaughtExceptionMap[u]
               /\ threadMap'[u] = threadMap[u] /\ pc'[u] = pc[u],
           pc'[t] = "pop_buf" => uncaughtExceptionMap'[t] = NoExc,
           pc'[t] = "done" => uncaughtExceptionMap'[t] = NoExc /\ threadMap'[t] = NoBuf
    PROVE  PoppedCleared' /\ EndedThreadClean'
BY DEF PoppedCleared, EndedThreadClean
-----------------------------------------------------------------------------
(* callback_on_exception changes only the entries under its own tid.       *)
LEMMA ThrowClean ==
    ASSUME CleanInv, "tid" \notin Faults,
           NEW t \in Threads, NEW e \in Exc, NEW known \in BOOLEAN,
           Throw(t, e, known)
    PROVE  PoppedCleared' /\ EndedThreadClean'
<1>1. pc[t] = "run" /\ pc' = pc
  BY DEF Throw
<1>2. PICK typeOk \in CanFail("jvmti"), tid \in GetTid(t),
           lookupsOk \in CanFail("jvmti"), allocOk \in CanFail("alloc") :
        LET buf == LookupBuf(tid) IN
        \/ /\ known /\ ~IntendedToBeReported(e, typeOk)
           /\ UNCHANGED <<threadMap, uncaughtExceptionMap, reports>>
        \/ /\ ~known \/ IntendedToBeReported(e, typeOk)
           /\ \/ /\ BufFind(buf, e) \/ ~lookupsOk
                 /\ UNCHANGED <<threadMap, uncaughtExceptionMap, reports>>
              \/ /\ ~BufFind(buf, e) /\ lookupsOk /\ ~known
                 /\ IF allocOk THEN StorePostponed(tid, e)
                               ELSE UNCHANGED uncaughtExceptionMap
                 /\ UNCHANGED <<threadMap, reports>>
              \/ /\ ~BufFind(buf, e) /\ lookupsOk /\ known
                 /\ Emit(t, e, TRUE)
                 /\ RememberReported(tid, LookupBuf(tid), e)
                 /\ UNCHANGED uncaughtExceptionMap
  BY DEF Throw, callback_on_exception
<1>3. tid = t /\ t \in Keys
  BY <1>2, OwnTid DEF Keys
<1>4. \A u \in Threads \ {t} : uncaughtExceptionMap'[u] = uncaughtExceptionMap[u]
  BY <1>2, <1>3 DEF StorePostponed, CleanInv, IInv, TypeOK, Keys
<1>5. \A u \in Threads \ {t} : threadMap'[u] = threadMap[u]
  <2>1. CASE UNCHANGED threadMap
    BY <2>1
  <2>2. CASE ~UNCHANGED threadMap
    <3>1. RememberReported(t, LookupBuf(t), e)
      BY <1>2, <1>3, <2>2
    <3> QED
      BY <1>3, <3>1, RememberOwn DEF CleanInv, IInv, Keys
  <2> QED
    BY <2>1, <2>2
<1> QED
  BY <1>1, <1>4, <1>5, CleanFrame DEF CleanInv

(* callback_on_exception_catch changes only the entries under its own tid. *)
LEMMA CatchClean ==
    ASSUME CleanInv, "tid" \notin Faults, NEW t \in Threads, Catch(t)
    PROVE  PoppedCleared' /\ EndedThreadClean'
<1>1. pc[t] = "run" /\ pc' = pc
  BY DEF Catch
<1> DEFINE rpt == uncaughtExceptionMap[t]
<1>2. PICK tidOk \in CanFail("tid"), equalsOk \in CanFail("jvmti"),
           typeOk \in CanFail("jvmti"), tid \in GetTid(t),
           lookupsOk \in CanFail("jvmti") :
        \/ UNCHANGED <<threadMap, uncaughtExceptionMap>>
        \/ /\ uncaughtExceptionMap' = [uncaughtExceptionMap EXCEPT ![t] = NoExc]
           /\ ReportResolved(t, tid, rpt, typeOk, lookupsOk)
  BY DEF Catch, callback_on_exception_catch
<1>3. tid = t /\ t \in Keys
  BY <1>2, OwnTid DEF Keys
<1>4. \A u \in Threads \ {t} : uncaughtExceptionMap'[u] = uncaughtExceptionMap[u]
  BY <1>2 DEF CleanInv, IInv, TypeOK, Keys
<1>5. \A u \in Threads \ {t} : threadMap'[u] = threadMap[u]
  <2>1. CASE UNCHANGED threadMap
    BY <2>1
  <2>2. CASE ~UNCHANGED threadMap
    <3>1. RememberReported(t, LookupBuf(t), rpt)
      BY <1>2, <1>3, <2>2 DEF ReportResolved
    <3> QED
      BY <1>3, <3>1, RememberOwn DEF CleanInv, IInv, Keys
  <2> QED
    BY <2>1, <2>2
<1> QED
  BY <1>1, <1>4, <1>5, CleanFrame DEF CleanInv

(* callback_on_thread_end returns at its emptiness test only when both     *)
(* maps are empty, since get_tid() does not fail.                         *)
LEMMA ThreadEndClean ==
    ASSUME CleanInv, "tid" \notin Faults, NEW t \in Threads, ThreadEnd(t)
    PROVE  PoppedCleared' /\ EndedThreadClean'
<1>1. PICK tidOk \in CanFail("tid") :
        IF /\ tidOk
           /\ threadMap # EmptyTMap \/ uncaughtExceptionMap # EmptyUMap
        THEN pc' = [pc EXCEPT ![t] = "pop_rpt"]
        ELSE pc' = [pc EXCEPT ![t] = "done"]
  BY DEF ThreadEnd, ThreadEndBegin
<1>2. tidOk /\ UNCHANGED <<threadMap, uncaughtExceptionMap>>
  <2>1. CanFail("tid") = {TRUE}
    BY OwnTid
  <2>2. tidOk = TRUE
    BY <2>1, Zenon
  <2> QED
    BY <2>2 DEF ThreadEnd
<1>3. pc'[t] \in {"pop_rpt", "done"} /\ \A u \in Threads \ {t} : pc'[u] = pc[u]
  BY <1>1 DEF CleanInv, IInv, TypeOK
<1>4. pc'[t] = "done" => uncaughtExceptionMap[t] = NoExc /\ threadMap[t] = NoBuf
  BY <1>1, <1>2 DEF CleanInv, IInv, TypeOK, EmptyTMap, EmptyUMap, Keys
<1> QED
  BY <1>2, <1>3, <1>4, CleanFrame DEF CleanInv

(* The atomic pop of uncaughtExceptionMap removes the thread's entry.      *)
LEMMA PopReportClean ==
    ASSUME CleanInv, ThreadSafeMaps, NEW t \in Threads, ThreadEndPopReport(t)
    PROVE  PoppedCleared' /\ EndedThreadClean'
<1>1. /\ uncaughtExceptionMap' = [uncaughtExceptionMap EXCEPT ![t] = NoExc]
      /\ pc' = [pc EXCEPT ![t] = "pop_buf"]
      /\ UNCHANGED threadMap
  BY DEF ThreadEndPopReport
<1> QED
  BY <1>1, CleanFrame DEF CleanInv, IInv, TypeOK, Keys

(* The atomic pop of threadMap removes the thread's buffer; its entry of   *)
(* uncaughtExceptionMap is already gone.                                  *)
LEMMA PopBufferClean ==
    ASSUME CleanInv, ThreadSafeMaps, NEW t \in Threads, ThreadEndPopBuffer(t)
    PROVE  PoppedCleared' /\ EndedThreadClean'
<1>1. /\ pc[t] = "pop_buf"
      /\ threadMap' = [threadMap EXCEPT ![t] = NoBuf]
      /\ pc' = [pc EXCEPT ![t] = "done"]
      /\ UNCHANGED uncaughtExceptionMap
  BY DEF ThreadEndPopBuffer
<1>2. uncaughtExceptionMap[t] = NoExc
  BY <1>1 DEF CleanInv, PoppedCleared
<1> QED
  BY <1>1, <1>2, CleanFrame DEF CleanInv, IInv, TypeOK, Keys

LEMMA CleanStep ==
    ASSUME ThreadSafeMaps, "tid" \notin Faults
    PROVE  CleanInv /\ [Next]_vars => CleanInv'
<1> SUFFICES ASSUME CleanInv, [Next]_vars PROVE CleanInv'
  OBVIOUS
<1>1. IInv'
  BY IInvStep DEF CleanInv
<1>2. PoppedCleared' /\ EndedThreadClean'
  <2>1. CASE UNCHANGED vars
    BY <2>1 DEF vars, CleanInv, PoppedCleared, EndedThreadClean
  <2>2. CASE Next
    <3>1. PICK t \in Threads :
            \/ \E e \in Exc, known \in BOOLEAN : Throw(t, e, known)
            \/ Catch(t)
            \/ NativeClear(t)
            \/ ThreadEnd(t)
            \/ ThreadEndPopReport(t)
            \/ ThreadEndPopBuffer(t)
      BY <2>2 DEF Next
    <3>2. CASE NativeClear(t)
      BY <3>2 DEF NativeClear, CleanInv, PoppedCleared, EndedThreadClean
    <3> QED
      BY <3>1, <3>2, ThrowClean, CatchClean, ThreadEndClean, PopReportClean,
         PopBufferClean
  <2> QED
    BY <2>1, <2>2
<1> QED
  BY <1>1, <1>2 DEF CleanInv

(* No map entry of a thread outlives its callback_on_thread_end, for any   *)
(* number of threads and exceptions, any capacity and any JVMTI or malloc *)
(* failure, when one jthread_map operation is atomic and get_tid() does   *)
(* not fail.                                                              *)
THEOREM EndedThreadCleanHolds ==
    ASSUME ThreadSafeMaps, "tid" \notin Faults
    PROVE  Spec => []EndedThreadClean
<1>1. Init => CleanInv
  BY InitRInv DEF RInv, CleanInv, Init, EndedThreadClean
<1>2. CleanInv /\ [Next]_vars => CleanInv'
  BY CleanStep
<1>3. CleanInv => EndedThreadClean
  BY DEF CleanInv
<1> QED
  BY <1>1, <1>2, <1>3, PTL DEF Spec
-----------------------------------------------------------------------------
(* With no collaborator failure every call succeeds and every handler's    *)
(* tid is its own thread's id.                                             *)
LEMMA NoFaults ==
    ASSUME Faults = {}
    PROVE  /\ CanFail("tid") = {TRUE} /\ CanFail("jvmti") = {TRUE}
           /\ CanFail("alloc") = {TRUE}
           /\ \A t \in Threads : GetTid(t) = {t}
BY DEF CanFail, GetTid

(* A step that keeps thread t's state and every report keeps t's part of   *)
(* the strengthening.                                                      *)
LEMMA PendingFrame ==
    ASSUME NEW t \in Threads, PendingAt(t),
           \A x : Reported(t, x) => Reported(t, x)',
           uncaughtExceptionMap'[t] = uncaughtExceptionMap[t],
           flying'[t] = flying[t], pc'[t] = pc[t], held'[t] = held[t],
           diedOf'[t] = diedOf[t]
    PROVE  PendingAt(t)'
BY DEF PendingAt, FlyingPendingAt, DiedPendingAt, DiedHeldAt, DeathReportedAt

(* A running thread with no exception in flight has nothing pending.       *)
LEMMA PendingIdle ==
    ASSUME NEW t \in Threads, pc'[t] = "run", flying'[t] = NoFly
    PROVE  PendingAt(t)'
BY DEF PendingAt, FlyingPendingAt, DiedPendingAt, DiedHeldAt, DeathReportedAt, NoFly

(* An exception in a buffer has been reported on the buffer's thread.      *)
LEMMA FoundReported ==
    ASSUME BufferOnlyReported, NEW t \in Threads, NEW e, BufFind(threadMap[t], e)
    PROVE  Reported(t, e)
BY DEF BufferOnlyReported, BufFind, Range

(* callback_on_exception: an exception thrown with no handler becomes the  *)
(* postponed report unless its thread's buffer shows it already reported. *)
LEMMA ThrowDeath ==
    ASSUME DeathInv, Faults = {},
           NEW t \in Threads, NEW e \in Exc, NEW known \in BOOLEAN,
           Throw(t, e, known)
    PROVE  \A u \in Threads : PendingAt(u)'
<1>1. PICK typeOk \in CanFail("jvmti"), tid \in GetTid(t),
           lookupsOk \in CanFail("jvmti"), allocOk \in CanFail("alloc") :
        LET buf == LookupBuf(tid) IN
        \/ /\ known /\ ~IntendedToBeReported(e, typeOk)
           /\ UNCHANGED <<threadMap, uncaughtExceptionMap, reports>>
        \/ /\ ~known \/ IntendedToBeReported(e, typeOk)
           /\ \/ /\ BufFind(buf, e) \/ ~lookupsOk
                 /\ UNCHANGED <<threadMap, uncaughtExceptionMap, reports>>
              \/ /\ ~BufFind(buf, e) /\ lookupsOk /\ ~known
                 /\ IF allocOk THEN StorePostponed(tid, e)
                               ELSE UNCHANGED uncaughtExceptionMap
                 /\ UNCHANGED <<threadMap, reports>>
              \/ /\ ~BufFind(buf, e) /\ lookupsOk /\ known
                 /\ Emit(t, e, TRUE)
                 /\ RememberReported(tid, LookupBuf(tid), e)
                 /\ UNCHANGED uncaughtExceptionMap
  BY DEF Throw, callback_on_exception
<1>2. tid = t /\ lookupsOk = TRUE /\ allocOk = TRUE
  BY <1>1, NoFaults, Zenon
<1>3. /\ pc[t] = "run" /\ pc' = pc
      /\ flying' = [flying EXCEPT ![t] = [exc |-> e, known |-> known]]
      /\ UNCHANGED <<held, diedOf>>
  BY DEF Throw
<1>4. \A u, x : Reported(u, x) => Reported(u, x)'
  <2>1. CASE UNCHANGED reports
    BY <2>1 DEF Reported
  <2>2. CASE ~UNCHANGED reports
    BY <1>1, <2>2, EmitProps DEF DeathInv, IInv
  <2> QED
    BY <2>1, <2>2
<1>5. \A u \in Threads \ {t} : uncaughtExceptionMap'[u] = uncaughtExceptionMap[u]
  BY <1>1, <1>2 DEF StorePostponed, DeathInv, IInv, TypeOK, Keys
<1>6. ASSUME NEW u \in Threads \ {t} PROVE PendingAt(u)'
  BY <1>3, <1>4, <1>5, PendingFrame DEF DeathInv, IInv, TypeOK
<1>7. FlyingPendingAt(t)'
  <2>1. CASE known
    BY <1>3, <2>1 DEF FlyingPendingAt, DeathInv, IInv, TypeOK
  <2>2. CASE ~known /\ BufFind(LookupBuf(t), e)
    <3>1. BufFind(threadMap[t], e) /\ UNCHANGED reports
      BY <1>1, <1>2, <2>2 DEF LookupBuf
    <3>2. Reported(t, e)'
      BY <3>1, FoundReported DEF DeathInv, IInv, Reported
    <3> QED
      BY <1>3, <3>2 DEF FlyingPendingAt, DeathInv, IInv, TypeOK
  <2>3. CASE ~known /\ ~BufFind(LookupBuf(t), e)
    <3>1. uncaughtExceptionMap' = [uncaughtExceptionMap EXCEPT ![t] = e]
      BY <1>1, <1>2, <2>3 DEF StorePostponed
    <3> QED
      BY <1>3, <3>1 DEF FlyingPendingAt, DeathInv, IInv, TypeOK, Keys
  <2> QED
    BY <2>1, <2>2, <2>3
<1>8. PendingAt(t)'
  BY <1>3, <1>7 DEF PendingAt, DiedPendingAt, DiedHeldAt, DeathReportedAt,
                    DeathInv, IInv, TypeOK
<1> QED
  BY <1>6, <1>8

(* callback_on_exception_catch pops and reports only its own thread's     *)
(* postponed report, and the thread is left with nothing in flight.       *)
LEMMA CatchDeath ==
    ASSUME DeathInv, Faults = {}, NEW t \in Threads, Catch(t)
    PROVE  \A u \in Threads : PendingAt(u)'
<1> DEFINE rpt == uncaughtExceptionMap[t]
<1>1. PICK tidOk \in CanFail("tid"), equalsOk \in CanFail("jvmti"),
           typeOk \in CanFail("jvmti"), tid \in GetTid(t),
           lookupsOk \in CanFail("jvmti") :
        \/ UNCHANGED <<threadMap, uncaughtExceptionMap, reports>>
        \/ /\ rpt # NoExc
           /\ uncaughtExceptionMap' = [uncaughtExceptionMap EXCEPT ![t] = NoExc]
           /\ ReportResolved(t, tid, rpt, typeOk, lookupsOk)
  BY DEF Catch, callback_on_exception_catch
<1>2. /\ pc[t] = "run" /\ pc' = pc
      /\ flying' = [flying EXCEPT ![t] = NoFly]
      /\ UNCHANGED <<held, diedOf>>
  BY DEF Catch
<1>3. \A u, x : Reported(u, x) => Reported(u, x)'
  <2>1. CASE UNCHANGED reports
    BY <2>1 DEF Reported
  <2>2. CASE ~UNCHANGED reports
    <3>1. rpt \in Exc /\ Emit(t, rpt, TRUE)
      BY <1>1, <2>2 DEF ReportResolved, DeathInv, IInv, TypeOK, Keys
    <3> QED
      BY <3>1, EmitProps DEF DeathInv, IInv
  <2> QED
    BY <2>1, <2>2
<1>4. \A u \in Threads \ {t} : uncaughtExceptionMap'[u] = uncaughtExceptionMap[u]
  BY <1>1 DEF DeathInv, IInv, TypeOK, Keys
<1>5. ASSUME NEW u \in Threads \ {t} PROVE PendingAt(u)'
  BY <1>2, <1>3, <1>4, PendingFrame DEF DeathInv, IInv, TypeOK
<1>6. PendingAt(t)'
  BY <1>2, PendingIdle DEF DeathInv, IInv, TypeOK
<1> QED
  BY <1>5, <1>6

(* Native code clearing an exception leaves its thread with nothing in     *)
(* flight and touches no state of the agent.                              *)
LEMMA NativeClearDeath ==
    ASSUME DeathInv, NEW t \in Threads, NativeClear(t)
    PROVE  \A u \in Threads : PendingAt(u)'
<1>1. /\ pc[t] = "run" /\ pc' = pc
      /\ flying' = [flying EXCEPT ![t] = NoFly]
      /\ UNCHANGED <<uncaughtExceptionMap, held, diedOf, reports>>
  BY DEF NativeClear
<1>2. \A u, x : Reported(u, x) => Reported(u, x)'
  BY <1>1 DEF Reported
<1>3. ASSUME NEW u \in Threads \ {t} PROVE PendingAt(u)'
  BY <1>1, <1>2, PendingFrame DEF DeathInv, IInv, TypeOK
<1>4. PendingAt(t)'
  BY <1>1, PendingIdle DEF DeathInv, IInv, TypeOK
<1> QED
  BY <1>3, <1>4

(* The thread ends: the exception it dies of was pending or reported, and  *)
(* with get_tid() succeeding the callback stops at its emptiness test only *)
(* when no report is postponed.                                           *)
LEMMA ThreadEndDeath ==
    ASSUME DeathInv, Faults = {}, NEW t \in Threads, ThreadEnd(t)
    PROVE  \A u \in Threads : PendingAt(u)'
<1>1. PICK tidOk \in CanFail("tid") :
        IF /\ tidOk
           /\ threadMap # EmptyTMap \/ uncaughtExceptionMap # EmptyUMap
        THEN pc' = [pc EXCEPT ![t] = "pop_rpt"]
        ELSE pc' = [pc EXCEPT ![t] = "done"]
  BY DEF ThreadEnd, ThreadEndBegin
<1>2. tidOk = TRUE
  BY <1>1, NoFaults, Zenon
<1>3. /\ pc[t] = "run" /\ ~flying[t].known
      /\ diedOf' = [diedOf EXCEPT ![t] = flying[t].exc]
      /\ flying' = [flying EXCEPT ![t] = NoFly]
      /\ UNCHANGED <<threadMap, uncaughtExceptionMap, held, reports>>
  BY DEF ThreadEnd
<1>4. \A u, x : Reported(u, x) => Reported(u, x)'
  BY <1>3 DEF Reported
<1>5. ASSUME NEW u \in Threads \ {t} PROVE PendingAt(u)'
  <2>1. pc'[u] = pc[u] /\ diedOf'[u] = diedOf[u] /\ flying'[u] = flying[u]
    BY <1>1, <1>3 DEF DeathInv, IInv, TypeOK
  <2> QED
    BY <1>3, <1>4, <2>1, PendingFrame DEF DeathInv
<1>6. PendingAt(t)'
  <2> DEFINE e == flying[t].exc
  <2>1. diedOf'[t] = e /\ pc'[t] \in {"pop_rpt", "done"}
    BY <1>1, <1>3 DEF DeathInv, IInv, TypeOK
  <2>2. e # NoExc => uncaughtExceptionMap[t] = e \/ Reported(t, e)
    BY <1>3 DEF DeathInv, PendingAt, FlyingPendingAt
  <2>3. pc'[t] = "done" => uncaughtExceptionMap[t] = NoExc
    BY <1>1, <1>2 DEF DeathInv, IInv, TypeOK, EmptyUMap, Keys
  <2>4. e # NoExc => e \in Exc
    BY DEF DeathInv, IInv, TypeOK, Flight, NoFly
  <2>5. DeathReportedAt(t)'
    BY <1>3, <2>1, <2>2, <2>3, <2>4, ConstantsAssumption DEF DeathReportedAt, Reported
  <2>6. DiedPendingAt(t)'
    BY <1>3, <2>1, <2>2 DEF DiedPendingAt, Reported
  <2> QED
    BY <2>1, <2>5, <2>6 DEF PendingAt, FlyingPendingAt, DiedHeldAt
<1> QED
  BY <1>5, <1>6

(* The atomic pop of uncaughtExceptionMap hands the postponed report to    *)
(* the end callback.                                                      *)
LEMMA PopReportDeath ==
    ASSUME DeathInv, ThreadSafeMaps, NEW t \in Threads, ThreadEndPopReport(t)
    PROVE  \A u \in Threads : PendingAt(u)'
<1>1. /\ pc[t] = "pop_rpt"
      /\ uncaughtExceptionMap' = [uncaughtExceptionMap EXCEPT ![t] = NoExc]
      /\ held' = [held EXCEPT ![t] = uncaughtExceptionMap[t]]
      /\ pc' = [pc EXCEPT ![t] = "pop_buf"]
      /\ UNCHANGED <<flying, diedOf, reports>>
  BY DEF ThreadEndPopReport
<1>2. \A u, x : Reported(u, x) => Reported(u, x)'
  BY <1>1 DEF Reported
<1>3. ASSUME NEW u \in Threads \ {t} PROVE PendingAt(u)'
  BY <1>1, <1>2, PendingFrame DEF DeathInv, IInv, TypeOK, Keys
<1>4. PendingAt(t)'
  <2>1. pc'[t] = "pop_buf" /\ held'[t] = uncaughtExceptionMap[t]
    BY <1>1 DEF DeathInv, IInv, TypeOK
  <2>2. diedOf[t] # NoExc => uncaughtExceptionMap[t] = diedOf[t] \/ Reported(t, diedOf[t])
    BY <1>1 DEF DeathInv, PendingAt, DiedPendingAt
  <2> QED
    BY <1>1, <2>1, <2>2
       DEF PendingAt, FlyingPendingAt, DiedPendingAt, DiedHeldAt, DeathReportedAt, Reported
<1> QED
  BY <1>3, <1>4

(* The atomic pop of threadMap and the "Uncaught" report: the held report  *)
(* is emitted unless the buffer shows it already reported.                *)
LEMMA PopBufferDeath ==
    ASSUME DeathInv, ThreadSafeMaps, NEW t \in Threads, ThreadEndPopBuffer(t)
    PROVE  \A u \in Threads : PendingAt(u)'
<1> DEFINE rpt == held[t]
<1>1. /\ pc[t] = "pop_buf"
      /\ threadMap' = [threadMap EXCEPT ![t] = NoBuf]
      /\ IF rpt # NoExc /\ ~BufFind(threadMap[t], rpt)
         THEN Emit(t, rpt, FALSE) ELSE UNCHANGED reports
      /\ held' = [held EXCEPT ![t] = NoExc]
      /\ pc' = [pc EXCEPT ![t] = "done"]
      /\ UNCHANGED <<uncaughtExceptionMap, flying, diedOf>>
  BY DEF ThreadEndPopBuffer
<1>2. \A u, x : Reported(u, x) => Reported(u, x)'
  <2>1. CASE rpt # NoExc /\ ~BufFind(threadMap[t], rpt)
    <3>1. rpt \in Exc
      BY <2>1 DEF DeathInv, IInv, TypeOK
    <3> QED
      BY <1>1, <2>1, <3>1, EmitProps DEF DeathInv, IInv
  <2>2. CASE ~(rpt # NoExc /\ ~BufFind(threadMap[t], rpt))
    BY <1>1, <2>2 DEF Reported
  <2> QED
    BY <2>1, <2>2
<1>3. ASSUME NEW u \in Threads \ {t} PROVE PendingAt(u)'
  BY <1>1, <1>2, PendingFrame DEF DeathInv, IInv, TypeOK
<1>4. DeathReportedAt(t)'
  <2>1. SUFFICES ASSUME diedOf[t] # NoExc PROVE Reported(t, diedOf[t])'
    BY <1>1 DEF DeathReportedAt
  <2>2. rpt = diedOf[t] \/ Reported(t, diedOf[t])
    BY <1>1, <2>1 DEF DeathInv, PendingAt, DiedHeldAt
  <2>0. PICK d \in Exc : d = diedOf[t] /\ d = diedOf'[t]
    BY <1>1, <2>1 DEF DeathInv, IInv, TypeOK
  <2>3. CASE Reported(t, diedOf[t])
    BY <1>2, <2>0, <2>3
  <2>4. CASE rpt = diedOf[t] /\ BufFind(threadMap[t], rpt)
    <3>1. Reported(t, d)
      BY <2>0, <2>4, FoundReported DEF DeathInv, IInv
    <3> QED
      BY <1>2, <2>0, <3>1
  <2>5. CASE rpt = diedOf[t] /\ ~BufFind(threadMap[t], rpt)
    <3>1. rpt \in Exc
      BY <2>1, <2>5 DEF DeathInv, IInv, TypeOK
    <3> QED
      BY <1>1, <2>1, <2>5, <3>1, EmitProps DEF DeathInv, IInv
  <2> QED
    BY <2>2, <2>3, <2>4, <2>5
<1>5. PendingAt(t)'
  <2>1. pc'[t] = "done"
    BY <1>1 DEF DeathInv, IInv, TypeOK
  <2> QED
    BY <1>4, <2>1 DEF PendingAt, FlyingPendingAt, DiedPendingAt, DiedHeldAt
<1> QED
  BY <1>3, <1>5

LEMMA InitDeathInv == Init => DeathInv
<1> SUFFICES ASSUME Init PROVE DeathInv
  OBVIOUS
<1>1. IInv
  BY InitIInv
<1>2. \A t \in Threads : PendingAt(t)
  BY DEF Init, PendingAt, FlyingPendingAt, DiedPendingAt, DiedHeldAt,
         DeathReportedAt, NoFly
<1> QED
  BY <1>1, <1>2 DEF DeathInv

LEMMA DeathStep ==
    ASSUME ThreadSafeMaps, Faults = {}
    PROVE  DeathInv /\ [Next]_vars => DeathInv'
<1> SUFFICES ASSUME DeathInv, [Next]_vars PROVE DeathInv'
  OBVIOUS
<1>1. IInv'
  BY IInvStep DEF DeathInv
<1>2. \A u \in Threads : PendingAt(u)'
  <2>1. CASE UNCHANGED vars
    BY <2>1 DEF vars, DeathInv, PendingAt, FlyingPendingAt, DiedPendingAt,
                DiedHeldAt, DeathReportedAt, Reported
  <2>2. CASE Next
    <3>1. PICK t \in Threads :
            \/ \E e \in Exc, known \in BOOLEAN : Throw(t, e, known)
            \/ Catch(t)
            \/ NativeClear(t)
            \/ ThreadEnd(t)
            \/ ThreadEndPopReport(t)
            \/ ThreadEndPopBuffer(t)
      BY <2>2 DEF Next
    <3> QED
      BY <3>1, ThrowDeath, CatchDeath, NativeClearDeath, ThreadEndDeath,
         PopReportDeath, PopBufferDeath
  <2> QED
    BY <2>1, <2>2
<1> QED
  BY <1>1, <1>2 DEF DeathInv

(* A thread killed by an uncaught exception has that exception reported,  *)
(* by callback_on_thread_end or earlier as a caught one, for any number   *)
(* of threads and exceptions, any capacity, any listed classes and any    *)
(* equals() overrides, when one jthread_map operation is atomic and no    *)
(* get_tid(), JVMTI look-up or malloc fails.                              *)
THEOREM UncaughtDeathReportedHolds ==
    ASSUME ThreadSafeMaps, Faults = {}
    PROVE  Spec => []UncaughtDeathReported
<1>1. Init => DeathInv
  BY InitDeathInv
<1>2. DeathInv /\ [Next]_vars => DeathInv'
  BY DeathStep
<1>3. DeathInv => UncaughtDeathReported
  BY DEF DeathInv, PendingAt, DeathReportedAt, UncaughtDeathReported
<1> QED
  BY <1>1, <1>2, <1>3, PTL DEF Spec
=============================================================================

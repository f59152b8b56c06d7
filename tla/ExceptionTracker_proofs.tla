------------------------ MODULE ExceptionTracker_proofs ------------------------
(***************************************************************************)
(* Proofs, for every value of the constants, of the type invariant and of *)
(* BufferOnlyReported: the deduplication buffers of callback_on_exception *)
(* and callback_on_exception_catch only ever hold exceptions already      *)
(* reported on their thread, whatever fails and however the unlocked      *)
(* pops of callback_on_thread_end interleave with the other callbacks.    *)
(***************************************************************************)
EXTENDS ExceptionTracker, SequenceTheorems, TLAPS

(* The buffers a thread-end pop read before its write-back hold only      *)
(* reported exceptions too: the write-back restores them into threadMap.  *)
SnapshotsOnlyReported ==
    \A u \in Threads, t \in Threads : snapB[u][t] # NoBuf =>
        \A i \in 1..Len(snapB[u][t]) : Reported(t, snapB[u][t][i])

(* The inductive strengthening of BufferOnlyReported.                     *)
IInv == TypeOK /\ BufferOnlyReported /\ SnapshotsOnlyReported
-----------------------------------------------------------------------------
(* A push on the ring keeps its bound and holds only the old elements and *)
(* the pushed one.                                                        *)
LEMMA BufPushProps ==
    ASSUME NEW b \in Buffer, NEW e \in Exc, Capacity \in Nat \ {0}
    PROVE  /\ BufPush(b, e) \in Buffer
           /\ \A i \in 1..Len(BufPush(b, e)) :
                 BufPush(b, e)[i] = e \/ \E j \in 1..Len(b) : BufPush(b, e)[i] = b[j]
<1>1. CASE Len(b) = Capacity
  <2>1. b # << >>
    BY <1>1 DEF Buffer
  <2>2. /\ Tail(b) \in Seq(Exc) /\ Len(Tail(b)) = Len(b) - 1
        /\ \A i \in 1..Len(Tail(b)) : Tail(b)[i] = b[i+1]
    BY <2>1, HeadTailProperties DEF Buffer
  <2>3. BufPush(b, e) = Append(Tail(b), e)
    BY <1>1 DEF BufPush
  <2> QED
    BY <2>2, <2>3, <1>1, AppendProperties DEF Buffer
<1>2. CASE Len(b) # Capacity
  <2>1. BufPush(b, e) = Append(b, e)
    BY <1>2 DEF BufPush
  <2> QED
    BY <2>1, <1>2, AppendProperties DEF Buffer
<1> QED
  BY <1>1, <1>2

(* Appending a report keeps every earlier report.                        *)
LEMMA AppendKeepsReported ==
    ASSUME NEW s \in Seq(Report), NEW r \in Report, NEW t, NEW e,
           \E i \in 1..Len(s) : s[i].thr = t /\ s[i].exc = e
    PROVE  \E i \in 1..Len(Append(s, r)) :
               Append(s, r)[i].thr = t /\ Append(s, r)[i].exc = e
BY AppendProperties

(* The appended report is among the reports.                              *)
LEMMA AppendHasNew ==
    ASSUME NEW s \in Seq(Report), NEW r \in Report
    PROVE  \E i \in 1..Len(Append(s, r)) :
               Append(s, r)[i].thr = r.thr /\ Append(s, r)[i].exc = r.exc
BY AppendProperties
-----------------------------------------------------------------------------
(* The initial states satisfy the strengthening.                          *)
LEMMA InitIInv == Init => IInv
BY ConstantsAssumption
   DEF Init, IInv, TypeOK, BufferOnlyReported, SnapshotsOnlyReported,
       EmptyTMap, EmptyUMap, Keys, Flight, NoFly, Buffer
-----------------------------------------------------------------------------
(* Emit appends a report: the reports stay well formed, every earlier     *)
(* report is kept and the new one is among them.                          *)
LEMMA EmitProps ==
    ASSUME TypeOK, NEW t \in Threads, NEW e \in Exc, NEW c \in BOOLEAN,
           Emit(t, e, c)
    PROVE  /\ reports' \in Seq(Report)
           /\ \A u, x : Reported(u, x) => Reported(u, x)'
           /\ Reported(t, e)'
<1> DEFINE r == [thr |-> t, exc |-> e, caught |-> c]
<1>1. r \in Report /\ reports \in Seq(Report) /\ reports' = Append(reports, r)
  BY DEF Report, TypeOK, Emit
<1>2. reports' \in Seq(Report)
  BY <1>1, AppendProperties
<1>3. \A u, x : Reported(u, x) => Reported(u, x)'
  BY <1>1, AppendKeepsReported DEF Reported
<1>4. Reported(t, e)'
  BY <1>1, AppendHasNew DEF Reported
<1> QED
  BY <1>2, <1>3, <1>4

(* Remembering a just reported exception in the buffer of the handler's   *)
(* tid keeps the buffers well formed and holding only reported exceptions.*)
LEMMA RememberProps ==
    ASSUME TypeOK, BufferOnlyReported,
           NEW t \in Threads, NEW tid \in GetTid(t), NEW e \in Exc,
           Reported(t, e)', \A u, x : Reported(u, x) => Reported(u, x)',
           RememberReported(tid, LookupBuf(tid), e)
    PROVE  /\ threadMap' \in [Keys -> Buffer \cup {NoBuf}]
           /\ BufferOnlyReported'
<1>0. tid = t \/ tid = FallbackTid
  BY DEF GetTid
<1>1. CASE LookupBuf(tid) = NoBuf
  <2>1. PICK ok \in CanFail("alloc") :
            threadMap' = IF ok THEN [threadMap EXCEPT ![tid] = <<e>>] ELSE threadMap
    BY <1>1 DEF RememberReported
  <2>2. <<e>> \in Buffer
    BY ConstantsAssumption DEF Buffer
  <2>3. threadMap' \in [Keys -> Buffer \cup {NoBuf}]
    BY <2>1, <2>2, <1>0 DEF TypeOK, Keys
  <2>4. BufferOnlyReported'
    <3>1. CASE ~ok
      BY <2>1, <3>1 DEF BufferOnlyReported
    <3>2. CASE ok /\ tid = FallbackTid
      <4>1. \A u \in Threads : threadMap'[u] = threadMap[u]
        BY <2>1, <3>2, ConstantsAssumption DEF TypeOK, Keys
      <4> QED
        BY <4>1 DEF BufferOnlyReported
    <3>3. CASE ok /\ tid = t
      <4>1. threadMap'[t] = <<e>>
        BY <2>1, <3>3 DEF TypeOK, Keys
      <4>2. \A u \in Threads \ {t} : threadMap'[u] = threadMap[u]
        BY <2>1, <3>3 DEF TypeOK, Keys
      <4> QED
        BY <4>1, <4>2 DEF BufferOnlyReported
    <3> QED
      BY <3>1, <3>2, <3>3, <1>0
  <2> QED
    BY <2>3, <2>4
<1>2. CASE LookupBuf(tid) # NoBuf
  <2>1. tid = t /\ threadMap[t] # NoBuf /\ threadMap[t] \in Buffer
    BY <1>2, <1>0, ConstantsAssumption DEF LookupBuf, TypeOK, Keys
  <2>2. threadMap' = [threadMap EXCEPT ![t] = BufPush(threadMap[t], e)]
    BY <1>2, <2>1 DEF RememberReported, LookupBuf
  <2>3. /\ BufPush(threadMap[t], e) \in Buffer
        /\ \A i \in 1..Len(BufPush(threadMap[t], e)) :
              \/ BufPush(threadMap[t], e)[i] = e
              \/ \E j \in 1..Len(threadMap[t]) : BufPush(threadMap[t], e)[i] = threadMap[t][j]
    BY <2>1, BufPushProps, ConstantsAssumption
  <2>4. threadMap' \in [Keys -> Buffer \cup {NoBuf}]
    BY <2>2, <2>3 DEF TypeOK, Keys
  <2>5. BufferOnlyReported'
    BY <2>1, <2>2, <2>3 DEF BufferOnlyReported, TypeOK, Keys
  <2> QED
    BY <2>4, <2>5
<1> QED
  BY <1>1, <1>2
-----------------------------------------------------------------------------
(* A step that leaves the buffers, the snapshots and the reports alone     *)
(* keeps both halves of the strengthening about reported exceptions.      *)
LEMMA FrameReported ==
    ASSUME BufferOnlyReported, SnapshotsOnlyReported,
           UNCHANGED <<threadMap, snapB, reports>>
    PROVE  BufferOnlyReported' /\ SnapshotsOnlyReported'
BY DEF BufferOnlyReported, SnapshotsOnlyReported, Reported

(* A step that only adds reports keeps the snapshots' exceptions reported. *)
LEMMA SnapshotsGrow ==
    ASSUME SnapshotsOnlyReported, UNCHANGED snapB,
           \A u, x : Reported(u, x) => Reported(u, x)'
    PROVE  SnapshotsOnlyReported'
BY DEF SnapshotsOnlyReported

(* callback_on_exception, with the JVM's throw around it.                 *)
LEMMA ThrowStep ==
    ASSUME IInv, NEW t \in Threads, NEW e \in Exc, NEW known \in BOOLEAN,
           Throw(t, e, known)
    PROVE  IInv'
<1> USE DEF IInv
<1>1. PICK typeOk \in CanFail("jvmti"), tid \in GetTid(t),
           lookupsOk \in CanFail("jvmti"), allocOk \in CanFail("alloc") :
        LET buf == LookupBuf(tid) IN
        \/ /\ known /\ ~IntendedToBeReported(e, typeOk)
           /\ UNCHANGED <<threadMap, uncaughtExceptionMap, reports>>
        \/ /\ ~known \/ IntendedToBeReported(e, typeOk)
           /\ \/ /\ BufFind(buf, e) \/ ~lookupsOk
                 /\ UNCHANGED <<threadMap, uncaughtExceptionMap, reports>>
              \/ /\ ~BufFind(buf, e) /\ lookupsOk /\ ~known
                 /\ IF allocOk THEN StorePostponed(tid, e)
                               ELSE UNCHANGED uncaughtExceptionMap
                 /\ UNCHANGED <<threadMap, reports>>
              \/ /\ ~BufFind(buf, e) /\ lookupsOk /\ known
                 /\ Emit(t, e, TRUE)
                 /\ RememberReported(tid, LookupBuf(tid), e)
                 /\ UNCHANGED uncaughtExceptionMap
  BY DEF Throw, callback_on_exception
<1>2. tid \in Keys
  BY DEF GetTid, Keys
<1>3. /\ flying' \in [Threads -> Flight]
      /\ thrown' \in [Threads -> SUBSET Exc]
      /\ throws' \in 0..MaxThrows
      /\ UNCHANGED <<pc, held, snapU, snapB, diedOf, resolved>>
  <2>1. flying' \in [Threads -> Flight]
    BY DEF Throw, TypeOK, Flight
  <2>2. thrown' \in [Threads -> SUBSET Exc]
    BY DEF Throw, TypeOK
  <2>3. throws' \in 0..MaxThrows
    BY ConstantsAssumption DEF Throw, TypeOK
  <2> QED
    BY <2>1, <2>2, <2>3 DEF Throw
<1>4. CASE UNCHANGED <<threadMap, reports>>
  <2>1. uncaughtExceptionMap' \in [Keys -> Exc \cup {NoExc}]
    BY <1>1, <1>2, <1>4 DEF StorePostponed, TypeOK
  <2>2. TypeOK'
    BY <1>3, <1>4, <2>1 DEF TypeOK
  <2> QED
    BY <2>2, <1>3, <1>4, FrameReported
<1>5. CASE ~UNCHANGED <<threadMap, reports>>
  <2>1. /\ Emit(t, e, TRUE)
        /\ RememberReported(tid, LookupBuf(tid), e)
        /\ UNCHANGED uncaughtExceptionMap
    BY <1>1, <1>5
  <2>2. /\ reports' \in Seq(Report)
        /\ \A u, x : Reported(u, x) => Reported(u, x)'
        /\ Reported(t, e)'
    BY <2>1, EmitProps
  <2>3. threadMap' \in [Keys -> Buffer \cup {NoBuf}] /\ BufferOnlyReported'
    BY <2>1, <2>2, RememberProps
  <2>4. TypeOK'
    BY <1>3, <2>1, <2>2, <2>3 DEF TypeOK
  <2> QED
    BY <1>3, <2>2, <2>3, <2>4, SnapshotsGrow
<1> QED
  BY <1>4, <1>5

(* callback_on_exception_catch, with the JVM's catch around it.           *)
LEMMA CatchStep ==
    ASSUME IInv, NEW t \in Threads, Catch(t)
    PROVE  IInv'
<1> USE DEF IInv
<1>0. PICK e \in Exc : e = flying[t].exc
  BY DEF Catch, TypeOK, Flight, NoFly
<1> DEFINE rpt == uncaughtExceptionMap[t]
<1>1. PICK tidOk \in CanFail("tid"), equalsOk \in CanFail("jvmti"),
           typeOk \in CanFail("jvmti"), tid \in GetTid(t),
           lookupsOk \in CanFail("jvmti") :
        \/ /\ \/ uncaughtExceptionMap = EmptyUMap
              \/ ~tidOk \/ rpt = NoExc \/ ~equalsOk \/ ~JavaEquals(e, rpt)
           /\ UNCHANGED <<threadMap, uncaughtExceptionMap, reports, resolved>>
        \/ /\ uncaughtExceptionMap # EmptyUMap
           /\ tidOk /\ rpt # NoExc /\ equalsOk /\ JavaEquals(e, rpt)
           /\ uncaughtExceptionMap' = [uncaughtExceptionMap EXCEPT ![t] = NoExc]
           /\ resolved' = [resolved EXCEPT ![t] = @ \cup {rpt}]
           /\ ReportResolved(t, tid, rpt, typeOk, lookupsOk)
  BY <1>0 DEF Catch, callback_on_exception_catch
<1>2. /\ flying' \in [Threads -> Flight]
      /\ UNCHANGED <<pc, held, snapU, snapB, thrown, diedOf, throws>>
  BY DEF Catch, TypeOK, Flight
<1>3. CASE UNCHANGED <<threadMap, uncaughtExceptionMap, reports, resolved>>
  <2>1. TypeOK'
    BY <1>2, <1>3 DEF TypeOK
  <2> QED
    BY <2>1, <1>2, <1>3, FrameReported
<1>4. CASE ~UNCHANGED <<threadMap, uncaughtExceptionMap, reports, resolved>>
  <2>1. /\ rpt \in Exc
        /\ uncaughtExceptionMap' = [uncaughtExceptionMap EXCEPT ![t] = NoExc]
        /\ resolved' = [resolved EXCEPT ![t] = @ \cup {rpt}]
        /\ ReportResolved(t, tid, rpt, typeOk, lookupsOk)
    BY <1>1, <1>4 DEF TypeOK, Keys
  <2>0. PICK r \in Exc : r = rpt
    BY <2>1
  <2>2. /\ uncaughtExceptionMap' \in [Keys -> Exc \cup {NoExc}]
        /\ resolved' \in [Threads -> SUBSET Exc]
    BY <2>1 DEF TypeOK, Keys
  <2>3. CASE IntendedToBeReported(rpt, typeOk) /\ ~BufFind(LookupBuf(tid), rpt)
             /\ lookupsOk
    <3>1. Emit(t, r, TRUE) /\ RememberReported(tid, LookupBuf(tid), r)
      BY <2>0, <2>1, <2>3 DEF ReportResolved
    <3>2. /\ reports' \in Seq(Report)
          /\ \A u, x : Reported(u, x) => Reported(u, x)'
          /\ Reported(t, r)'
      BY <3>1, EmitProps
    <3>3. threadMap' \in [Keys -> Buffer \cup {NoBuf}] /\ BufferOnlyReported'
      BY <3>1, <3>2, RememberProps
    <3>4. TypeOK'
      BY <1>2, <2>2, <3>2, <3>3 DEF TypeOK
    <3> QED
      BY <1>2, <3>2, <3>3, <3>4, SnapshotsGrow
  <2>4. CASE ~(IntendedToBeReported(rpt, typeOk) /\ ~BufFind(LookupBuf(tid), rpt)
               /\ lookupsOk)
    <3>1. UNCHANGED <<threadMap, reports>>
      BY <2>1, <2>4 DEF ReportResolved
    <3>2. TypeOK'
      BY <1>2, <2>2, <3>1 DEF TypeOK
    <3> QED
      BY <1>2, <3>1, <3>2, FrameReported
  <2> QED
    BY <2>3, <2>4
<1> QED
  BY <1>3, <1>4

(* Native code clearing an exception touches no state of the agent.       *)
LEMMA NativeClearStep ==
    ASSUME IInv, NEW t \in Threads, NativeClear(t)
    PROVE  IInv'
<1>1. TypeOK'
  BY DEF IInv, TypeOK, NativeClear, Flight
<1> QED
  BY <1>1, FrameReported DEF IInv, NativeClear

(* The thread's end: the JVM's side and the emptiness test of             *)
(* callback_on_thread_end.                                                *)
LEMMA ThreadEndStep ==
    ASSUME IInv, NEW t \in Threads, ThreadEnd(t)
    PROVE  IInv'
<1>1. PICK tidOk \in CanFail("tid") :
        IF /\ tidOk
           /\ threadMap # EmptyTMap \/ uncaughtExceptionMap # EmptyUMap
        THEN /\ pc' = [pc EXCEPT ![t] = "pop_rpt"]
             /\ snapU' = IF ThreadSafeMaps THEN snapU
                         ELSE [snapU EXCEPT ![t] = uncaughtExceptionMap]
        ELSE pc' = [pc EXCEPT ![t] = "done"] /\ UNCHANGED snapU
  BY DEF ThreadEnd, ThreadEndBegin
<1>2. /\ pc' \in [Threads -> {"run", "pop_rpt", "pop_buf", "done"}]
      /\ snapU' \in [Threads -> [Keys -> Exc \cup {NoExc}]]
  BY <1>1 DEF IInv, TypeOK
<1>3. /\ diedOf' \in [Threads -> Exc \cup {NoExc}]
      /\ flying' \in [Threads -> Flight]
  BY DEF ThreadEnd, IInv, TypeOK, Flight, NoFly
<1>4. TypeOK'
  BY <1>2, <1>3 DEF ThreadEnd, IInv, TypeOK
<1> QED
  BY <1>4, FrameReported DEF IInv, ThreadEnd

(* The pop of uncaughtExceptionMap, and the read of threadMap a pop that   *)
(* is not atomic makes.                                                   *)
LEMMA PopReportStep ==
    ASSUME IInv, NEW t \in Threads, ThreadEndPopReport(t)
    PROVE  IInv'
<1> DEFINE base == IF ThreadSafeMaps THEN uncaughtExceptionMap ELSE snapU[t]
<1>1. base \in [Keys -> Exc \cup {NoExc}]
  BY DEF IInv, TypeOK
<1>2. /\ uncaughtExceptionMap' = [base EXCEPT ![t] = NoExc]
      /\ held' = [held EXCEPT ![t] = base[t]]
      /\ snapB' = IF ThreadSafeMaps THEN snapB ELSE [snapB EXCEPT ![t] = threadMap]
      /\ pc' = [pc EXCEPT ![t] = "pop_buf"]
      /\ UNCHANGED <<threadMap, flying, snapU, reports, thrown, diedOf, resolved,
                     throws>>
  BY DEF ThreadEndPopReport
<1>3. TypeOK'
  BY <1>1, <1>2 DEF IInv, TypeOK, Keys
<1>4. BufferOnlyReported'
  BY <1>2 DEF IInv, BufferOnlyReported, Reported
<1>5. SnapshotsOnlyReported'
  <2>1. CASE ThreadSafeMaps
    BY <1>2, <2>1 DEF IInv, SnapshotsOnlyReported, Reported
  <2>2. CASE ~ThreadSafeMaps
    <3>1. snapB'[t] = threadMap /\ \A u \in Threads \ {t} : snapB'[u] = snapB[u]
      BY <1>2, <2>2 DEF IInv, TypeOK
    <3> QED
      BY <1>2, <3>1 DEF IInv, BufferOnlyReported, SnapshotsOnlyReported, Reported
  <2> QED
    BY <2>1, <2>2
<1> QED
  BY <1>3, <1>4, <1>5 DEF IInv

(* The pop of threadMap and the "Uncaught" report: the write-back is of   *)
(* the map this pop read, whose buffers held only reported exceptions.    *)
LEMMA PopBufferStep ==
    ASSUME IInv, NEW t \in Threads, ThreadEndPopBuffer(t)
    PROVE  IInv'
<1> DEFINE base == IF ThreadSafeMaps THEN threadMap ELSE snapB[t]
           rpt  == held[t]
<1>1. /\ base \in [Keys -> Buffer \cup {NoBuf}]
      /\ \A u \in Threads : base[u] # NoBuf =>
            \A i \in 1..Len(base[u]) : Reported(u, base[u][i])
  BY DEF IInv, TypeOK, BufferOnlyReported, SnapshotsOnlyReported
<1>2. /\ threadMap' = [base EXCEPT ![t] = NoBuf]
      /\ IF rpt # NoExc /\ ~BufFind(base[t], rpt)
         THEN Emit(t, rpt, FALSE) ELSE UNCHANGED reports
      /\ held' = [held EXCEPT ![t] = NoExc]
      /\ pc' = [pc EXCEPT ![t] = "done"]
      /\ UNCHANGED <<uncaughtExceptionMap, flying, snapU, snapB, thrown,
                     diedOf, resolved, throws>>
  BY DEF ThreadEndPopBuffer
<1>3. /\ reports' \in Seq(Report)
      /\ \A u, x : Reported(u, x) => Reported(u, x)'
  <2>1. CASE rpt # NoExc /\ ~BufFind(base[t], rpt)
    <3>1. rpt \in Exc
      BY <2>1 DEF IInv, TypeOK
    <3> QED
      BY <1>2, <2>1, <3>1, EmitProps DEF IInv
  <2>2. CASE ~(rpt # NoExc /\ ~BufFind(base[t], rpt))
    BY <1>2, <2>2 DEF IInv, TypeOK, Reported
  <2> QED
    BY <2>1, <2>2
<1>4. threadMap' \in [Keys -> Buffer \cup {NoBuf}]
  BY <1>1, <1>2 DEF Keys
<1>5. TypeOK'
  BY <1>2, <1>3, <1>4 DEF IInv, TypeOK
<1>6. BufferOnlyReported'
  BY <1>1, <1>2, <1>3 DEF BufferOnlyReported, Keys
<1>7. SnapshotsOnlyReported'
  BY <1>2, <1>3, SnapshotsGrow DEF IInv
<1> QED
  BY <1>5, <1>6, <1>7 DEF IInv
-----------------------------------------------------------------------------
(* Every step of the system, or a stutter, keeps the strengthening.       *)
LEMMA IInvStep == IInv /\ [Next]_vars => IInv'
<1> SUFFICES ASSUME IInv, [Next]_vars PROVE IInv'
  OBVIOUS
<1>1. CASE UNCHANGED vars
  <2>1. TypeOK'
    BY <1>1 DEF vars, IInv, TypeOK
  <2> QED
    BY <1>1, <2>1, FrameReported DEF vars, IInv
<1>2. CASE Next
  <2>1. PICK t \in Threads :
          \/ \E e \in Exc, known \in BOOLEAN : Throw(t, e, known)
          \/ Catch(t)
          \/ NativeClear(t)
          \/ ThreadEnd(t)
          \/ ThreadEndPopReport(t)
          \/ ThreadEndPopBuffer(t)
    BY <1>2 DEF Next
  <2> QED
    BY <2>1, ThrowStep, CatchStep, NativeClearStep, ThreadEndStep,
       PopReportStep, PopBufferStep
<1> QED
  BY <1>1, <1>2

(* Type correctness of the callbacks: the maps, the buffers and the       *)
(* reports keep their shape; in particular no buffer of reported          *)
(* exceptions ever grows past REPORTED_EXCEPTION_STACK_CAPACITY, for any  *)
(* capacity, any failures and either reading of the map's atomicity.      *)
THEOREM TypeCorrect == Spec => []TypeOK
<1>1. Init => IInv
  BY InitIInv
<1>2. IInv /\ [Next]_vars => IInv'
  BY IInvStep
<1>3. IInv => TypeOK
  BY DEF IInv
<1> QED
  BY <1>1, <1>2, <1>3, PTL DEF Spec

(* The deduplication of callback_on_exception and                          *)
(* callback_on_exception_catch never suppresses a report of an exception  *)
(* that was not reported on its thread: every buffer holds only reported  *)
(* exceptions, whatever get_tid, JVMTI or malloc fail and however the     *)
(* unlocked pops of callback_on_thread_end interleave.                    *)
THEOREM BufferOnlyReportedHolds == Spec => []BufferOnlyReported
<1>1. Init => IInv
  BY InitIInv
<1>2. IInv /\ [Next]_vars => IInv'
  BY IInvStep
<1>3. IInv => BufferOnlyReported
  BY DEF IInv
<1> QED
  BY <1>1, <1>2, <1>3, PTL DEF Spec
=============================================================================

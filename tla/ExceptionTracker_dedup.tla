----------------------- MODULE ExceptionTracker_dedup -----------------------
(***************************************************************************)
(* Proofs of NoDuplicateReport, the deduplication of spec P1/P2, and of    *)
(* the action property RingKeepsReported: while the ring of reported       *)
(* exceptions can hold every exception of a listed class, no thread        *)
(* reports one exception twice and no step removes an exception from a    *)
(* living thread's ring.  Both need one jthread_map                       *)
(* operation to be atomic (the write-back of a thread-end pop restores an  *)
(* old buffer of another thread), get_tid() to succeed (a handler with tid *)
(* 0 remembers the report under the wrong key) and malloc to succeed (a    *)
(* report whose buffer cannot be created is not remembered).              *)
(***************************************************************************)
EXTENDS ExceptionTracker_safety, FiniteSetTheorems

(* The exceptions of a class configured to be reported even when caught.   *)
ListedExc == {e \in Exc : TypeOf[e] \in ReportedCaughtTypes}

(* A thread's ring holds each exception at most once, all of listed class. *)
BufListedAt(t) ==
    threadMap[t] # NoBuf =>
        IsInjective(threadMap[t]) /\ Range(threadMap[t]) \subseteq ListedExc

(* Until its end callback pops it, a thread's ring remembers every         *)
(* exception reported on the thread.                                      *)
RememberedAt(t) ==
    pc[t] # "done" =>
        \A i \in 1..Len(reports) : reports[i].thr = t =>
            threadMap[t] # NoBuf /\ reports[i].exc \in Range(threadMap[t])

(* The inductive strengthening of NoDuplicateReport.                      *)
DedupInv ==
    /\ IInv /\ NoDuplicateReport
    /\ \A t \in Threads : BufListedAt(t) /\ RememberedAt(t)

(* The hypothesis of the deduplication: the ring of                       *)
(* REPORTED_EXCEPTION_STACK_CAPACITY entries can hold every exception of  *)
(* a listed class.                                                        *)
RingHoldsListed ==
    IsFiniteSet(ListedExc) /\ Cardinality(ListedExc) <= Capacity
-----------------------------------------------------------------------------
(* An injective sequence of listed exceptions that misses a listed         *)
(* exception is shorter than the ring's capacity: the ring has room.      *)
LEMMA RingHasRoom ==
    ASSUME RingHoldsListed, NEW b \in Seq(Exc), IsInjective(b),
           Range(b) \subseteq ListedExc, NEW e \in ListedExc \ Range(b)
    PROVE  Len(b) < Capacity
<1> DEFINE S == ListedExc \ {e}
<1>1. IsFiniteSet(S) /\ Cardinality(S) = Cardinality(ListedExc) - 1
  BY FS_RemoveElement DEF RingHoldsListed
<1>2. b \in Injection(1..Len(b), S)
  BY DEF Injection, IsInjective, Range
<1>3. Cardinality(1..Len(b)) <= Cardinality(S)
  BY <1>1, <1>2, FS_Injection
<1>4. Cardinality(1..Len(b)) = Len(b)
  <2>1. Len(b) \in Nat
    OBVIOUS
  <2> QED
    BY <2>1, FS_Interval
<1>5. Cardinality(ListedExc) \in Nat
  BY FS_CardinalityType DEF RingHoldsListed
<1> QED
  BY <1>1, <1>3, <1>4, <1>5, ConstantsAssumption DEF RingHoldsListed

(* Appending an exception the sequence misses keeps it injective and adds *)
(* the exception to its range.                                            *)
LEMMA AppendFreshInjective ==
    ASSUME NEW b \in Seq(Exc), IsInjective(b), NEW e \in Exc \ Range(b)
    PROVE  /\ IsInjective(Append(b, e))
           /\ Range(Append(b, e)) = Range(b) \cup {e}
<1>1. /\ Append(b, e) \in Seq(Exc) /\ Len(Append(b, e)) = Len(b) + 1
      /\ Append(b, e)[Len(b) + 1] = e
      /\ \A i \in 1..Len(b) : Append(b, e)[i] = b[i]
  BY AppendProperties
<1>2. \A i \in 1..Len(b) : b[i] # e
  BY DEF Range
<1>3. IsInjective(Append(b, e))
  BY <1>1, <1>2 DEF IsInjective
<1>4. Range(Append(b, e)) = Range(b) \cup {e}
  BY <1>1 DEF Range
<1> QED
  BY <1>3, <1>4

(* A one-element ring is injective and holds its element.                 *)
LEMMA SingletonInjective ==
    ASSUME NEW e
    PROVE  IsInjective(<<e>>) /\ Range(<<e>>) = {e}
BY DEF IsInjective, Range

(* Appending a report that repeats no earlier report of its thread keeps  *)
(* the reports free of duplicates.                                        *)
LEMMA AppendNoDuplicate ==
    ASSUME NEW s \in Seq(Report), NEW r \in Report,
           \A i, j \in 1..Len(s) :
               i < j => ~(s[i].thr = s[j].thr /\ s[i].exc = s[j].exc),
           \A i \in 1..Len(s) : s[i].thr = r.thr => s[i].exc # r.exc
    PROVE  \A i, j \in 1..Len(Append(s, r)) :
               i < j => ~(Append(s, r)[i].thr = Append(s, r)[j].thr
                          /\ Append(s, r)[i].exc = Append(s, r)[j].exc)
<1>1. /\ Len(Append(s, r)) = Len(s) + 1 /\ Append(s, r)[Len(s) + 1] = r
      /\ \A i \in 1..Len(s) : Append(s, r)[i] = s[i]
  BY AppendProperties
<1> SUFFICES ASSUME NEW i \in 1..Len(s) + 1, NEW j \in 1..Len(s) + 1, i < j
             PROVE  ~(Append(s, r)[i].thr = Append(s, r)[j].thr
                      /\ Append(s, r)[i].exc = Append(s, r)[j].exc)
  BY <1>1
<1>2. CASE j = Len(s) + 1
  BY <1>1, <1>2
<1>3. CASE j # Len(s) + 1
  BY <1>1, <1>3
<1> QED
  BY <1>2, <1>3
(* What every step keeps: the strengthening's conditions on the reports   *)
(* and the rings, and each living thread's ring.                          *)
DedupKept ==
    /\ NoDuplicateReport'
    /\ \A u \in Threads : BufListedAt(u)' /\ RememberedAt(u)' /\ RingKept(u)
-----------------------------------------------------------------------------
(* A step that leaves the rings and the reports alone, and no thread's end *)
(* callback undone, keeps the deduplication conditions.                   *)
LEMMA DedupFrame ==
    ASSUME DedupInv, UNCHANGED <<threadMap, reports>>,
           \A u \in Threads : pc[u] = "done" => pc'[u] = "done"
    PROVE  DedupKept
BY DEF DedupKept, DedupInv, NoDuplicateReport, BufListedAt, RememberedAt, RingKept

(* A caught report of a listed exception that t's ring does not hold,     *)
(* followed by its push on the ring (or the creation of the ring): the     *)
(* push overwrites nothing, and the ring remembers the new report.        *)
LEMMA EmitRemembered ==
    ASSUME DedupInv, RingHoldsListed, "alloc" \notin Faults,
           NEW t \in Threads, NEW e \in ListedExc, NEW c \in BOOLEAN,
           pc[t] # "done", pc' = pc, ~BufFind(threadMap[t], e),
           Emit(t, e, c), RememberReported(t, threadMap[t], e)
    PROVE  DedupKept
<1> DEFINE b == threadMap[t]
           r == [thr |-> t, exc |-> e, caught |-> c]
           nb == IF b = NoBuf THEN <<e>> ELSE Append(b, e)
<1>1. /\ reports \in Seq(Report) /\ r \in Report /\ reports' = Append(reports, r)
      /\ t \in Keys /\ b \in Buffer \cup {NoBuf} /\ e \in Exc
  BY DEF DedupInv, IInv, TypeOK, Emit, Report, Keys, ListedExc
<1>2. /\ Len(reports') = Len(reports) + 1 /\ reports'[Len(reports) + 1] = r
      /\ \A i \in 1..Len(reports) : reports'[i] = reports[i]
  BY <1>1, AppendProperties
<1>3. \A i \in 1..Len(reports) : reports[i].thr = t => reports[i].exc # e
  BY DEF DedupInv, RememberedAt, BufFind
<1>4. NoDuplicateReport'
  BY <1>1, <1>3, AppendNoDuplicate DEF DedupInv, NoDuplicateReport
<1>5. threadMap' = [threadMap EXCEPT ![t] = nb]
  <2>1. CASE b = NoBuf
    BY <2>1 DEF RememberReported, CanFail
  <2>2. CASE b # NoBuf
    <3>1. b \in Seq(Exc) /\ IsInjective(b) /\ Range(b) \subseteq ListedExc /\ e \notin Range(b)
      BY <1>1, <2>2 DEF DedupInv, BufListedAt, BufFind, Buffer
    <3>2. Len(b) < Capacity
      BY <3>1, RingHasRoom
    <3>3. BufPush(b, e) = Append(b, e)
      BY <3>2 DEF BufPush
    <3> QED
      BY <2>2, <3>3 DEF RememberReported
  <2> QED
    BY <2>1, <2>2
<1>6. /\ IsInjective(nb) /\ Range(nb) \subseteq ListedExc /\ e \in Range(nb)
      /\ b # NoBuf => Range(b) \subseteq Range(nb)
  <2>1. CASE b = NoBuf
    BY <2>1, SingletonInjective
  <2>2. CASE b # NoBuf
    <3>1. b \in Seq(Exc) /\ IsInjective(b) /\ Range(b) \subseteq ListedExc /\ e \notin Range(b)
      BY <1>1, <2>2 DEF DedupInv, BufListedAt, BufFind, Buffer
    <3> QED
      BY <2>2, <3>1, <1>1, AppendFreshInjective
  <2> QED
    BY <2>1, <2>2
<1>7. nb # NoBuf
  <2>1. nb \in Seq(Exc)
    BY <1>1, AppendProperties DEF Buffer
  <2> QED
    BY <2>1, ConstantsAssumption
<1>8. ASSUME NEW u \in Threads PROVE BufListedAt(u)'
  <2>1. CASE u = t
    BY <2>1, <1>1, <1>5, <1>6 DEF BufListedAt, DedupInv, IInv, TypeOK
  <2>2. CASE u # t
    BY <2>2, <1>5 DEF BufListedAt, DedupInv
  <2> QED
    BY <2>1, <2>2
<1>9. ASSUME NEW u \in Threads PROVE RememberedAt(u)'
  <2> SUFFICES ASSUME pc'[u] # "done", NEW i \in 1..Len(reports'), reports'[i].thr = u
               PROVE  threadMap'[u] # NoBuf /\ reports'[i].exc \in Range(threadMap'[u])
    BY DEF RememberedAt
  <2>1. CASE u = t
    <3>1. threadMap'[u] = nb
      BY <2>1, <1>1, <1>5 DEF DedupInv, IInv, TypeOK
    <3>2. CASE i = Len(reports) + 1
      BY <3>1, <3>2, <1>2, <1>6, <1>7
    <3>3. CASE i # Len(reports) + 1
      <4>1. i \in 1..Len(reports) /\ reports'[i] = reports[i]
        BY <3>3, <1>2
      <4>2. b # NoBuf /\ reports[i].exc \in Range(b)
        BY <4>1, <2>1 DEF DedupInv, RememberedAt
      <4> QED
        BY <3>1, <4>1, <4>2, <1>6, <1>7
    <3> QED
      BY <3>2, <3>3
  <2>2. CASE u # t
    <3>1. i \in 1..Len(reports) /\ reports'[i] = reports[i]
      BY <2>2, <1>2
    <3>2. threadMap'[u] = threadMap[u]
      BY <2>2, <1>5
    <3> QED
      BY <3>1, <3>2, <2>2 DEF DedupInv, RememberedAt
  <2> QED
    BY <2>1, <2>2
<1>10. ASSUME NEW u \in Threads PROVE RingKept(u)
  <2>1. CASE u = t
    BY <2>1, <1>1, <1>5, <1>6, <1>7 DEF RingKept, DedupInv, IInv, TypeOK
  <2>2. CASE u # t
    BY <2>2, <1>5 DEF RingKept
  <2> QED
    BY <2>1, <2>2
<1> QED
  BY <1>4, <1>8, <1>9, <1>10 DEF DedupKept
-----------------------------------------------------------------------------
(* callback_on_exception reports only a listed exception its thread's ring *)
(* does not hold, and pushes it.                                          *)
LEMMA ThrowDedup ==
    ASSUME DedupInv, RingHoldsListed, "tid" \notin Faults, "alloc" \notin Faults,
           NEW t \in Threads, NEW e \in Exc, NEW known \in BOOLEAN,
           Throw(t, e, known)
    PROVE  DedupKept
<1>1. pc[t] = "run" /\ pc' = pc
  BY DEF Throw
<1>2. PICK typeOk \in CanFail("jvmti"), tid \in GetTid(t),
           lookupsOk \in CanFail("jvmti"), allocOk \in CanFail("alloc") :
        LET buf == LookupBuf(tid) IN
        \/ UNCHANGED <<threadMap, reports>>
        \/ /\ IntendedToBeReported(e, typeOk) /\ ~BufFind(buf, e)
           /\ Emit(t, e, TRUE)
           /\ RememberReported(tid, LookupBuf(tid), e)
  BY DEF Throw, callback_on_exception
<1>3. tid = t /\ LookupBuf(tid) = threadMap[t]
  BY <1>2, OwnTid DEF LookupBuf
<1>4. CASE UNCHANGED <<threadMap, reports>>
  BY <1>1, <1>4, DedupFrame
<1>5. CASE ~UNCHANGED <<threadMap, reports>>
  <2>1. /\ IntendedToBeReported(e, typeOk) /\ ~BufFind(threadMap[t], e)
        /\ Emit(t, e, TRUE) /\ RememberReported(t, threadMap[t], e)
    BY <1>2, <1>3, <1>5
  <2>2. e \in ListedExc
    BY <2>1 DEF IntendedToBeReported, ListedExc
  <2> QED
    BY <1>1, <2>1, <2>2, EmitRemembered
<1> QED
  BY <1>4, <1>5

(* callback_on_exception_catch reports the popped report only when it is  *)
(* listed and its thread's ring does not hold it, and then pushes it.     *)
LEMMA CatchDedup ==
    ASSUME DedupInv, RingHoldsListed, "tid" \notin Faults, "alloc" \notin Faults,
           NEW t \in Threads, Catch(t)
    PROVE  DedupKept
<1> DEFINE rpt == uncaughtExceptionMap[t]
<1>1. pc[t] = "run" /\ pc' = pc
  BY DEF Catch
<1>2. PICK typeOk \in CanFail("jvmti"), tid \in GetTid(t),
           lookupsOk \in CanFail("jvmti") :
        \/ UNCHANGED <<threadMap, reports>>
        \/ rpt # NoExc /\ ReportResolved(t, tid, rpt, typeOk, lookupsOk)
  BY DEF Catch, callback_on_exception_catch
<1>3. tid = t /\ LookupBuf(tid) = threadMap[t]
  BY <1>2, OwnTid DEF LookupBuf
<1>4. CASE UNCHANGED <<threadMap, reports>>
  BY <1>1, <1>4, DedupFrame
<1>5. CASE ~UNCHANGED <<threadMap, reports>>
  <2>1. /\ rpt # NoExc /\ IntendedToBeReported(rpt, typeOk)
        /\ ~BufFind(threadMap[t], rpt)
        /\ Emit(t, rpt, TRUE) /\ RememberReported(t, threadMap[t], rpt)
    BY <1>2, <1>3, <1>5 DEF ReportResolved
  <2>2. rpt \in ListedExc
    BY <2>1 DEF IntendedToBeReported, ListedExc, DedupInv, IInv, TypeOK, Keys
  <2> QED
    BY <1>1, <2>1, <2>2, EmitRemembered
<1> QED
  BY <1>4, <1>5

(* The second pop of callback_on_thread_end reports the held exception    *)
(* only when the thread's ring does not hold it, and removes the ring as   *)
(* the thread's end callback completes.                                   *)
LEMMA PopBufferDedup ==
    ASSUME DedupInv, ThreadSafeMaps, NEW t \in Threads, ThreadEndPopBuffer(t)
    PROVE  DedupKept
<1> DEFINE rpt == held[t]
           r == [thr |-> t, exc |-> rpt, caught |-> FALSE]
<1>1. /\ pc[t] = "pop_buf" /\ pc' = [pc EXCEPT ![t] = "done"]
      /\ threadMap' = [threadMap EXCEPT ![t] = NoBuf]
      /\ IF rpt # NoExc /\ ~BufFind(threadMap[t], rpt)
         THEN reports' = Append(reports, r) ELSE UNCHANGED reports
  BY DEF ThreadEndPopBuffer, Emit
<1>2. /\ reports \in Seq(Report) /\ pc \in [Threads -> {"run", "pop_rpt", "pop_buf", "done"}]
      /\ threadMap \in [Keys -> Buffer \cup {NoBuf}] /\ t \in Keys
  BY DEF DedupInv, IInv, TypeOK, Keys
<1>3. \A u \in Threads : BufListedAt(u)' /\ RingKept(u)
  BY <1>1, <1>2 DEF DedupInv, BufListedAt, RingKept
<1>4. CASE rpt # NoExc /\ ~BufFind(threadMap[t], rpt)
  <2>1. reports' = Append(reports, r)
    BY <1>1, <1>4
  <2>2. r \in Report
    BY <1>4 DEF DedupInv, IInv, TypeOK, Report
  <2>3. /\ reports' = Append(reports, r) /\ r \in Report
        /\ Len(reports') = Len(reports) + 1 /\ reports'[Len(reports) + 1] = r
        /\ \A i \in 1..Len(reports) : reports'[i] = reports[i]
    BY <2>1, <2>2, <1>2, AppendProperties
  <2>4. \A i \in 1..Len(reports) : reports[i].thr = t => reports[i].exc # rpt
    BY <1>1, <1>4 DEF DedupInv, RememberedAt, BufFind
  <2>5. NoDuplicateReport'
    BY <1>2, <2>3, <2>4, AppendNoDuplicate DEF DedupInv, NoDuplicateReport
  <2>6. \A u \in Threads : RememberedAt(u)'
    BY <1>1, <1>2, <2>3 DEF DedupInv, RememberedAt
  <2> QED
    BY <1>3, <2>5, <2>6 DEF DedupKept
<1>5. CASE ~(rpt # NoExc /\ ~BufFind(threadMap[t], rpt))
  <2>1. UNCHANGED reports
    BY <1>1, <1>5
  <2> QED
    BY <1>1, <1>2, <1>3, <2>1 DEF DedupKept, DedupInv, NoDuplicateReport, RememberedAt
<1> QED
  BY <1>4, <1>5
-----------------------------------------------------------------------------
(* The initial states satisfy the strengthening: no ring, no report.      *)
LEMMA InitDedupInv == Init => DedupInv
<1> SUFFICES ASSUME Init PROVE DedupInv
  OBVIOUS
<1>1. IInv
  BY InitIInv
<1>2. reports = << >> /\ \A t \in Threads : threadMap[t] = NoBuf
  BY DEF Init, EmptyTMap, Keys
<1> QED
  BY <1>1, <1>2 DEF DedupInv, NoDuplicateReport, BufListedAt, RememberedAt

(* Every step keeps the strengthening.                                    *)
LEMMA DedupStep ==
    ASSUME ThreadSafeMaps, "tid" \notin Faults, "alloc" \notin Faults,
           RingHoldsListed
    PROVE  DedupInv /\ [Next]_vars => DedupInv' /\ \A u \in Threads : RingKept(u)
<1> SUFFICES ASSUME DedupInv, [Next]_vars PROVE DedupInv' /\ \A u \in Threads : RingKept(u)
  OBVIOUS
<1>1. IInv'
  BY IInvStep DEF DedupInv
<1>2. DedupKept
  <2>1. CASE UNCHANGED vars
    BY <2>1, DedupFrame DEF vars
  <2>2. CASE Next
    <3>1. PICK t \in Threads :
            \/ \E e \in Exc, known \in BOOLEAN : Throw(t, e, known)
            \/ Catch(t)
            \/ NativeClear(t)
            \/ ThreadEnd(t)
            \/ ThreadEndPopReport(t)
            \/ ThreadEndPopBuffer(t)
      BY <2>2 DEF Next
    <3>2. CASE \E e \in Exc, known \in BOOLEAN : Throw(t, e, known)
      BY <3>2, ThrowDedup
    <3>3. CASE Catch(t)
      BY <3>3, CatchDedup
    <3>4. CASE NativeClear(t)
      BY <3>4, DedupFrame DEF NativeClear
    <3>5. CASE ThreadEnd(t)
      <4>1. \A u \in Threads : pc[u] = "done" => pc'[u] = "done"
        BY <3>5 DEF ThreadEnd, ThreadEndBegin, DedupInv, IInv, TypeOK
      <4> QED
        BY <3>5, <4>1, DedupFrame DEF ThreadEnd
    <3>6. CASE ThreadEndPopReport(t)
      <4>1. \A u \in Threads : pc[u] = "done" => pc'[u] = "done"
        BY <3>6 DEF ThreadEndPopReport, DedupInv, IInv, TypeOK
      <4> QED
        BY <3>6, <4>1, DedupFrame DEF ThreadEndPopReport
    <3>7. CASE ThreadEndPopBuffer(t)
      BY <3>7, PopBufferDedup
    <3> QED
      BY <3>1, <3>2, <3>3, <3>4, <3>5, <3>6, <3>7
  <2> QED
    BY <2>1, <2>2
<1> QED
  BY <1>1, <1>2 DEF DedupInv, DedupKept

(* No thread reports the same exception twice, whether the throw, the     *)
(* catch or the end callback emits it, for any number of threads and       *)
(* exceptions, any listed classes and any equals() overrides, when the    *)
(* ring can hold every exception of a listed class, one jthread_map        *)
(* operation is atomic and get_tid() and malloc do not fail; the JVMTI     *)
(* look-ups may fail.                                                     *)
THEOREM NoDuplicateReportHolds ==
    ASSUME ThreadSafeMaps, "tid" \notin Faults, "alloc" \notin Faults,
           RingHoldsListed
    PROVE  Spec => []NoDuplicateReport
<1>1. Init => DedupInv
  BY InitDedupInv
<1>2. DedupInv /\ [Next]_vars => DedupInv'
  BY DedupStep
<1>3. DedupInv => NoDuplicateReport
  BY DEF DedupInv
<1> QED
  BY <1>1, <1>2, <1>3, PTL DEF Spec

(* No step of the callbacks removes an exception from the ring of a thread *)
(* whose end callback is not done: the ring's overwriting of its oldest   *)
(* entry never happens, under the hypotheses of NoDuplicateReportHolds.   *)
THEOREM RingKeepsReportedHolds ==
    ASSUME ThreadSafeMaps, "tid" \notin Faults, "alloc" \notin Faults,
           RingHoldsListed
    PROVE  Spec => RingKeepsReported
<1>1. Init => DedupInv
  BY InitDedupInv
<1>2. DedupInv /\ [Next]_vars => DedupInv'
  BY DedupStep
<1>3. DedupInv /\ [Next]_vars => [\A t \in Threads : RingKept(t)]_vars
  BY DedupStep
<1> QED
  BY <1>1, <1>2, <1>3, PTL DEF Spec, RingKeepsReported
=============================================================================

--------------------- MODULE ExceptionTracker_refinement ---------------------
(***************************************************************************)
(* Proof that the callbacks implement the pending-record protocol of       *)
(* ExceptionReporting under the refinement mapping of ExceptionTracker,   *)
(* for every number of threads and exceptions, every capacity and every   *)
(* collaborator failure, when one jthread_map operation is atomic and      *)
(* equals() is identity.  The runs "race" and "equals" show each of the   *)
(* two assumptions is needed.                                              *)
(***************************************************************************)
EXTENDS ExceptionTracker_proofs

(* Between the two pops of callback_on_thread_end the thread's entry of   *)
(* uncaughtExceptionMap is already gone: the held report is the only copy. *)
PoppedCleared ==
    \A t \in Threads : pc[t] = "pop_buf" => uncaughtExceptionMap[t] = NoExc

RInv == IInv /\ PoppedCleared

(* Steps that leave a thread's map entry, phase and held report alone     *)
(* leave its pending record and its end alone.                             *)
LEMMA MappingFrame ==
    ASSUME NEW t \in Threads,
           uncaughtExceptionMap'[t] = uncaughtExceptionMap[t],
           pc'[t] = pc[t], held'[t] = held[t]
    PROVE  pendingBar'[t] = pendingBar[t] /\ endedBar'[t] = endedBar[t]
BY DEF pendingBar, endedBar

LEMMA InitRInv == Init => RInv
<1> SUFFICES ASSUME Init PROVE RInv
  OBVIOUS
<1>1. IInv
  BY InitIInv
<1>2. PoppedCleared
  BY DEF Init, PoppedCleared
<1> QED
  BY <1>1, <1>2 DEF RInv

LEMMA InitMaps == Init => Reporting!Init
<1> SUFFICES ASSUME Init PROVE Reporting!Init
  OBVIOUS
<1>1. pendingBar = [t \in Threads |-> NoExc]
  BY DEF Init, pendingBar, EmptyUMap, Keys
<1>2. endedBar = [t \in Threads |-> FALSE]
  BY DEF Init, endedBar
<1>3. reports = <<>> /\ flying = [t \in Threads |-> Reporting!NoFly]
  BY DEF Init, NoFly, Reporting!NoFly
<1> QED
  BY <1>1, <1>2, <1>3 DEF Reporting!Init
-----------------------------------------------------------------------------
(* callback_on_exception: a throw with a handler may be reported at once; *)
(* one without may become the pending record of the thread, or of the     *)
(* fallback id 0, which is no thread's record.                            *)
LEMMA ThrowMaps ==
    ASSUME RInv, NEW t \in Threads, NEW e \in Exc, NEW known \in BOOLEAN,
           Throw(t, e, known)
    PROVE  PoppedCleared' /\ Reporting!OnThrow(t, e, known)
<1> USE DEF RInv, IInv
<1>1. /\ pc[t] = "run" /\ flying[t] = NoFly
      /\ flying' = [flying EXCEPT ![t] = [exc |-> e, known |-> known]]
      /\ UNCHANGED <<pc, held>>
  BY DEF Throw
<1>2. \/ UNCHANGED <<uncaughtExceptionMap, reports>>
      \/ /\ known /\ UNCHANGED uncaughtExceptionMap
         /\ reports' = Append(reports, [thr |-> t, exc |-> e, caught |-> TRUE])
      \/ /\ ~known /\ UNCHANGED reports
         /\ \E tid \in GetTid(t) :
               uncaughtExceptionMap' = [uncaughtExceptionMap EXCEPT ![tid] = e]
  BY DEF Throw, callback_on_exception, StorePostponed, Emit
<1>3. endedBar' = endedBar /\ ~endedBar[t]
  BY <1>1 DEF endedBar
<1>4. flying' = [flying EXCEPT ![t] = [exc |-> e, known |-> known]]
      /\ flying[t] = Reporting!NoFly
  BY <1>1 DEF NoFly, Reporting!NoFly
<1>5. CASE UNCHANGED uncaughtExceptionMap
  <2>1. pendingBar' = pendingBar
    BY <1>1, <1>5 DEF pendingBar
  <2>2. PoppedCleared'
    BY <1>1, <1>5 DEF PoppedCleared
  <2>3. \/ UNCHANGED reports
        \/ known /\ reports' = Append(reports, Reporting!Caught(t, e))
    BY <1>2, <1>5 DEF Reporting!Caught
  <2> QED
    BY <1>3, <1>4, <2>1, <2>2, <2>3 DEF Reporting!OnThrow
<1>6. CASE ~UNCHANGED uncaughtExceptionMap
  <2>1. PICK tid \in GetTid(t) :
            /\ ~known /\ UNCHANGED reports
            /\ uncaughtExceptionMap' = [uncaughtExceptionMap EXCEPT ![tid] = e]
    BY <1>2, <1>6
  <2>2. PoppedCleared'
    BY <1>1, <2>1, ConstantsAssumption DEF PoppedCleared, GetTid, TypeOK, Keys
  <2>3. CASE tid = t
    <3>1. pendingBar' = [pendingBar EXCEPT ![t] = e]
      BY <1>1, <2>1, <2>3 DEF pendingBar, TypeOK, Keys
    <3> QED
      BY <1>3, <1>4, <2>1, <2>2, <3>1 DEF Reporting!OnThrow
  <2>4. CASE tid # t
    <3>1. tid = FallbackTid
      BY <2>4 DEF GetTid
    <3>2. pendingBar' = pendingBar
      BY <1>1, <2>1, <3>1, ConstantsAssumption DEF pendingBar, TypeOK, Keys
    <3> QED
      BY <1>3, <1>4, <2>1, <2>2, <3>2 DEF Reporting!OnThrow
  <2> QED
    BY <2>3, <2>4
<1> QED
  BY <1>5, <1>6

(* callback_on_exception_catch with equals() as identity: only the catch  *)
(* of the pending exception itself resolves the record.                   *)
LEMMA CatchMaps ==
    ASSUME RInv, EqualsOverrides = {}, NEW t \in Threads, Catch(t)
    PROVE  PoppedCleared' /\ Reporting!OnCatch(t)
<1> USE DEF RInv, IInv
<1>0. PICK e \in Exc : e = flying[t].exc
  BY DEF Catch, TypeOK, Flight, NoFly
<1>1. /\ pc[t] = "run" /\ flying[t] # Reporting!NoFly
      /\ flying' = [flying EXCEPT ![t] = Reporting!NoFly]
      /\ UNCHANGED <<pc, held>>
  BY DEF Catch, NoFly, Reporting!NoFly
<1>2. \/ UNCHANGED <<uncaughtExceptionMap, reports>>
      \/ /\ uncaughtExceptionMap[t] = e
         /\ uncaughtExceptionMap' = [uncaughtExceptionMap EXCEPT ![t] = NoExc]
         /\ \/ UNCHANGED reports
            \/ reports' = Append(reports, [thr |-> t, exc |-> e, caught |-> TRUE])
  BY <1>0 DEF Catch, callback_on_exception_catch, JavaEquals, ReportResolved, Emit
<1>3. endedBar' = endedBar /\ ~endedBar[t]
  BY <1>1 DEF endedBar
<1>4. PoppedCleared'
  BY <1>1, <1>2 DEF PoppedCleared, TypeOK, Keys
<1>5. CASE UNCHANGED <<uncaughtExceptionMap, reports>>
  <2>1. pendingBar' = pendingBar
    BY <1>1, <1>5 DEF pendingBar
  <2> QED
    BY <1>1, <1>3, <1>4, <1>5, <2>1 DEF Reporting!OnCatch
<1>6. CASE ~UNCHANGED <<uncaughtExceptionMap, reports>>
  <2>1. /\ pendingBar[t] = flying[t].exc
        /\ pendingBar' = [pendingBar EXCEPT ![t] = NoExc]
    BY <1>0, <1>1, <1>2, <1>6 DEF pendingBar, TypeOK, Keys
  <2>2. reports' \in {reports, Append(reports, Reporting!Caught(t, flying[t].exc))}
    BY <1>0, <1>2, <1>6 DEF Reporting!Caught
  <2> QED
    BY <1>1, <1>3, <1>4, <2>1, <2>2 DEF Reporting!OnCatch
<1> QED
  BY <1>5, <1>6

(* Native code clearing an exception is seen by no callback.              *)
LEMMA NativeClearMaps ==
    ASSUME RInv, NEW t \in Threads, NativeClear(t)
    PROVE  PoppedCleared' /\ Reporting!OnNativeClear(t)
<1>1. /\ pc[t] = "run" /\ flying[t] # Reporting!NoFly /\ ~flying[t].known
      /\ flying' = [flying EXCEPT ![t] = Reporting!NoFly]
      /\ UNCHANGED <<uncaughtExceptionMap, pc, held, reports>>
  BY DEF NativeClear, NoFly, Reporting!NoFly
<1>2. UNCHANGED <<pendingBar, endedBar>> /\ ~endedBar[t] /\ PoppedCleared'
  BY <1>1, PoppedCleared DEF RInv, pendingBar, endedBar, PoppedCleared
<1> QED
  BY <1>1, <1>2 DEF Reporting!OnNativeClear

(* The first part of callback_on_thread_end ends the thread and keeps its *)
(* record where it was.                                                   *)
LEMMA ThreadEndMaps ==
    ASSUME RInv, NEW t \in Threads, ThreadEnd(t)
    PROVE  PoppedCleared' /\ Reporting!OnThreadEnd(t)
<1>1. /\ pc[t] = "run" /\ ~flying[t].known
      /\ flying' = [flying EXCEPT ![t] = Reporting!NoFly]
      /\ UNCHANGED <<uncaughtExceptionMap, held, reports>>
      /\ \E ph \in {"pop_rpt", "done"} : pc' = [pc EXCEPT ![t] = ph]
  BY DEF ThreadEnd, ThreadEndBegin, NoFly, Reporting!NoFly
<1>2. pc \in [Threads -> {"run", "pop_rpt", "pop_buf", "done"}]
  BY DEF RInv, IInv, TypeOK
<1>3. /\ pendingBar' = pendingBar
      /\ endedBar' = [endedBar EXCEPT ![t] = TRUE] /\ ~endedBar[t]
      /\ PoppedCleared'
  BY <1>1, <1>2, PoppedCleared DEF RInv, pendingBar, endedBar, PoppedCleared
<1> QED
  BY <1>1, <1>3 DEF Reporting!OnThreadEnd

(* The pop of uncaughtExceptionMap moves the record into the callback's   *)
(* hands: nothing the abstract protocol sees changes.                     *)
LEMMA PopReportMaps ==
    ASSUME RInv, ThreadSafeMaps, NEW t \in Threads, ThreadEndPopReport(t)
    PROVE  PoppedCleared' /\ UNCHANGED Reporting!avars
<1>1. /\ pc[t] = "pop_rpt"
      /\ uncaughtExceptionMap' = [uncaughtExceptionMap EXCEPT ![t] = NoExc]
      /\ held' = [held EXCEPT ![t] = uncaughtExceptionMap[t]]
      /\ pc' = [pc EXCEPT ![t] = "pop_buf"]
      /\ UNCHANGED <<flying, reports>>
  BY DEF ThreadEndPopReport
<1>2. /\ uncaughtExceptionMap \in [Keys -> Exc \cup {NoExc}]
      /\ pc \in [Threads -> {"run", "pop_rpt", "pop_buf", "done"}]
      /\ held \in [Threads -> Exc \cup {NoExc}]
  BY DEF RInv, IInv, TypeOK
<1>3. pendingBar' = pendingBar /\ endedBar' = endedBar
  BY <1>1, <1>2 DEF pendingBar, endedBar, Keys
<1>4. PoppedCleared'
  BY <1>1, <1>2, PoppedCleared DEF RInv, PoppedCleared, Keys
<1> QED
  BY <1>1, <1>3, <1>4 DEF Reporting!avars

(* The pop of threadMap reports the held record as uncaught, unless the  *)
(* buffer shows it reported: the abstract record is resolved.             *)
LEMMA PopBufferMaps ==
    ASSUME RInv, ThreadSafeMaps, NEW t \in Threads, ThreadEndPopBuffer(t)
    PROVE  /\ PoppedCleared'
           /\ \/ Reporting!ReportUncaught(t)
              \/ UNCHANGED Reporting!avars
<1>1. /\ pc[t] = "pop_buf"
      /\ pc' = [pc EXCEPT ![t] = "done"]
      /\ held' = [held EXCEPT ![t] = NoExc]
      /\ UNCHANGED <<uncaughtExceptionMap, flying>>
      /\ \/ held[t] # NoExc
            /\ reports' \in {reports, Append(reports, [thr |-> t, exc |-> held[t], caught |-> FALSE])}
         \/ held[t] = NoExc /\ UNCHANGED reports
  BY DEF ThreadEndPopBuffer, Emit
<1>2. /\ uncaughtExceptionMap \in [Keys -> Exc \cup {NoExc}]
      /\ pc \in [Threads -> {"run", "pop_rpt", "pop_buf", "done"}]
      /\ held \in [Threads -> Exc \cup {NoExc}]
      /\ uncaughtExceptionMap[t] = NoExc
  BY <1>1 DEF RInv, IInv, TypeOK, PoppedCleared
<1>3. /\ pendingBar[t] = held[t]
      /\ pendingBar' = [pendingBar EXCEPT ![t] = NoExc]
      /\ endedBar' = endedBar /\ endedBar[t]
  BY <1>1, <1>2 DEF pendingBar, endedBar, Keys
<1>4. PoppedCleared'
  BY <1>1, <1>2, PoppedCleared DEF RInv, PoppedCleared
<1>5. CASE held[t] # NoExc
  <2>1. reports' \in {reports, Append(reports, Reporting!Uncaught(t, pendingBar[t]))}
    BY <1>1, <1>3, <1>5 DEF Reporting!Uncaught
  <2> QED
    BY <1>1, <1>3, <1>4, <1>5, <2>1 DEF Reporting!ReportUncaught
<1>6. CASE held[t] = NoExc
  <2>1. pendingBar' = pendingBar
    BY <1>2, <1>3, <1>6 DEF pendingBar
  <2> QED
    BY <1>1, <1>3, <1>4, <1>6, <2>1 DEF Reporting!avars
<1> QED
  BY <1>5, <1>6
-----------------------------------------------------------------------------
(* Every step keeps the invariant and is a step of the protocol or leaves *)
(* everything the protocol sees unchanged.                                *)
LEMMA RefinementStep ==
    ASSUME ThreadSafeMaps, EqualsOverrides = {}
    PROVE  RInv /\ [Next]_vars => RInv' /\ [Reporting!Next]_Reporting!avars
<1> SUFFICES ASSUME RInv, [Next]_vars
             PROVE  RInv' /\ [Reporting!Next]_Reporting!avars
  OBVIOUS
<1>1. IInv'
  BY IInvStep DEF RInv
<1>2. CASE UNCHANGED vars
  <2>1. PoppedCleared' /\ UNCHANGED Reporting!avars
    BY <1>2 DEF vars, RInv, PoppedCleared, pendingBar, endedBar, Reporting!avars
  <2> QED
    BY <1>1, <2>1 DEF RInv
<1>3. CASE Next
  <2>1. PICK t \in Threads :
          \/ \E e \in Exc, known \in BOOLEAN : Throw(t, e, known)
          \/ Catch(t)
          \/ NativeClear(t)
          \/ ThreadEnd(t)
          \/ ThreadEndPopReport(t)
          \/ ThreadEndPopBuffer(t)
    BY <1>3 DEF Next
  <2>2. CASE \E e \in Exc, known \in BOOLEAN : Throw(t, e, known)
    <3>1. PICK e \in Exc, known \in BOOLEAN : Throw(t, e, known)
      BY <2>2
    <3>2. PoppedCleared' /\ Reporting!OnThrow(t, e, known)
      BY <3>1, ThrowMaps
    <3> QED
      BY <1>1, <3>2 DEF RInv, Reporting!Next
  <2>3. CASE Catch(t)
    <3>1. PoppedCleared' /\ Reporting!OnCatch(t)
      BY <2>3, CatchMaps
    <3> QED
      BY <1>1, <3>1 DEF RInv, Reporting!Next
  <2>4. CASE NativeClear(t)
    <3>1. PoppedCleared' /\ Reporting!OnNativeClear(t)
      BY <2>4, NativeClearMaps
    <3> QED
      BY <1>1, <3>1 DEF RInv, Reporting!Next
  <2>5. CASE ThreadEnd(t)
    <3>1. PoppedCleared' /\ Reporting!OnThreadEnd(t)
      BY <2>5, ThreadEndMaps
    <3> QED
      BY <1>1, <3>1 DEF RInv, Reporting!Next
  <2>6. CASE ThreadEndPopReport(t)
    <3>1. PoppedCleared' /\ UNCHANGED Reporting!avars
      BY <2>6, PopReportMaps
    <3> QED
      BY <1>1, <3>1 DEF RInv
  <2>7. CASE ThreadEndPopBuffer(t)
    <3>1. PoppedCleared' /\ (Reporting!ReportUncaught(t) \/ UNCHANGED Reporting!avars)
      BY <2>7, PopBufferMaps
    <3> QED
      BY <1>1, <3>1 DEF RInv, Reporting!Next
  <2> QED
    BY <2>1, <2>2, <2>3, <2>4, <2>5, <2>6, <2>7
<1> QED
  BY <1>2, <1>3

(* The refinement: with atomic map operations and identity equals(), every *)
(* behaviour of the three callbacks is one of the pending-record protocol *)
(* (spec P3, P4, P7), for every number of threads and exceptions, every   *)
(* capacity of the buffers and every pattern of collaborator failures.    *)
THEOREM RefinementHolds ==
    ASSUME ThreadSafeMaps, EqualsOverrides = {}
    PROVE  Spec => ImplementsReporting
<1>1. Init => RInv
  BY InitRInv
<1>2. Init => Reporting!Init
  BY InitMaps
<1>3. RInv /\ [Next]_vars => RInv' /\ [Reporting!Next]_Reporting!avars
  BY RefinementStep
<1> QED
  BY <1>1, <1>2, <1>3, PTL DEF Spec, ImplementsReporting, Reporting!Spec
=============================================================================

-------------------------- MODULE ExceptionReporting --------------------------
(***************************************************************************)
(* What the agent promises about the reports of a JVM's threads, with the  *)
(* maps, the buffers and the three steps of the end callback abstracted    *)
(* away (spec.md, "Events" and P3, P4, P7).  Each thread has at most one   *)
(* pending record: the exception it threw with no Java handler.  A report *)
(* is phrased "Caught" when it is made on a throw with a handler or on the *)
(* catch that resolves the pending record, and "Uncaught" when the pending *)
(* record is still there after the thread has ended.                      *)
(*                                                                         *)
(* Whether a report is made at all (class listing, deduplication, failed  *)
(* look-ups) is left open: every report step may also make none.  What is *)
(* fixed is which exception a report names, on which event, and that the  *)
(* pending record changes only on its own thread's throw, matching catch  *)
(* and end.                                                                *)
(***************************************************************************)
EXTENDS Sequences

CONSTANTS Threads, Exc, NoExc

VARIABLES
    reports,   \* the reports made, in order
    pending,   \* thread -> exception of its pending record, or NoExc
    flying,    \* thread -> exception being propagated in Java
    ended      \* thread -> whether the thread has ended

avars == <<reports, pending, flying, ended>>

NoFly == [exc |-> NoExc, known |-> FALSE]

Caught(t, e) == [thr |-> t, exc |-> e, caught |-> TRUE]
Uncaught(t, e) == [thr |-> t, exc |-> e, caught |-> FALSE]
-----------------------------------------------------------------------------
(* OnThrow: with a Java handler the exception may be reported as caught at *)
(* once; with none it may become the pending record, replacing the old.   *)
OnThrow(t, e, known) ==
    /\ ~ended[t] /\ flying[t] = NoFly
    /\ flying' = [flying EXCEPT ![t] = [exc |-> e, known |-> known]]
    /\ \/ UNCHANGED <<reports, pending>>
       \/ known /\ reports' = Append(reports, Caught(t, e)) /\ UNCHANGED pending
       \/ ~known /\ pending' = [pending EXCEPT ![t] = e] /\ UNCHANGED reports
    /\ UNCHANGED ended

(* OnCatch: only a catch of the pending record's own exception resolves    *)
(* it, possibly with a "Caught" report of it (P4); any other catch leaves *)
(* the record intact and reports nothing (P7).                            *)
OnCatch(t) ==
    /\ ~ended[t] /\ flying[t] # NoFly
    /\ flying' = [flying EXCEPT ![t] = NoFly]
    /\ \/ UNCHANGED <<reports, pending>>
       \/ /\ pending[t] = flying[t].exc
          /\ pending' = [pending EXCEPT ![t] = NoExc]
          /\ reports' \in {reports, Append(reports, Caught(t, flying[t].exc))}
    /\ UNCHANGED ended

(* Native code clears an exception no Java handler was found for.         *)
OnNativeClear(t) ==
    /\ ~ended[t] /\ flying[t] # NoFly /\ ~flying[t].known
    /\ flying' = [flying EXCEPT ![t] = NoFly]
    /\ UNCHANGED <<reports, pending, ended>>

(* The thread ends, normally or by its exception without a handler.       *)
OnThreadEnd(t) ==
    /\ ~ended[t] /\ ~flying[t].known
    /\ ended' = [ended EXCEPT ![t] = TRUE]
    /\ flying' = [flying EXCEPT ![t] = NoFly]
    /\ UNCHANGED <<reports, pending>>

(* After the end, the pending record is resolved, possibly by an           *)
(* "Uncaught" report of it (P3), and the thread is reported no more.      *)
ReportUncaught(t) ==
    /\ ended[t] /\ pending[t] # NoExc
    /\ pending' = [pending EXCEPT ![t] = NoExc]
    /\ reports' \in {reports, Append(reports, Uncaught(t, pending[t]))}
    /\ UNCHANGED <<flying, ended>>

Init ==
    /\ reports = <<>>
    /\ pending = [t \in Threads |-> NoExc]
    /\ flying = [t \in Threads |-> NoFly]
    /\ ended = [t \in Threads |-> FALSE]

Next ==
    \E t \in Threads :
        \/ \E e \in Exc, known \in BOOLEAN : OnThrow(t, e, known)
        \/ OnCatch(t)
        \/ OnNativeClear(t)
        \/ OnThreadEnd(t)
        \/ ReportUncaught(t)

Spec == Init /\ [][Next]_avars
=============================================================================

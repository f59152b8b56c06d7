------------------------- MODULE MC_ExceptionTracker -------------------------
(* Instances of ExceptionTracker for TLC: two threads and three exception *)
(* objects; two are of a class configured to be reported even when       *)
(* caught, so that the buffer of reported exceptions fills up.            *)
EXTENDS ExceptionTracker, TLC

CONSTANTS t1, t2, tid0, e1, e2, e3, Listed, Other

MCThreads == {t1, t2}
MCExc == {e1, e2, e3}
MCTypes == {Listed, Other}
MCTypeOf == [e \in MCExc |-> IF e = e3 THEN Other ELSE Listed]
MCReportedCaughtTypes == {Listed}

(* A class of e2 whose equals() holds of e1, as an override comparing the  *)
(* exceptions' messages would.                                             *)
MCEqualsOverrides == {<<e2, e1>>}

ThreadSymmetry == Permutations(MCThreads)
=============================================================================

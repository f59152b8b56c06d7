------------------------------ MODULE MC_DebugInfo ------------------------------
(* Configured lists of up to three entries, one of them without a '.', and *)
(* data of length 0 or 2: zero to three pairs can be collected, and a list *)
(* whose every method answers fills the vector to its terminator.         *)
EXTENDS DebugInfo, TLC

E(n) == [len |-> n, fqdn |-> TRUE]
MCConfigs == {<<>>, <<E(2)>>, <<E(2), E(3)>>,
              <<E(2), [len |-> 1, fqdn |-> FALSE], E(3)>>}
MCDataLens == {0, 2}
=============================================================================

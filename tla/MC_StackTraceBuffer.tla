------------------------- MODULE MC_StackTraceBuffer -------------------------
(* Lengths for TLC.  MAX_STACK_TRACE_STRING_LENGTH (10000) is scaled down   *)
(* to 40 with the pieces: a header of 12, exception lines of 3, 14 and 29   *)
(* and frames of 5 and 8 reach every offset near the end of the buffer, so *)
(* a piece fits, is one or two bytes too long, or far too long.            *)
EXTENDS StackTraceBuffer, TLC

MCHeadLens == {12}
MCExcLens == {3, 14, 29}
MCFrameLens == {5, 8}
=============================================================================

------------------------ MODULE StackTraceBuffer_proofs ------------------------
(***************************************************************************)
(* Proof that the stack-trace buffer is overrun only after a '\n' test has *)
(* read past the buffer, for every buffer size, header size, set of piece *)
(* lengths and bound.                                                     *)
(***************************************************************************)
EXTENDS StackTraceBuffer, SequenceTheorems, TLAPS

(* While no test has read past the buffer, the offset is inside it, no     *)
(* write went past it and every kept piece is whole.                      *)
InBounds ==
    ~oobRead => /\ off <= Max
                /\ ~oobWrite
                /\ \A i \in 1..Len(out) : out[i].whole

IInv == TypeOK /\ InBounds

LEMMA InitIInv == Init => IInv
<1> SUFFICES ASSUME Init PROVE IInv
  OBVIOUS
<1>1. out \in Seq(Piece) /\ Len(out) = 0
  BY EmptySeq DEF Init
<1>2. TypeOK
  <2>1. pc \in {"alloc", "exc", "frames", "cause", "done"}
    BY DEF Init
  <2>2. off \in Nat /\ level \in Nat /\ framesLeft \in Nat
    BY DEF Init
  <2>3. oobRead \in BOOLEAN /\ oobWrite \in BOOLEAN /\ result \in {"none", "NULL", "trace"}
    BY Zenon DEF Init
  <2>. QED BY <1>1, <2>1, <2>2, <2>3 DEF TypeOK
<1>3. InBounds
  <2>1. off <= Max
    BY StackTraceAssumption DEF Init
  <2>. QED BY <1>1, <2>1 DEF Init, InBounds
<1>. QED BY <1>2, <1>3 DEF IInv

(* Appending a piece keeps the sequence of pieces, and adds one element.  *)
LEMMA AppendPiece ==
    ASSUME NEW s \in Seq(Piece), NEW k \in {"head", "exc", "frame", "caused"},
           NEW w \in BOOLEAN
    PROVE  /\ Append(s, [kind |-> k, whole |-> w]) \in Seq(Piece)
           /\ Len(Append(s, [kind |-> k, whole |-> w])) = Len(s) + 1
           /\ \A i \in 1..Len(s) : Append(s, [kind |-> k, whole |-> w])[i] = s[i]
           /\ Append(s, [kind |-> k, whole |-> w])[Len(s) + 1].whole = w
<1>1. [kind |-> k, whole |-> w] \in Piece
  BY DEF Piece
<1>. QED BY <1>1, AppendProperties

(* The effect of one snprintf and its test on the invariant.              *)
LEMMA SnprintfStep ==
    ASSUME IInv, NEW len \in Nat \ {0}, NEW kind \in {"head", "exc", "frame", "caused"},
           NEW kept \in EndsInNewline(len), Snprintf(len, kind, kept)
    PROVE  /\ off' \in Nat /\ out' \in Seq(Piece)
           /\ oobRead' \in BOOLEAN /\ oobWrite' \in BOOLEAN
           /\ ~oobRead' => /\ off' <= Max /\ ~oobWrite'
                           /\ \A i \in 1..Len(out') : out'[i].whole
<1>1. CASE kept
  <2>1. off' = off + len /\ out' = Append(out, [kind |-> kind, whole |-> Whole(len)])
    BY <1>1 DEF Snprintf
  <2>2. ~oobRead' => ~oobRead /\ ~ReadsOutside(len)
    BY DEF Snprintf
  <2>3. ~oobRead' => Whole(len) /\ ~Huge
    <3>1. ~oobRead' => Whole(len)
      BY <1>1, <2>2, Zenon DEF EndsInNewline
    <3>2. ~oobRead => off <= Max
      BY DEF IInv, InBounds
    <3>3. off \in Nat
      BY DEF IInv, TypeOK
    <3>4. ~oobRead => ~Huge
      BY <3>2, <3>3, StackTraceAssumption DEF Huge, Avail
    <3>. QED BY <2>2, <3>1, <3>4
  <2>4. off \in Nat /\ out \in Seq(Piece)
    BY DEF IInv, TypeOK
  <2>5. ~oobRead' => off + len <= Max
    BY <2>3, <2>4, StackTraceAssumption DEF Whole, Huge, Avail
  <2>6. ~oobRead' => ~oobWrite'
    BY <2>2, <2>3 DEF Snprintf, IInv, InBounds
  <2>7. Whole(len) \in BOOLEAN
    BY DEF Whole
  <2>8. /\ out' \in Seq(Piece)
        /\ Len(out') = Len(out) + 1
        /\ \A i \in 1..Len(out) : out'[i] = out[i]
        /\ out'[Len(out) + 1].whole = Whole(len)
    BY <2>1, <2>4, <2>7, AppendPiece
  <2>9. ~oobRead' => \A i \in 1..Len(out') : out'[i].whole
    <3> SUFFICES ASSUME ~oobRead', NEW i \in 1..Len(out') PROVE out'[i].whole
      OBVIOUS
    <3>1. \A j \in 1..Len(out) : out[j].whole
      BY <2>2 DEF IInv, InBounds
    <3>2. Len(out) \in Nat
      BY <2>4
    <3>3. CASE i \in 1..Len(out)
      BY <2>8, <3>1, <3>3
    <3>4. CASE i = Len(out) + 1
      BY <2>3, <2>8, <3>4
    <3>. QED BY <2>8, <3>2, <3>3, <3>4
  <2>10. oobRead' \in BOOLEAN /\ oobWrite' \in BOOLEAN
    BY Zenon DEF Snprintf, IInv, TypeOK
  <2>. QED BY <2>1, <2>4, <2>5, <2>6, <2>8, <2>9, <2>10
<1>2. CASE ~kept
  <2>1. UNCHANGED <<off, out>>
    BY <1>2 DEF Snprintf
  <2>2. oobRead' \in BOOLEAN /\ oobWrite' \in BOOLEAN
    BY Zenon DEF Snprintf, IInv, TypeOK
  <2>3. ~oobRead' => ~oobRead
    BY Zenon DEF Snprintf
  <2>4. ~oobRead => off <= Max
    BY DEF IInv, InBounds
  <2>5. ~oobRead' => ~oobWrite'
    <3>1. ~oobRead => ~Huge
      BY <2>4, StackTraceAssumption DEF IInv, TypeOK, Huge, Avail
    <3>. QED BY <2>3, <3>1, Zenon DEF Snprintf, IInv, InBounds
  <2>. QED BY <2>1, <2>2, <2>3, <2>5 DEF IInv, InBounds, TypeOK
<1>. QED BY <1>1, <1>2

LEMMA IInvStep == IInv /\ [Next]_vars => IInv'
<1> SUFFICES ASSUME IInv, [Next]_vars PROVE IInv'
  OBVIOUS
<1>1. CASE Alloc
  <2>1. PICK ok \in CanFail, h \in HeadLens :
          IF ok THEN off' = h /\ out' = <<[kind |-> "head", whole |-> TRUE]>>
                     /\ pc' = "exc" /\ UNCHANGED result
                ELSE pc' = "done" /\ result' = "NULL" /\ UNCHANGED <<off, out>>
    BY <1>1 DEF Alloc
  <2>2. UNCHANGED <<level, framesLeft, oobRead, oobWrite>>
    BY <1>1 DEF Alloc
  <2>3. CASE ok
    <3>1. [kind |-> "head", whole |-> TRUE] \in Piece
      BY DEF Piece
    <3>2. out' = Append(<<>>, [kind |-> "head", whole |-> TRUE])
      BY <2>1, <2>3
    <3>3. out' \in Seq(Piece) /\ \A i \in 1..Len(out') : out'[i].whole
      BY <3>1, <3>2, EmptySeq, AppendProperties
    <3>4. off' \in Nat /\ off' <= Max
      BY <2>1, <2>3, StackTraceAssumption
    <3>5. pc' = "exc" /\ result' = result
      BY <2>1, <2>3
    <3>. QED BY <2>2, <3>3, <3>4, <3>5, Zenon DEF IInv, TypeOK, InBounds
  <2>4. CASE ~ok
    BY <2>1, <2>2, <2>4, Zenon DEF IInv, TypeOK, InBounds
  <2>. QED BY <2>3, <2>4
<1>2. CASE ExcLookupFails
  BY <1>2 DEF ExcLookupFails, ExceptionReturnedNothing, IInv, TypeOK, InBounds
<1>3. CASE ExcText
  <2>1. PICK len \in ExcLens, kept \in BOOLEAN, n \in 0..MaxFrames :
          /\ kept \in EndsInNewline(len)
          /\ Snprintf(len, "exc", kept)
          /\ IF kept THEN pc' = "frames" /\ framesLeft' = n /\ UNCHANGED result
             ELSE ExceptionReturnedNothing /\ UNCHANGED framesLeft
    BY <1>3 DEF ExcText
  <2>2. len \in Nat \ {0}
    BY StackTraceAssumption
  <2>3. pc' \in {"alloc", "exc", "frames", "cause", "done"} /\ framesLeft' \in Nat
        /\ result' \in {"none", "NULL", "trace"} /\ level' \in Nat
    BY <1>3, <2>1 DEF ExceptionReturnedNothing, ExcText, IInv, TypeOK
  <2>. QED BY <2>1, <2>2, <2>3, SnprintfStep DEF IInv, TypeOK, InBounds
<1>4. CASE FrameLookupFails
  BY <1>4 DEF FrameLookupFails, IInv, TypeOK, InBounds
<1>5. CASE FrameText
  <2>1. PICK len \in FrameLens, kept \in BOOLEAN :
          /\ kept \in EndsInNewline(len)
          /\ Snprintf(len, "frame", kept)
          /\ IF kept THEN framesLeft' = framesLeft - 1 /\ UNCHANGED pc
             ELSE pc' = "cause" /\ UNCHANGED framesLeft
    BY <1>5 DEF FrameText
  <2>2. len \in Nat \ {0}
    BY StackTraceAssumption
  <2>3. pc' \in {"alloc", "exc", "frames", "cause", "done"} /\ framesLeft' \in Nat
        /\ result' \in {"none", "NULL", "trace"} /\ level' \in Nat
    BY <1>5, <2>1 DEF FrameText, IInv, TypeOK
  <2>. QED BY <2>1, <2>2, <2>3, SnprintfStep DEF IInv, TypeOK, InBounds
<1>6. CASE FramesDone
  BY <1>6 DEF FramesDone, IInv, TypeOK, InBounds
<1>7. CASE NoCause
  BY <1>7 DEF NoCause, IInv, TypeOK, InBounds
<1>8. CASE CauseSkipped
  BY <1>8 DEF CauseSkipped, IInv, TypeOK, InBounds
<1>9. CASE CauseHeader
  <2>1. ~oobRead => off + CausedHdrLen <= Max
    BY <1>9, StackTraceAssumption DEF CauseHeader, HeaderFits, Huge, Avail, IInv, InBounds, TypeOK
  <2>2. out' \in Seq(Piece)
    BY <1>9 DEF CauseHeader, IInv, TypeOK, Piece
  <2>. QED BY <1>9, <2>1, <2>2, StackTraceAssumption DEF CauseHeader, IInv, TypeOK, InBounds
<1>10. CASE UNCHANGED vars
  BY <1>10 DEF vars, IInv, TypeOK, InBounds
<1>. QED BY <1>1, <1>2, <1>3, <1>4, <1>5, <1>6, <1>7, <1>8, <1>9, <1>10 DEF Next

(* Every value of the constants: the snprintf calls and the strcat of the *)
(* cause header in generate_thread_stack_trace overrun the buffer only    *)
(* after a '\n' test of print_stack_trace_element or                      *)
(* print_exception_stack_trace read past it.                              *)
THEOREM OverflowOnlyAfterOobReadHolds == Spec => []OverflowOnlyAfterOobRead
<1>1. IInv => OverflowOnlyAfterOobRead
  BY DEF IInv, InBounds, OverflowOnlyAfterOobRead, TypeOK
<1>. QED BY <1>1, InitIInv, IInvStep, PTL DEF Spec
=============================================================================

--------------------------- MODULE StackTraceBuffer ---------------------------
(***************************************************************************)
(* The write-offset arithmetic of generate_thread_stack_trace and the two  *)
(* functions it calls, print_exception_stack_trace and                    *)
(* print_stack_trace_element.  The trace is built in one calloc'ed buffer *)
(* of MAX_STACK_TRACE_STRING_LENGTH + 1 bytes: a thread header, the        *)
(* exception's toString(), one line per frame, then for every cause        *)
(* "Caused by: " and the cause's own lines.  Each piece is written by      *)
(* snprintf(buf + wrote, MAX - wrote, ...) and kept only if the byte at    *)
(* buf[wrote + ret - 1] is '\n'.                                          *)
(*                                                                         *)
(* A piece is its length: the properties are about offsets and about       *)
(* which pieces the code keeps, never about their characters.  The offset *)
(* "off" is absolute (the callee's relative "wrote" plus its base).  The   *)
(* buffer holds bytes 0..Max; a byte past Max is another heap object.      *)
(***************************************************************************)
EXTENDS Naturals, Integers, Sequences

CONSTANTS
    Max,           \* MAX_STACK_TRACE_STRING_LENGTH
    CausedHdrLen,  \* sizeof(CAUSED_STACK_TRACE_HEADER) - 1
    HeadLens,      \* lengths of "Exception in thread \"%s\" "
    ExcLens,       \* lengths of "%s\n" of an exception's toString()
    FrameLens,     \* lengths of "\tat %s [%s]\n" of a frame
    MaxFrames,     \* bound on the length of getStackTrace()'s array
    MaxCauses,     \* bound on the length of the getCause() chain
    Failures,      \* whether calloc and the JNI look-ups may fail
    OobNewline     \* whether a byte read past the buffer may be '\n'

ASSUME StackTraceAssumption ==
    /\ Max \in Nat \ {0}
    /\ CausedHdrLen \in Nat \ {0}
    /\ HeadLens \subseteq 1..(Max - 1)
    /\ ExcLens \subseteq Nat \ {0}
    /\ FrameLens \subseteq Nat \ {0}
    /\ MaxFrames \in Nat /\ MaxCauses \in Nat
    /\ Failures \in BOOLEAN /\ OobNewline \in BOOLEAN

VARIABLES
    pc,          \* "alloc", "exc", "frames", "cause" or "done"
    off,         \* the absolute write offset
    level,       \* 0 for the thrown exception, k for its k-th cause
    framesLeft,  \* frames of the current exception not yet printed
    out,         \* the pieces kept in the buffer, in order
    oobRead,     \* some buf[wrote-1] test read a byte past the buffer
    oobWrite,    \* some write went past the buffer
    result       \* "none", "NULL" or "trace": what the function returns

vars == <<pc, off, level, framesLeft, out, oobRead, oobWrite, result>>

Piece == [kind : {"head", "exc", "frame", "caused"}, whole : BOOLEAN]

TypeOK ==
    /\ pc \in {"alloc", "exc", "frames", "cause", "done"}
    /\ off \in Nat /\ level \in Nat /\ framesLeft \in Nat
    /\ out \in Seq(Piece)
    /\ oobRead \in BOOLEAN /\ oobWrite \in BOOLEAN
    /\ result \in {"none", "NULL", "trace"}

CanFail == IF Failures THEN BOOLEAN ELSE {TRUE}
-----------------------------------------------------------------------------
(* The max_length argument, MAX - wrote.  It is computed in int and passed *)
(* as size_t (unsigned in print_stack_trace_element): a negative value is  *)
(* a huge length, and snprintf then writes the whole text past the buffer. *)
Avail == Max - off
Huge == Avail < 0

(* snprintf wrote the whole text and its '\n'.                            *)
Whole(len) == Huge \/ len < Avail

(* stack_trace_str[wrote - 1] is byte off + len - 1, past the buffer.      *)
ReadsOutside(len) == ~Huge /\ off + len - 1 > Max

(* The outcomes of stack_trace_str[wrote - 1] == '\n'.  A whole text ends  *)
(* in its '\n'.  A truncated one reads byte Max - 1 (the NUL snprintf      *)
(* wrote) or byte Max (calloc's 0), or a byte past the buffer, whose value *)
(* is undefined.                                                          *)
EndsInNewline(len) ==
    IF Whole(len) THEN {TRUE}
    ELSE IF ReadsOutside(len) /\ OobNewline THEN BOOLEAN
    ELSE {FALSE}

(* One snprintf of a piece of the given length and the test after it: the *)
(* piece is kept (the offset advances by the return value) when the test  *)
(* finds '\n', and cleared otherwise.                                     *)
Snprintf(len, kind, kept) ==
    /\ oobRead' = (oobRead \/ ReadsOutside(len))
    /\ oobWrite' = (oobWrite \/ Huge)
    /\ IF kept
       THEN /\ off' = off + len
            /\ out' = Append(out, [kind |-> kind, whole |-> Whole(len)])
       ELSE UNCHANGED <<off, out>>

(* print_exception_stack_trace returned -1 or 0: for the thrown exception *)
(* the buffer is freed and NULL returned, for a cause the loop breaks.    *)
ExceptionReturnedNothing ==
    /\ pc' = "done"
    /\ result' = IF level = 0 THEN "NULL" ELSE "trace"

(* Mutant of HeaderFits: compared with sizeof(CAUSED_STACK_TRACE_HEADER)  *)
(* - 2, one byte short.                                                   *)
HeaderFitsShort == Huge \/ Avail >= CausedHdrLen - 1

(* The loop's test (size_t)(MAX - wrote) < sizeof(HEADER) - 1, negated.   *)
HeaderFits == Huge \/ Avail >= CausedHdrLen
-----------------------------------------------------------------------------
(* calloc of the buffer and the snprintf of the thread header, which always*)
(* fits (the thread name is at most 40 bytes).                            *)
Alloc ==
    /\ pc = "alloc"
    /\ \E ok \in CanFail, h \in HeadLens :
         IF ok
         THEN /\ off' = h
              /\ out' = <<[kind |-> "head", whole |-> TRUE]>>
              /\ pc' = "exc"
              /\ UNCHANGED result
         ELSE /\ pc' = "done" /\ result' = "NULL"
              /\ UNCHANGED <<off, out>>
    /\ UNCHANGED <<level, framesLeft, oobRead, oobWrite>>

(* print_exception_stack_trace: GetMethodID or CallObjectMethod of         *)
(* toString fails, and it returns -1.                                     *)
ExcLookupFails ==
    /\ pc = "exc"
    /\ FALSE \in CanFail
    /\ ExceptionReturnedNothing
    /\ UNCHANGED <<off, level, framesLeft, out, oobRead, oobWrite>>

(* The snprintf of "%s\n" and the test: a kept text is followed by the     *)
(* frames (none if the getStackTrace look-up fails); a cleared one makes  *)
(* the function return 0.                                                  *)
ExcText ==
    /\ pc = "exc"
    /\ \E len \in ExcLens, kept \in BOOLEAN, n \in 0..MaxFrames :
         /\ kept \in EndsInNewline(len)
         /\ Snprintf(len, "exc", kept)
         /\ IF kept
            THEN /\ pc' = "frames" /\ framesLeft' = n
                 /\ UNCHANGED result
            ELSE /\ ExceptionReturnedNothing
                 /\ UNCHANGED framesLeft
    /\ UNCHANGED level

(* The frame loop: print_stack_trace_element returns -1 on a failed look- *)
(* up, and the loop breaks.                                               *)
FrameLookupFails ==
    /\ pc = "frames" /\ framesLeft > 0
    /\ FALSE \in CanFail
    /\ pc' = "cause"
    /\ UNCHANGED <<off, level, framesLeft, out, oobRead, oobWrite, result>>

(* The snprintf of a frame and the test; a cleared frame returns 0 and the *)
(* loop breaks.                                                            *)
FrameText ==
    /\ pc = "frames" /\ framesLeft > 0
    /\ \E len \in FrameLens, kept \in BOOLEAN :
         /\ kept \in EndsInNewline(len)
         /\ Snprintf(len, "frame", kept)
         /\ IF kept
            THEN /\ framesLeft' = framesLeft - 1 /\ UNCHANGED pc
            ELSE /\ pc' = "cause" /\ UNCHANGED framesLeft
    /\ UNCHANGED <<level, result>>

(* The frame array is exhausted and the exception's lines are done.       *)
FramesDone ==
    /\ pc = "frames" /\ framesLeft = 0
    /\ pc' = "cause"
    /\ UNCHANGED <<off, level, framesLeft, out, oobRead, oobWrite, result>>

(* getCause() returns NULL, or a look-up or the call of getCause fails:   *)
(* the trace is returned.                                                 *)
NoCause ==
    /\ pc = "cause"
    /\ pc' = "done" /\ result' = "trace"
    /\ UNCHANGED <<off, level, framesLeft, out, oobRead, oobWrite>>

(* A cause, but the header would not fit: the loop breaks.                *)
CauseSkipped ==
    /\ pc = "cause" /\ level < MaxCauses
    /\ ~HeaderFits
    /\ pc' = "done" /\ result' = "trace"
    /\ UNCHANGED <<off, level, framesLeft, out, oobRead, oobWrite>>

(* strcat of "Caused by: " at the offset (its NUL lands on byte            *)
(* off + CausedHdrLen), then the cause's own print_exception_stack_trace. *)
CauseHeader ==
    /\ pc = "cause" /\ level < MaxCauses
    /\ HeaderFits
    /\ oobWrite' = (oobWrite \/ off + CausedHdrLen > Max)
    /\ off' = off + CausedHdrLen
    /\ out' = Append(out, [kind |-> "caused", whole |-> TRUE])
    /\ level' = level + 1
    /\ pc' = "exc"
    /\ UNCHANGED <<framesLeft, oobRead, result>>

Init ==
    /\ pc = "alloc" /\ off = 0 /\ level = 0 /\ framesLeft = 0
    /\ out = <<>> /\ oobRead = FALSE /\ oobWrite = FALSE /\ result = "none"

Next ==
    \/ Alloc \/ ExcLookupFails \/ ExcText
    \/ FrameLookupFails \/ FrameText \/ FramesDone
    \/ NoCause \/ CauseSkipped \/ CauseHeader

Spec == Init /\ [][Next]_vars
-----------------------------------------------------------------------------
(* Neither snprintf nor the strcat of the cause header writes past the    *)
(* buffer unless an earlier '\n' test read past it.                       *)
OverflowOnlyAfterOobRead == oobWrite => oobRead

(* No heap buffer overflow while the trace is generated.                  *)
NoHeapOverflow == ~oobWrite

=============================================================================

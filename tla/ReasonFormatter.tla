---------------------------- MODULE ReasonFormatter ----------------------------
(***************************************************************************)
(* The reason message of a report: format_exception_reason_message and    *)
(* the class names it is given, made by format_class_name from JVM class  *)
(* signatures ("Lcom/x/Foo;").  The message is                            *)
(*   "<Caught|Uncaught> exception <exc> in method <cls>.<method>()"        *)
(* rendered by snprintf into MaxLen bytes; while it does not fit, the      *)
(* loop drops the class's name space, then the exception's, then the      *)
(* class, re-rendering after each step.                                   *)
(*                                                                         *)
(* A name is a sequence of characters over a small alphabet; the fixed     *)
(* words of the message are runs of a filler character of their real       *)
(* length (they hold no '.', and only the length of the message and the   *)
(* '.'s of the names drive the loop).  MaxLen scales                       *)
(* MAX_REASON_MESSAGE_STRING_LENGTH down with the names.                   *)
(***************************************************************************)
EXTENDS Naturals, Sequences, SequencesExt

CONSTANTS
    MaxLen,           \* MAX_REASON_MESSAGE_STRING_LENGTH
    ClassSigs,        \* signatures of declaring classes
    ExcSigs,          \* signatures of exception classes
    Methods,          \* method names
    NullTypeName,     \* whether get_exception_type_name may return NULL
    Null              \* a NULL char pointer

(* The character '\0' as a replace_to argument.                          *)
NUL == "NUL"

(* The characters of a name; the ones the formatter writes are named.     *)
Char == STRING \cup {".", "/", NUL}

ASSUME FormatterAssumption ==
    /\ MaxLen \in Nat \ {0}
    /\ NullTypeName \in BOOLEAN
    /\ Null \notin Seq(Char)
    /\ ClassSigs \subseteq Seq(Char) /\ ExcSigs \subseteq Seq(Char)

VARIABLES
    caller,       \* "throw" (callback_on_exception) or "catch"
    caught,       \* the caught argument
    excName,      \* exception_name, the pointer the loop shortens
    className,    \* class_name, the pointer the loop shortens
    method,       \* method
    message,      \* the buffer's contents, or Null
    pc,           \* "alloc", "format", "done" or "crash"
    exc0, cls0    \* the arguments as passed, for the reference

vars == <<caller, caught, excName, className, method, message, pc, exc0, cls0>>

Filler(n) == [i \in 1..n |-> "w"]

-----------------------------------------------------------------------------
(* format_class_name(sig, replace_to): skip a leading 'L', turn every '/'  *)
(* into '.', replace a final ';' by replace_to.  With replace_to = '\0'    *)
(* the C string ends there.                                               *)
FormatClassName(sig, replaceTo) ==
    LET body   == IF sig # <<>> /\ Head(sig) = "L" THEN Tail(sig) ELSE sig
        dotted == ReplaceAll(body, "/", ".")
    IN IF dotted # <<>> /\ Last(sig) = ";"
       THEN IF replaceTo = NUL THEN Front(dotted)
            ELSE Front(dotted) \o <<replaceTo>>
       ELSE dotted


(* callback_on_exception: format_class_name(sig, '.') and then the removal *)
(* of the last character, whatever it is.                                 *)
ThrowClassName(sig) ==
    LET n == FormatClassName(sig, ".") IN IF n # <<>> THEN Front(n) ELSE n

(* callback_on_exception_catch: format_class_name(sig, '\0').             *)
CatchClassName(sig) == FormatClassName(sig, NUL)

(* get_exception_type_name: format_class_name(sig, '\0') copied to the     *)
(* start of the buffer, or NULL when the class signature lookup fails.    *)
TypeNames ==
    {FormatClassName(s, NUL) : s \in ExcSigs} \cup
        (IF NullTypeName THEN {Null} ELSE {})

(* snprintf's "%s" of a NULL pointer, as glibc prints it.                  *)
Text(s) == IF s = Null THEN Filler(6) ELSE s

(* The snprintf of the message: the full rendering, whose length is the    *)
(* return value, and the first MaxLen - 1 characters that are stored.     *)
Render(c, ex, cl, m) ==
    Filler(IF c THEN 6 ELSE 8) \o Filler(11) \o Text(ex) \o Filler(11) \o cl
        \o (IF cl # <<>> THEN <<".">> ELSE <<>>) \o m \o Filler(2)
Stored(s) == SubSeq(s, 1, IF Len(s) < MaxLen THEN Len(s) ELSE MaxLen - 1)

IsDot(ch) == ch = "."

(* Mutant of AfterLastDot: the pointer is left on the '.'.               *)
AfterLastDotKeepDot(s) ==
    LET i == SelectLastInSeq(s, IsDot) IN SubSeq(s, i, Len(s))

(* ptr + 1 for ptr = strrchr(s, '.') /= NULL.                              *)
AfterLastDot(s) ==
    LET i == SelectLastInSeq(s, IsDot) IN SubSeq(s, i + 1, Len(s))

HasDot(s) == SelectLastInSeq(s, IsDot) # 0

(* Mutant of Fits: the test of the length against the buffer size is off  *)
(* by one.                                                                *)
FitsLoose(len) == len <= MaxLen

(* The loop's exit test: message_len < MAX_REASON_MESSAGE_STRING_LENGTH.   *)
Fits(len) == len < MaxLen
-----------------------------------------------------------------------------
(* calloc(MAX_REASON_MESSAGE_STRING_LENGTH + 1): NULL makes the function   *)
(* return NULL, and the caller falls back to a fixed message.             *)
Alloc ==
    /\ pc = "alloc"
    /\ \/ pc' = "format"
       \/ pc' = "done"
    /\ UNCHANGED <<caller, caught, excName, className, method, message, exc0, cls0>>

(* One pass of the loop: render, and return if it fits.                   *)
Return ==
    /\ pc = "format"
    /\ Fits(Len(Render(caught, excName, className, method)))
    /\ message' = Stored(Render(caught, excName, className, method))
    /\ pc' = "done"
    /\ UNCHANGED <<caller, caught, excName, className, method, exc0, cls0>>

(* It does not fit and the class has a name space: drop it.               *)
DropClassNameSpace ==
    /\ pc = "format"
    /\ ~Fits(Len(Render(caught, excName, className, method)))
    /\ HasDot(className)
    /\ className' = AfterLastDot(className)
    /\ UNCHANGED <<caller, caught, excName, method, message, pc, exc0, cls0>>

(* strrchr(exception_name, '.') with exception_name NULL: the process dies.*)
NullDeref ==
    /\ pc = "format"
    /\ ~Fits(Len(Render(caught, excName, className, method)))
    /\ ~HasDot(className)
    /\ excName = Null
    /\ pc' = "crash"
    /\ UNCHANGED <<caller, caught, excName, className, method, message, exc0, cls0>>

(* The class has none: drop the exception's name space.                   *)
DropExceptionNameSpace ==
    /\ pc = "format"
    /\ ~Fits(Len(Render(caught, excName, className, method)))
    /\ ~HasDot(className)
    /\ excName # Null /\ HasDot(excName)
    /\ excName' = AfterLastDot(excName)
    /\ UNCHANGED <<caller, caught, className, method, message, pc, exc0, cls0>>

(* Neither has one: drop the class name.                                  *)
DropClassName ==
    /\ pc = "format"
    /\ ~Fits(Len(Render(caught, excName, className, method)))
    /\ ~HasDot(className) /\ excName # Null /\ ~HasDot(excName)
    /\ className # <<>>
    /\ className' = <<>>
    /\ UNCHANGED <<caller, caught, excName, method, message, pc, exc0, cls0>>

(* Nothing is left to drop: the message stays truncated.                  *)
ReturnTruncated ==
    /\ pc = "format"
    /\ ~Fits(Len(Render(caught, excName, className, method)))
    /\ ~HasDot(className) /\ excName # Null /\ ~HasDot(excName)
    /\ className = <<>>
    /\ message' = Stored(Render(caught, excName, className, method))
    /\ pc' = "done"
    /\ UNCHANGED <<caller, caught, excName, className, method, exc0, cls0>>

(* The two callers.  callback_on_exception passes the looked-up type name  *)
(* (NULL if the lookup failed) and caught = (catch_method != NULL);        *)
(* callback_on_exception_catch passes caught = 1 and a type name that is   *)
(* not NULL (exception_is_intended_to_be_reported returned true).          *)
Init ==
    /\ \E cs \in ClassSigs, m \in Methods :
         \/ /\ caller = "throw" /\ caught \in BOOLEAN /\ excName \in TypeNames
            /\ className = ThrowClassName(cs)
         \/ /\ caller = "catch" /\ caught = TRUE /\ excName \in TypeNames \ {Null}
            /\ className = CatchClassName(cs)
       /\ method = m
    /\ message = Null
    /\ pc = "alloc"
    /\ exc0 = excName /\ cls0 = className

Next ==
    \/ Alloc \/ Return \/ DropClassNameSpace \/ NullDeref
    \/ DropExceptionNameSpace \/ DropClassName \/ ReturnTruncated

(* The function never waits: once called it keeps running.                *)
Spec == Init /\ [][Next]_vars /\ WF_vars(Next)
-----------------------------------------------------------------------------
(* Spec 4.4: a name without its name space is its longest suffix with no  *)
(* '.'.                                                                   *)
DotFree(s) == \A i \in 1..Len(s) : s[i] # "."
StripNameSpace(s) ==
    IF s = Null THEN s
    ELSE CHOOSE x \in Suffixes(s) \cup {s} :
           /\ DotFree(x)
           /\ \A y \in Suffixes(s) \cup {s} : DotFree(y) => Len(y) <= Len(x)

(* Spec 4.4, the four messages in the order the spec tries them: the full *)
(* one, the class's name space stripped, also the exception's, no class.  *)
Candidates(c, ex, cl, m) ==
    <<Render(c, ex, cl, m), Render(c, ex, StripNameSpace(cl), m),
      Render(c, StripNameSpace(ex), StripNameSpace(cl), m),
      Render(c, StripNameSpace(ex), <<>>, m)>>

(* Spec 4.4, the reference: the first of the candidates that fits; else   *)
(* the last one truncated.                                                *)
ReferenceMessage(c, ex, cl, m) ==
    LET Cands == Candidates(c, ex, cl, m)
        fit == {i \in 1..3 : Len(Cands[i]) < MaxLen}
        best == IF fit = {} THEN 4 ELSE CHOOSE i \in fit : \A j \in fit : i <= j
    IN Stored(Cands[best])

(* The message format_exception_reason_message returns is the one the     *)
(* spec's fixed shortening order gives, whenever it returns a message.    *)
MessageAsSpecified ==
    pc = "done" /\ message # Null => message = ReferenceMessage(caught, exc0, cls0, method)

(* The shortening loop of format_exception_reason_message ends.           *)
FormatterTerminates == <>(pc \in {"done", "crash"})

(* The formatter never dereferences a NULL name (spec 4.4: it never fails).*)
NoNullDereference == pc # "crash"

=============================================================================

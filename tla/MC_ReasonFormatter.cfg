\* The message and the class names for every input, and the loop's end.
CONSTANTS
    Null = Null
    MaxLen = 36
    ClassSigs <- MCClassSigs
    ExcSigs <- MCExcSigs
    Methods <- MCMethods
    NullTypeName = TRUE
SPECIFICATION Spec
\* format_exception_reason_message returns: nothing runs after it.
CHECK_DEADLOCK FALSE
INVARIANT MessageAsSpecified
PROPERTY FormatterTerminates

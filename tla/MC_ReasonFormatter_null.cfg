\* A failed type-name lookup leaves exception_name NULL for the loop.
CONSTANTS
    Null = Null
    MaxLen = 36
    ClassSigs <- MCClassSigs
    ExcSigs <- MCExcSigs
    Methods <- MCMethods
    NullTypeName = TRUE
SPECIFICATION Spec
\* format_exception_reason_message returns: nothing runs after it.
CHECK_DEADLOCK FALSE
INVARIANT NoNullDereference

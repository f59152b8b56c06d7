CONSTANTS
    Configs <- MCConfigs
    DataLens <- MCDataLens
    Failures = FALSE
    NullResults = FALSE
SPECIFICATION Spec
CHECK_DEADLOCK FALSE
INVARIANT NoStringOverflow

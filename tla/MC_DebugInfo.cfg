CONSTANTS
    Configs <- MCConfigs
    DataLens <- MCDataLens
    Failures = TRUE
    NullResults = TRUE
SPECIFICATION Spec
CHECK_DEADLOCK FALSE
INVARIANT VectorWithinAllocation
INVARIANT VectorMatchesCalls

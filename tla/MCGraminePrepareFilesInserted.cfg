SPECIFICATION Spec
CONSTANTS
    Inputs <- MCAllInputs
    MaxRuns = 1
INVARIANT FilesInserted
CHECK_DEADLOCK FALSE

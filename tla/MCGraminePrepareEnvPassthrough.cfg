SPECIFICATION Spec
CONSTANTS
    Inputs <- MCAllInputs
    MaxRuns = 1
INVARIANT EnvPassthrough
CHECK_DEADLOCK FALSE

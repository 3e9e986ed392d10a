SPECIFICATION Spec
CONSTANTS
    Inputs <- MCRerunInputs
    MaxRuns = 3
INVARIANT OriginalRecoverable
CHECK_DEADLOCK FALSE

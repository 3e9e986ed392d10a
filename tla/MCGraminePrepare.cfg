SPECIFICATION Spec
CONSTANTS
    Inputs <- MCAllInputs
    MaxRuns = 1
INVARIANT TypeOK ResourcesPrepared NoPanicWellTyped
CHECK_DEADLOCK FALSE

SPECIFICATION Spec
CONSTANTS
    Blocks <- BlockSet
    WaitTims <- ResetWaitTims
    OVERLAP = 2
INVARIANTS
    ShadowInStep

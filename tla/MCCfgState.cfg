SPECIFICATION Spec
CONSTANTS
    Blocks <- BlockSet
    WaitTims <- ResetWaitTims
    OVERLAP = 2
INVARIANTS
    TypeOK
    RegistersFollow
    ReportCurrent

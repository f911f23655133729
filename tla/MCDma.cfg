SPECIFICATION Spec
CONSTANTS
    Paces = {TRUE, FALSE}
    FRAMES = 5
INVARIANTS
    TypeOK
    NoFrameLost
    DoneBufHoldsLastFrame
    NoInterruptLost
    NeverTorn
    HandledAtMostTwice
PROPERTIES
    EveryFrameQueued
    InterruptsServed

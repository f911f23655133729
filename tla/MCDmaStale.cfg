SPECIFICATION Spec
CONSTANTS
    Paces = {FALSE}
    FRAMES = 3
INVARIANT
    NoStaleCopy

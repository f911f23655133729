SPECIFICATION Spec
CONSTANTS
    Pcbs = {pcb1, pcb2}
    NULL = NULL
    RETRY_INTERVAL = 1
    CONNECT_TIMEOUT = 3
    TICKS = 7
INVARIANT
    AbortsHeldPcb

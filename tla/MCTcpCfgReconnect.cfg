SPECIFICATION Spec
CONSTANTS
    Byte = {0, 1, 2}
    g_cfg_magic_be <- MagicBytes
    TCP_CFG_RX_BUF_SIZE = 6
    TCP_CFG_MAX_PAYLOAD_LEN = 1
    STREAM = 8
    CONNECTIONS = 2
INVARIANTS
    FrameOfOneConnection
CHECK_DEADLOCK FALSE

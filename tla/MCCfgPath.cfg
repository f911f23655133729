SPECIFICATION Spec
CONSTANTS
    Byte = {0, 1, 2}
    g_cfg_magic_be <- MagicBytes
    TCP_CFG_RX_BUF_SIZE = 6
    TCP_CFG_MAX_PAYLOAD_LEN = 1
    Blocks <- BlockSet
    WaitTims <- ResetWaitTims
    OVERLAP = 2
    WRITE_BLOCK = 1
    BLOCK_LEN = 1
    Decode <- BlockDecoded
    Streams <- MCStreams
    CONNECTIONS = 2
INVARIANT
    ConfigAsStreamed

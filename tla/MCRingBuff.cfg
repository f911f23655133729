SPECIFICATION Spec
CONSTANTS
    DEPTH = 3
    PAYLOAD_MAX = 3
    HEADER_LEN = 8
    BYTE = 4
    U16 = 16
    U32 = 2
    MAGIC = 201
    NULL = NULL
    p1 = p1
    p2 = p2
    Payloads <- MCPayloads
    PushLens <- MCPushLens
INVARIANTS
    TypeOK
    RingShape
    IdsConsecutive
    WireHeader
    ViewFaithful
PROPERTIES
    ViewStable
    RefinesQueue

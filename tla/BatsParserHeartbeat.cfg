CONSTANTS
    WORD = 8
    HDR = 8
    BUF_BYTES = 72
    SEQ_RANGE = 4
    Datagrams <- HeartbeatFeed
    CutShort = {}
    MaxDatagrams = 2
    MaxResets = 0
SPECIFICATION FairSpec
INVARIANT ReadyForNextUnit

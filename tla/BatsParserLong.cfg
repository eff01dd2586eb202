CONSTANTS
    WORD = 8
    HDR = 8
    BUF_BYTES = 72
    SEQ_RANGE = 4
    Datagrams <- LongFeed
    MaxDatagrams = 1
    MaxResets = 0
    CutShort = {}
SPECIFICATION FairSpec
PROPERTIES AllParsed

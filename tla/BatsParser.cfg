CONSTANTS
    WORD = 8
    HDR = 8
    BUF_BYTES = 72
    SEQ_RANGE = 4
    Datagrams <- AllFeeds
    CutShort <- MixedFeed
    MaxDatagrams = 2
    MaxResets = 1
SPECIFICATION FairSpec
INVARIANT BufferBounded
PROPERTIES EmitsWhatIsDue RecvTimeOfOwnDatagram AllParsed

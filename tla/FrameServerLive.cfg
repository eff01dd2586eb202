CONSTANTS
    Fifos = {cmd, debug}
    Clients = {c1}
    QUEUE_MAX = 2
    MaxFrames = 2
    Servers = {"poc_server", "fifo_server.py"}
    NoOne = NoOne
SPECIFICATION FairSpec
INVARIANT NeverFurtherBehind
PROPERTIES PollersNeverWait StopEnds Delivered
CHECK_DEADLOCK FALSE

CONSTANTS
    Fifos = {cmd, debug}
    Clients = {c1, c2}
    QUEUE_MAX = 2
    MaxFrames = 2
    Servers = {"poc_server"}
    NoOne = NoOne
SPECIFICATION Spec
SYMMETRY Renaming
INVARIANTS QueueBounded StreamOrdered CleanStart NothingLost QuietExit ClosedForgotten
CHECK_DEADLOCK FALSE

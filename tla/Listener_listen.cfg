SPECIFICATION ListenSpec
CONSTANTS
    MaxPeers = 2
    MaxConnections = 1
    GiveUpAfter = 2
INVARIANTS QuietAfterStop
PROPERTIES BindFaultEnds MessagesProcessed StopEnds
CHECK_DEADLOCK FALSE

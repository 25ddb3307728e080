SPECIFICATION Spec
CONSTANTS
    a = a
    b = b
    c = c
    Peer = {a, b, c}
    NoPeer = NoPeer
    Faulty = {}
    Misuse <- NoMisuse
    MaxFaults = 0
    NumMsg = 1
    Timeouts = TRUE
    ServerPublish = FALSE
PROPERTIES SilentAreRemoved
CHECK_DEADLOCK FALSE

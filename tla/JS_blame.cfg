SPECIFICATION Spec
CONSTANTS
    a = a
    b = b
    c = c
    Peer = {a, b, c}
    NoPeer = NoPeer
    Faulty = {c}
    Misuse <- Blamed
    MaxFaults = 3
    NumMsg = 1
    Timeouts = FALSE
    ServerPublish = FALSE
SYMMETRY Symmetry
INVARIANTS HonestStay
CHECK_DEADLOCK FALSE

SPECIFICATION Spec
CONSTANTS
    a = a
    b = b
    c = c
    Peer = {a, b, c}
    NoPeer = NoPeer
    Faulty = {a, b, c}
    Misuse <- Anything
    MaxFaults = 1
    NumMsg = 1
    Timeouts = TRUE
    ServerPublish = FALSE
SYMMETRY Symmetry
INVARIANTS TypeOK RoundData PublishedIsSigned PublisherPresent
CHECK_DEADLOCK FALSE

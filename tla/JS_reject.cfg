SPECIFICATION FairSpec
CONSTANTS
    a = a
    b = b
    c = c
    Peer = {a, b, c}
    NoPeer = NoPeer
    Faulty = {c}
    Misuse <- Rejected
    MaxFaults = 1
    NumMsg = 1
    Timeouts = FALSE
    ServerPublish = TRUE
INVARIANTS LockHolderRuns KeysComplete CompletedIsSigned
PROPERTIES RoundsInOrder RestartRemoves Finishes
CHECK_DEADLOCK FALSE

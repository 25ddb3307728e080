\* Four peers, two of which may be lost, sessions of two: two of them one
\* after the other, or a larger one.
SPECIFICATION FairSpec
CONSTANTS
    a = a
    b = b
    c = c
    d = d
    NoPeer = NoPeer
    Peer = {a, b, c, d}
    Leaver = {a, b}
    MinParticipants = 2
INVARIANTS TypeOK TimerRuns
PROPERTIES GoneAreNotPut Matches Starts
CHECK_DEADLOCK FALSE

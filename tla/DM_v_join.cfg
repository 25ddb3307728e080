\* A client goes away while its session is being made.
SPECIFICATION FairSpec
CONSTANTS
    a = a
    b = b
    c = c
    d = d
    NoPeer = NoPeer
    Peer = {a, b, c}
    Leaver = {a}
    MinParticipants = 2
PROPERTIES JoinStarts
CHECK_DEADLOCK FALSE

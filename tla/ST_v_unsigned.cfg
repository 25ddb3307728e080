\* A client goes away between its transaction and its signature.
SPECIFICATION Spec
CONSTANTS
    p1 = p1
    p2 = p2
    p3 = p3
    NoOne = NoOne
    Participant = {p1, p2, p3}
    NumIn <- Slots
    Leaver = {p1}
    Careless = {}
    MaxLeaves = 1
    Timeouts = FALSE
    RandomIndex = TRUE
INVARIANTS FullTransaction
CHECK_DEADLOCK FALSE

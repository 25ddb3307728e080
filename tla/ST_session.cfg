\* Three participants, four slots, one client that may go away, one that may
\* sign something else, timeouts.
SPECIFICATION FairSpec
CONSTANTS
    p1 = p1
    p2 = p2
    p3 = p3
    NoOne = NoOne
    Participant = {p1, p2, p3}
    NumIn <- Slots
    Leaver = {p1, p2}
    Careless = {p3}
    MaxLeaves = 1
    Timeouts = TRUE
    RandomIndex = TRUE
INVARIANTS TypeOK OwnSlots AnswersAreAwaited PublishedIsSigned
PROPERTIES StepsTogether Finishes
CHECK_DEADLOCK FALSE

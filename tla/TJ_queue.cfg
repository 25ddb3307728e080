\* Four clients, two of which may go away, sessions of two: up to two full ones,
\* smaller ones after a client has left, shutdown at any time.
SPECIFICATION FairSpec
CONSTANTS
    Participant = {1, 2, 3, 4}
    Leaver = {1, 2}
    MinParticipants = 2
    CompleteJoin = TRUE
INVARIANTS TypeOK AnswersAreAwaited
PROPERTIES Matches Served Stops
CHECK_DEADLOCK FALSE

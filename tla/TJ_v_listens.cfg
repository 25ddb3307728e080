\* Sessions of two clients, one after the other: two that end, a third that is
\* made, and one client more.
SPECIFICATION PairsSpec
CONSTANTS
    Participant = {1, 2, 3, 4, 5, 6, 7}
    Leaver = {}
    MinParticipants = 2
    CompleteJoin = TRUE
PROPERTIES Listens
CHECK_DEADLOCK FALSE

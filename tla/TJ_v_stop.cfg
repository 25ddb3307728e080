\* A session is over, another one runs, the server is told to stop.
SPECIFICATION Spec
CONSTANTS
    Participant = {1, 2, 3, 4}
    Leaver = {}
    MinParticipants = 2
    CompleteJoin = TRUE
PROPERTIES WaitsForSessions
CHECK_DEADLOCK FALSE

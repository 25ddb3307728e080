\* Three peers with four messages in a field of five elements, one of which may
\* send a wrong first or second vector, a wrong key, or a complaint without reason.
SPECIFICATION SpecOwnPaddings
CONSTANTS
    Prime = 5
    NumMsg <- MixedNumbers
    Hashes = {1, 2, 3, 4}
    Paddings = {1, 3, 4}
    Errors = {0, 1}
INVARIANTS SolverIsRight HonestMix SomebodyIsBlamed HonestAreNotBlamed
CHECK_DEADLOCK FALSE

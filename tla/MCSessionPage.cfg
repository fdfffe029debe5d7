SPECIFICATION Spec
CONSTANTS
    Slots = {1, 2, 3}
    MaxPresses = 2
    MaxUpsets = 1
    MaxVotes = 1
INVARIANTS
    TypeOK
    SettledShowsServer
    FinalTallyIsComplete
PROPERTIES
    RunningIsCorrected
CHECK_DEADLOCK FALSE

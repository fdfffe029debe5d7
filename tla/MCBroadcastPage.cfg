SPECIFICATION Spec
CONSTANTS
    People = {p1, p2}
    Slots = {1, 2, 3}
    MaxJobs = 2
    MaxUpsets = 1
    MaxPresses = 2
INVARIANTS
    TypeOK
    RemindedOnce
PROPERTIES
    QueuedIsDone
CHECK_DEADLOCK FALSE

SPECIFICATION Spec
CONSTANTS
    People = {p1, p2}
    Slots = {1, 2, 3}
    MaxJobs = 2
    MaxUpsets = 1
    MaxPresses = 4
PROPERTIES
    LoadsOnMount
CHECK_DEADLOCK FALSE

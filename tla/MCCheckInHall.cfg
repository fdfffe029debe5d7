SPECIFICATION Spec
CONSTANTS
    People = {p1, p2}
    None = None
    Slots = {1, 2}
    MaxPresses = 4
    UsedFilters = {"ALL", "PRESENT"}
SYMMETRY Symmetry
INVARIANTS
    TypeOK
    OutcomeIsOfLastBadge
    TableMatchesFilter
CHECK_DEADLOCK FALSE

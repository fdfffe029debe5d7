SPECIFICATION Spec
CONSTANTS
    Participants = {p1}
    Candidates = {c1}
    Requests = {r1}
    Desks = {d1}
    Admins = {a1}
    Nobody = Nobody
    Blank = Blank
    MaxEdits = 0
    ReadsMayFail = FALSE
PROPERTIES
    BallotsOnlyWhileRunning
CHECK_DEADLOCK FALSE

SPECIFICATION Spec
CONSTANTS
    Participants = {p1}
    Candidates = {c1}
    Requests = {r1}
    Desks = {d1}
    Admins = {a1, a2}
    Nobody = Nobody
    Blank = Blank
    MaxEdits = 0
    ReadsMayFail = FALSE
PROPERTIES
    ClosedNeverRunsAgain
CHECK_DEADLOCK FALSE

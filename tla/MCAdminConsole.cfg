SPECIFICATION Spec
CONSTANTS
    People = {p1, p2}
    None = None
    Slots = {1, 2}
    MaxPresses = 6
SYMMETRY Symmetry
INVARIANTS
    TypeOK
    DetailIsOnePerson
    OneCandidatePerForm
    ReasonIsForApplicant
    SettledShowsCandidate
CHECK_DEADLOCK FALSE

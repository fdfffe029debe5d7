SPECIFICATION Spec
CONSTANTS
    Participants = {p1, p2}
    Candidates = {c1}
    Requests = {r1, r2}
    Desks = {d1}
    Admins = {a1}
    Nobody = Nobody
    Blank = Blank
    MaxEdits = 1
    ReadsMayFail = FALSE
SYMMETRY Symmetry
INVARIANTS
    TypeOK
    BallotsMatchReceipts
    ReceiptsAreOfAdmitted
    BallotsAreForSlate
    SummaryAccountsForReceipts
PROPERTIES
    VotesAreKept
    LateBallotsWereInFlight
CHECK_DEADLOCK FALSE

SPECIFICATION FairSpec
CONSTANTS
    Participants = {p1}
    Candidates = {c1}
    Requests = {r1, r2}
    Desks = {d1}
    Admins = {a1, a2}
    Nobody = Nobody
    Blank = Blank
    MaxEdits = 2
    ReadsMayFail = TRUE
INVARIANTS
    TypeOK
    BallotsMatchReceipts
    ReceiptsAreOfAdmitted
    BallotsAreForSlate
    SummaryAccountsForReceipts
PROPERTIES
    VotesAreKept
    LateBallotsWereInFlight
    ImplementsBallotBox
    CountSettles
CHECK_DEADLOCK FALSE

SPECIFICATION Spec
CONSTANTS
    Ids = {i1, i2, i3}
    Emails = {e1}
    Visitors = {v1, v2}
    Officers = {o1, o2}
    MaxRequests = 4
    Modes = {"ALLOW", "CLOSE", "WAITING_LIST"}
    Limit = 1
    WaitCapacity = 1
    Connections = 3
    Temp = Temp
    Nobody = Nobody
    MaxEdits = 1
SYMMETRY Symmetry
INVARIANTS
    TypeOK
    QuotaHolds
    WaitingListHolds
    NumbersDistinct
    ApprovedCarryNumber
    StandStillIsOfThePool
PROPERTIES
    GivenNumbersStand
CHECK_DEADLOCK FALSE

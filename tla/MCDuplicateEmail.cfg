SPECIFICATION Spec
CONSTANTS
    Ids = {i1, i2}
    Emails = {e1, e2}
    Visitors = {v1, v2}
    Officers = {}
    Modes = {"CLOSE"}
    Limit = 2
    WaitCapacity = 0
    Connections = 3
    MaxRequests = 4
    Temp = Temp
    Nobody = Nobody
    MaxEdits = 0
INVARIANTS
    EmailsUnique
CHECK_DEADLOCK FALSE

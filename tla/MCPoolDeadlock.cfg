SPECIFICATION FairSpec
CONSTANTS
    Ids = {i1, i2}
    Emails = {e1, e2}
    Visitors = {v1, v2}
    Officers = {}
    Modes = {"CLOSE"}
    Limit = 2
    WaitCapacity = 0
    Connections = 2
    MaxRequests = 4
    Temp = Temp
    Nobody = Nobody
    MaxEdits = 0
PROPERTIES
    RequestsFinish
CHECK_DEADLOCK FALSE

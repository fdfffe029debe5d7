SPECIFICATION FairSpec
CONSTANTS
    Ids = {i1, i2, i3}
    Emails = {e1, e2}
    Visitors = {v1, v2}
    Officers = {}
    Modes = {"ALLOW", "CLOSE", "WAITING_LIST"}
    Limit = 1
    WaitCapacity = 1
    Connections = 3
    MaxRequests = 4
    Temp = Temp
    Nobody = Nobody
    MaxEdits = 1
PROPERTIES
    RequestsFinish
CHECK_DEADLOCK FALSE

SPECIFICATION Spec
CONSTANTS
    Emails = {e1, e2}
    None = None
    Modes = {"CLOSE", "WAITING_LIST", "ALLOW"}
    Room = 1
    WaitRoom = 1
    Slots = {1, 2}
    MaxEdits = 4
    MaxVisits = 1
    MaxUpsets = 2
    MaxSends = 2
INVARIANT
    WaitingListIsAnnounced
CHECK_DEADLOCK FALSE

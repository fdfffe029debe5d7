SPECIFICATION Spec
CONSTANTS
    Voters = {v1, v2}
    Candidates = {c1}
    None = None
    Slots = {1, 2}
    CountFrom = 1
INVARIANTS
    TypeOK
    ChoiceIsOfVoterOnScreen
    SuccessIsTheirs
PROPERTIES
    KioskFreesItself
CHECK_DEADLOCK FALSE

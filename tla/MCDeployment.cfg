CONSTANTS
    Key <- Keys
    Value <- Values0
    Unset = Unset
    operator = operator
    other = other
    put1 = put1
    put2 = put2
    Procs = {operator, other, put1, put2}
    Requests = {put1, put2}
    Settings <- Checkout
    Scripts <- AllScripts
    MaxMade = 17
    MaxStarts = 4
    MaxFails = 1
SPECIFICATION Spec
CHECK_DEADLOCK FALSE
INVARIANTS
    OneLinePerKey
    EntriesAreGenuine
    KeepsSettings
PROPERTY
    FinishedAgrees

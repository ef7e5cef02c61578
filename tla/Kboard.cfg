SPECIFICATION Spec
CONSTANTS
    Keys = {30, 28, 14}
    Code <- MCCode
    Shell = sh
    Others = {app}
    ReadLen <- MCReadLen
    SKB = 3
    EVENTS = 4
INVARIANTS
    EventsAccounted
PROPERTIES
    ImplementsLineEdit
    AllRead
CHECK_DEADLOCK FALSE

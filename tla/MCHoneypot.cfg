SPECIFICATION FairSpec
CONSTANTS
    Conn = {c1, c2}
    Slots = 1
    Greeting = 1
    Opening = 1
    Readying = 1
    Waiting = 2
    Shell = 2
    Parts = 2
INVARIANTS
    TypeOK
    SlotsConserved
    OneLeftBehind
    SessionsEnd
PROPERTY
    SlotsComeBack
CHECK_DEADLOCK FALSE

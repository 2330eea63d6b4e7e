SPECIFICATION Spec
CONSTANTS
    RQSize = 2
    MaxRQ = 20
    SQSize = 6
    Lengths = {1, 4}
    Pastes = {1, 3, 5}
    MaxIn = 24
    MaxOut = 20
INVARIANT PasteWhole
CHECK_DEADLOCK FALSE

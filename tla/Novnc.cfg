SPECIFICATION MCSpec
CONSTANTS
    MaxConnects = 2
    MaxUser = 4
    Widths = {2}
    Windows = {1, 2}
    Rects <- MCRects
    MaxRects = 2
    MaxUpdates = 2
    MaxPanning = 2
    Sizes = {1, 2, 3}
    MaxResizes = 3
    RQSize = 2
    MaxRQ = 20
    SQSize = 6
    Lengths = {1, 4}
    Pastes = {1, 3, 5}
    MaxIn = 24
    MaxOut = 20
    Keys <- MCKeys
    Platforms = {"windows", "mac", "other"}
    MaxPresses = 4
    Fingers = {f1, f2, f3}
    Buttons = {"left", "right"}
    MaxTouches = 6
    Hots = {0, 1}
    MaxMoves = 7
    Chars = {"a", "b"}
    DefaultKeyboardinputLen = 2
    MaxEdits = 6
    MaxClicks = 8
SYMMETRY FingersAlike
INVARIANTS PictureTrue NeverQuiet StreamDecoded HandshakeCompletes OneSession PageObeys ViewFollows KeysLifted LockFollows GesturesEnd PointerFollows TextFollows ControlsCoherent
CHECK_DEADLOCK FALSE

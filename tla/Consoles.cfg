SPECIFICATION Spec
CONSTANTS
    MaxRetries = 2
    Banner = 2
    Areas = {"top", "bottom"}
    Sizes = {1, 3}
    Budget = 4
    MaxChanges = 2
    Palettes = {2, 3, 5}
    MaxRun = 3
    MaxRuns = 2
    RunTop = 2
    Keys = {"x", "y", "z"}
    Mods = {"shift"}
    Shift = "shift"
    Unmapped = "none"
    Slots = 2
    Texts <- MCTexts
    Pastes = {"p1", "p2"}
    MaxEvents = 4
    MaxFrames = 3
    MaxParts = 3
    Limit = 2
    Ciphers = {"none", "rc4", "aes128", "aes256"}
    KeyBytes = 16
    MaxBytes = 4
INVARIANTS VideoWhole KeysTyped
PROPERTIES ConsolesLive
CHECK_DEADLOCK FALSE

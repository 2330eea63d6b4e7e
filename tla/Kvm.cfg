SPECIFICATION MCSpec
CONSTANTS
    Handlers = {h1, h2}
    None = None
    Sizes = {"vga", "hd"}
    FirstSize = "vga"
    MaxFrames = 3
INVARIANTS SlotFreeWhenIdle ClosedWhenDone UpdatesServed
PROPERTIES SlotImplemented KvmLive
CHECK_DEADLOCK FALSE

SPECIFICATION MCSpec
CONSTANTS
    Handlers = {h1, h2}
    None = None
    Tabs = {t1, t2}
    Metrics = {t1}
    Sensors = {"s"}
    Ranges = {"h", "d"}
    Slots = {1, 2}
    MaxUser = 2
INVARIANTS NothingLeftBehind PagesCoherent
PROPERTIES SlotImplemented SolLive
CHECK_DEADLOCK FALSE

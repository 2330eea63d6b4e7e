SPECIFICATION LifeSpec
CONSTANTS
    Collector = collector
    Recorders = {h1}
    Readers = {r1}
    Others = {}
    None = none
    Sensors = {s1, s2}
    MaxPolls = 2
    MaxCrashes = 1
    MaxStops = 2
INVARIANTS ShownIsRecorded StoreWhole
PROPERTIES NothingUndone StoreLive

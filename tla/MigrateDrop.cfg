SPECIFICATION Spec
CONSTANT MaxStops = 2
INVARIANT LegacyDropped

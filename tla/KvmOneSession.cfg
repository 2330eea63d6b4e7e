SPECIFICATION Spec
CONSTANTS
    Handlers = {h1, h2, h3}
    None = None
INVARIANT AmiOwnsOneSession
CHECK_DEADLOCK FALSE

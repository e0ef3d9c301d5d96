SPECIFICATION Spec
CONSTANTS
    Hosts = {h1}
    Sessions = {s1}
    NoSession = NoSession
    Args <- FewArgs
    MaxReboots = 0
INVARIANT ResponseForwarded
CHECK_DEADLOCK FALSE

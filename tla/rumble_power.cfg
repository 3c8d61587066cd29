SPECIFICATION Spec
CONSTANTS
    Port = {1, 2}
    Reader = {r1}
    Caller = {c1}
INVARIANT
    PowerLossStopsRumble
CHECK_DEADLOCK FALSE

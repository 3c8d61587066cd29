SPECIFICATION Spec
CONSTANTS
    Client = {c1, c2}
    Knob = {axis0, shoulder0}
    Entered = {0, 60}
    DefaultDeadzone = 35
INVARIANTS
    TypeOK
    HandlersFollowModes
    KnobsAgree
CHECK_DEADLOCK FALSE

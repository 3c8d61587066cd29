SPECIFICATION Spec
CONSTANTS
    Stick = {axis0, axis1}
    Shoulder = {shoulder0}
    Inverted = {axis0}
    RestInput <- Controllers
    Pushed <- Touched
    Entered = {0, 35, 255}
    Caller = {c1}
    NoController = NoController
INVARIANTS
    TypeOK
    UntouchedIsNeutral
    DeflectionIsRadial
    PressNotExaggerated
CHECK_DEADLOCK FALSE

SPECIFICATION Spec
CONSTANTS
    Stick = {axis0, axis1}
    Shoulder = {shoulder0}
    Inverted = {axis0}
    RestInput <- Controllers
    Pushed <- Touched
    Entered = {35}
    Caller = {c1}
    NoController = NoController
INVARIANT
    RestIsNeutral
CHECK_DEADLOCK FALSE

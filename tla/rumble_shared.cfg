SPECIFICATION Spec
CONSTANTS
    Port = {1, 2}
    Reader = {r1, r2}
    Caller = {c1, c2}
SYMMETRY Alike
INVARIANTS
    TypeOK
    ObeyedUntilContended
    StatusUntilContended
CHECK_DEADLOCK FALSE

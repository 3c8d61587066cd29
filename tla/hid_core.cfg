SPECIFICATION Spec
CONSTANTS
    d1 = d1
    d2 = d2
    r1 = r1
    r2 = r2
    c1 = c1
    N = 3
    Device = {d1}
    Reader = {r1}
    Caller = {c1}
    DevOf <- OneReader
    Request = {q1, q2}
    ShortBuffer = {q2}
    NoRequest = NoRequest
    Packets = {{}, {1}, {2, 3}, {1, 2, 3}}
    Exchanges = {{}}
INVARIANTS
    TypeOK
    RequestsConserved
    BoundedWait
    ReportNamesItsPort
    CalibratedSinceUnplug
PROPERTIES
    ServesInOrder
CHECK_DEADLOCK FALSE

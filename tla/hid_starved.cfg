SPECIFICATION Spec
CONSTANTS
    d1 = d1
    d2 = d2
    r1 = r1
    r2 = r2
    c1 = c1
    N = 4
    Device = {d1, d2}
    Reader = {r1, r2}
    Caller = {}
    DevOf <- ReaderEach
    Request = {q1, q2}
    ShortBuffer = {}
    NoRequest = NoRequest
    Packets = {{}, {1, 2, 3, 4}}
    Exchanges = {{}}
INVARIANT
    BoundedWait
CHECK_DEADLOCK FALSE

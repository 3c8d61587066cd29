SPECIFICATION Spec
CONSTANTS
    d1 = d1
    d2 = d2
    r1 = r1
    r2 = r2
    c1 = c1
    N = 2
    Device = {d1}
    Reader = {r1}
    Caller = {}
    DevOf <- ReaderAlone
    Request = {q1}
    ShortBuffer = {}
    NoRequest = NoRequest
    Packets = {{}, {1}, {2}, {1, 2}}
    Exchanges = {{}, {1}, {2}, {1, 2}}
INVARIANT
    ReconnectRecalibrates
CHECK_DEADLOCK FALSE

SPECIFICATION FairSpec
CONSTANTS
    d1 = d1
    d2 = d2
    r1 = r1
    r2 = r2
    c1 = c1
    N = 2
    Device = {d1}
    Reader = {r1, r2}
    Caller = {}
    DevOf <- TwoReaders
    Request = {q1, q2}
    ShortBuffer = {}
    NoRequest = NoRequest
    Packets = {{}, {1}, {1, 2}}
    Exchanges = {{}}
INVARIANTS
    RequestsConserved
    FlushAnswersAll
    SoundUntilOverlap
PROPERTIES
    ParkedIsAnswered
    ServesConcurrently
CHECK_DEADLOCK FALSE

SPECIFICATION Spec
CONSTANTS
    d1 = d1
    d2 = d2
    d3 = d3
    Device = {d1, d2, d3}
    Endpoint <- Endpoints
    MaxCount = 3
INVARIANTS
    TypeOK
    CallbacksFindContext
    PdosDistinct

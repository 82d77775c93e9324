CONSTANTS
    p1 = p1
    p2 = p2
    a1 = a1
    a2 = a2
    b1 = b1
    b2 = b2
    NoTask = NoTask
    Producers = {p1, p2}
    Tasks <- TasksMC
SPECIFICATION Spec
INVARIANT TypeOK
PROPERTY FifoRefinement

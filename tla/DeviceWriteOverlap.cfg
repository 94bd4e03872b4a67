CONSTANTS
    w1 = w1
    w2 = w2
    w3 = w3
    r1 = r1
    r2 = r2
    r3 = r3
    NoOne = NoOne
    Writers = {w1, w2, w3}
    Readers = {}
    Mixes <- ThreeWrites
    ChunksOf <- TwoChunksEach
    DumpPages = 1
    EchoReqID = TRUE
    MaxFaults = 0
SPECIFICATION Spec
INVARIANTS LiveWhole
CHECK_DEADLOCK FALSE

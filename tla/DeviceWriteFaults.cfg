CONSTANTS
    w1 = w1
    w2 = w2
    w3 = w3
    r1 = r1
    r2 = r2
    r3 = r3
    NoOne = NoOne
    Writers = {w1, w2}
    Readers = {r1, r2, r3}
    Mixes <- WritesOrReads
    ChunksOf <- TwoChunksEach
    DumpPages = 2
    EchoReqID = TRUE
    MaxFaults = 2
SPECIFICATION FairSpec
INVARIANTS HalfNeedsLeftover AnswerIsOwn
PROPERTIES StoredIsHeld EveryRequestEnds
CHECK_DEADLOCK FALSE

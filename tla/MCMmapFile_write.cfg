CONSTANTS
    w1 = w1
    w2 = w2
    w3 = w3
    Writers = {w1, w2, w3}
    Ops <- OpsWrite
    BlockSize = 2
SPECIFICATION Spec
INVARIANT TypeOK
INVARIANT NoLostWrite
INVARIANT ViewsAccounted
INVARIANT CloseKeepsData
INVARIANT AppendAfterReturned
PROPERTY WritersFinish

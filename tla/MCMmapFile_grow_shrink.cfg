CONSTANTS
    w1 = w1
    w2 = w2
    w3 = w3
    Writers = {w1, w2, w3}
    Ops <- OpsGrowShrink
    BlockSize = 2
SPECIFICATION Spec
INVARIANT NoLostWrite

CONSTANTS
    w1 = w1
    w2 = w2
    w3 = w3
    Writers = {w1}
    Ops <- OpsSyncHole
    BlockSize = 2
SPECIFICATION Spec
INVARIANT SyncOkImpliesFlushed

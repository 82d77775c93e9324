CONSTANTS
    t1 = t1
    t2 = t2
    t3 = t3
    Threads = {t1}
    Reqs <- ReqsLarge
    BlockSize = 8
    PageSize = 4
    Align = 2
    BlockHdr = 1
    MaxBlocks = 6
    NewBlockResults = {"nb", "stray"}
SPECIFICATION Spec
INVARIANT AllocationsOwned

CONSTANTS
    t1 = t1
    t2 = t2
    t3 = t3
    Threads = {t1, t2, t3}
    Reqs <- ReqsMix
    BlockSize = 8
    PageSize = 4
    Align = 2
    BlockHdr = 1
    MaxBlocks = 6
    NewBlockResults = {"nb"}
SPECIFICATION Spec
INVARIANT TypeOK
INVARIANT AllocationsDisjoint
INVARIANT AllocationsOwned
INVARIANT AlignedResults
INVARIANT MemoryUsageAccounted
PROPERTY AllocationsComplete

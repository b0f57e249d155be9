CONSTANTS
    p1 = p1
    p2 = p2
    r1 = r1
    r2 = r2
    None = None
    Procs = {p1, p2}
    Rgids = {r1}
    Sizes = {3}
    PAGING_PAGESZ = 2
    RamFrames = 4
    SwapFrames = 2
    HeapPages = 4
    Careful = FALSE
    Ends = FALSE
    SwpType = 0
    MaxFree = 5
    WildPages = {9}
SPECIFICATION Spec
INVARIANTS RamFramesAccounted FifoIsOnline RegionsBacked
PROPERTIES LockReleased

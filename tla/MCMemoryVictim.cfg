CONSTANTS
    p1 = p1
    p2 = p2
    r1 = r1
    r2 = r2
    None = None
    Procs = {p1, p2}
    Rgids = {r1, r2}
    Sizes = {1, 3}
    PAGING_PAGESZ = 2
    RamFrames = 3
    SwapFrames = 2
    HeapPages = 3
    Careful = TRUE
    Ends = FALSE
    SwpType = 0
    MaxFree = 5
    WildPages = {}
SYMMETRY Symmetry
SPECIFICATION SafeSpec
INVARIANTS OutOfMemoryIsReturned

CONSTANTS
    c1 = c1
    c2 = c2
    CPUs = {c1, c2}
    Loader = Loader
    Calc = Calc
    None = None
    NumProcs = 2
    Code <- RaceCode
    FileName <- RaceName
    NameRoom = 2
    Prio <- RacePrio
    StartTime <- RaceStart
    MaxPrio = 2
    time_slot = 1
    MaxQueueSize = 3
SPECIFICATION SafeSpec
INVARIANT NoNeedToRemove

CONSTANTS
    c1 = c1
    c2 = c2
    CPUs = {c1}
    Loader = Loader
    Calc = Calc
    None = None
    NumProcs = 3
    Code <- RecycleCode
    FileName <- RecycleName
    NameRoom = 2
    Prio <- RecyclePrio
    StartTime <- RecycleStart
    MaxPrio = 2
    time_slot = 2
    MaxQueueSize = 3
SPECIFICATION Spec
PROPERTY KillReturns

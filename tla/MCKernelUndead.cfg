CONSTANTS
    c1 = c1
    c2 = c2
    CPUs = {c1, c2}
    Loader = Loader
    Calc = Calc
    None = None
    NumProcs = 3
    Code <- KillCode
    FileName <- KillName
    NameRoom = 2
    Prio <- KillPrio
    StartTime <- KillStart
    MaxPrio = 2
    time_slot = 2
    MaxQueueSize = 3
SPECIFICATION SafeSpec
INVARIANT KilledStaysKilled

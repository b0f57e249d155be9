CONSTANTS
    c1 = c1
    c2 = c2
    CPUs = {c1, c2}
    Loader = Loader
    Calc = Calc
    None = None
    NumProcs = 3
    Code <- CalcCode
    FileName <- CalcName
    NameRoom = 2
    Prio <- CalcPrio
    StartTime <- CalcStart
    MaxPrio = 2
    time_slot = 2
    MaxQueueSize = 3
SPECIFICATION Spec
INVARIANTS TypeOK RunningListExact NoWorkLeftBehind
PROPERTIES UsesSchedProperly Terminates EveryProcessEnds

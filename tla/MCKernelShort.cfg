CONSTANTS
    c1 = c1
    c2 = c2
    CPUs = {c1}
    Loader = Loader
    Calc = Calc
    None = None
    NumProcs = 1
    Code <- ShortCode
    FileName <- ShortName
    NameRoom = 2
    Prio <- ShortPrio
    StartTime <- ShortStart
    MaxPrio = 2
    time_slot = 2
    MaxQueueSize = 3
SPECIFICATION Spec
PROPERTY Terminates

CONSTANTS
    p1 = p1
    p2 = p2
    p3 = p3
    Procs = {p1, p2, p3}
    None = None
    Prio <- MCPrio
    Size <- MCSize
    MaxPrio = 2
    time_slot = 2
    MaxQueueSize = 2
SYMMETRY Symmetry
SPECIFICATION SchedSpec
INVARIANTS SchedTypeOK OnePlace SlotsInRange
PROPERTIES WorkConserving ImplementsRunQueue

CONSTANTS
    d1 = d1
    d2 = d2
    Devices = {d1, d2}
    ClockCap = 2
SPECIFICATION Spec
INVARIANTS TypeOK NoDataRace
PROPERTIES ImplementsBarrier EveryArrivalReleased ShutsDown

SPECIFICATION SharedSpec
CONSTANTS
    w1 = w1  w2 = w2  d1 = d1  d2 = d2  alice = alice  bob = bob  null = null
    Workers = {w1, w2}
    Devices = {d1}
    Names = {alice, bob}
    Null = null
    Busy = FALSE
    Clones = FALSE
    MaxRestarts = 3
    MaxOperations = 3
    MaxRandom = 7
INVARIANTS TablesConsistent NoAssertionTwice DeviceAhead
PROPERTIES DeviceRefusedForCause LoweredOnlyByRace ImplementsStore
CHECK_DEADLOCK FALSE

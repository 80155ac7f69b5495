SPECIFICATION SharedSpec
CONSTANTS
    w1 = w1  w2 = w2  d1 = d1  d2 = d2  alice = alice  bob = bob  null = null
    Workers = {w1, w2}
    Devices = {d1, d2}
    Names = {alice}
    Null = null
    Busy = TRUE
    Clones = TRUE
    MaxRestarts = 1
    MaxOperations = 2
    MaxRandom = 6
INVARIANTS SharedInv
CHECK_DEADLOCK FALSE

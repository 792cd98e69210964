SPECIFICATION Spec
CONSTANTS
    w1 = w1
    w2 = w2
    ghost = ghost
    ann = ann
    bob = bob
    r1 = r1
    r2 = r2
    r3 = r3
    NoOne = NoOne
    NoSale = NoSale
    Request = {r1, r2, r3}
    WatchId = {w1, w2, ghost}
    Watch = {w1, w2}
    Email = {ann, bob}
    Known = {ann}
    InitStock <- TwoEach
    Body <- SortedBodies
    PoolSize = 2
    LowStock = 5
    MaxCrash = 0
SYMMETRY Alike
INVARIANTS
    NoLockCycle
    OversellBounded

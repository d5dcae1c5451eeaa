SPECIFICATION FairSpec
CONSTANT Thread = {t1, t2, t3, t4}
INVARIANTS
    IrqlRestored
    CountExact
    NoLostWakeup
PROPERTIES
    ImplementsMutex
    EveryWaiterGetsIn

SPECIFICATION FairSpec
CONSTANT Thread = {t1, t2, t3}
INVARIANTS
    OwnerIsHolder
    FieldsExact
    NoLostWakeup
PROPERTIES
    ImplementsMutex
    EveryWaiterGetsIn

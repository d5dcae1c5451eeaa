SPECIFICATION FairEntrySpec
CONSTANTS
    Thread = {t1, t2, t3}
    Entry = {e1, e2}
INVARIANTS
    BlocksAlive
PROPERTIES
    ImplementsMutex
    SleepersWake

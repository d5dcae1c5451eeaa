SPECIFICATION FairSpec
CONSTANTS
    Thread = {t1, t2, t3}
    Reader = {t1, t2, t3}
    Writer = {t2, t3}
    Routines = {"inline", "generic"}
INVARIANTS
    ValueIsPlausible
    BlocksAlive
    OneWaker
    OwnersCounted
    SanityChecks
PROPERTIES
    ImplementsRWLock
    Drains

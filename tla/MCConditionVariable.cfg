SPECIFICATION FairSpec
CONSTANTS
    Thread = {t1, t2, t3}
    Key = {t1, t2, t3}
    Sleeper = {t1, t2}
    Waker = {t2, t3}
    Shared = {t2, t3}
INVARIANTS
    EntriesAlive
    ListExact
    Rendezvous
PROPERTIES
    WakeAllWakesTheSleeping
    CallsReturn

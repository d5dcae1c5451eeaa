SPECIFICATION FairSpec
CONSTANTS
    Thread = {t1, t2}
    Key = {t1, t2}
    Sleeper = {t1}
    Waker = {t2}
    Shared = {}
PROPERTY WakeAllWakesAll

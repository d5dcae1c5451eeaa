SPECIFICATION FairSpec
CONSTANTS
    Object = {o1, o2, o3}
    Thread = {t1, t2}
    Worker = {w1, w2}
    Client = {t1, t2}
    Replacer = {t2}
    MAX_FAST_REFS = 2
INVARIANTS
    PointerCountExact
    NoUseAfterFree
    OneReaper
PROPERTY PushedObjectsAreDeleted

SPECIFICATION Spec
CONSTANTS
    Thread = {t1, t2}
    PageEntries = 3
    MaxPages = 2
CHECK_DEADLOCK FALSE
INVARIANTS
    EntryStaysLocked

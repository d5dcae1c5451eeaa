SPECIFICATION FairSpec
CONSTANTS
    Thread = {t1, t2}
    Ticket = {k1, k2}
INVARIANTS
    RundownSafe
    WaitBlockAlive
    SanityChecks
PROPERTIES
    RundownCompletes
    ImplementsContract

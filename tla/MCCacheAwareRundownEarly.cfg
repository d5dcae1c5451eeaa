SPECIFICATION Spec
CONSTANTS
    Thread = {t1, t2}
    Ticket = {k1, k2}
    Number = 2
    MaxSkew = 2
    Tests = {"asWritten"}
CHECK_DEADLOCK FALSE
INVARIANTS
    WaitReturnsWhenReleased

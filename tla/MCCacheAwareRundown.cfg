SPECIFICATION Spec
CONSTANTS
    Thread = {t1, t2, t3}
    Ticket = {k1, k2}
    Number = 3
    MaxSkew = 3
    Tests = {"asWritten", "opposite"}
CONSTRAINT NothingLeaked
CHECK_DEADLOCK FALSE
INVARIANTS
    Accounting
    NoEarlySignal
    SweptEmpty

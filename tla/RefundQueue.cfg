CONSTANTS
    Payment = {m1}
    Request = {c1, c2}
    None = None
    Faults <- AllFaults
    MaxRetries = 5
    Report = {success}
    MaxExpiries = 1
SPECIFICATION FairSpec
INVARIANTS TypeOK RefundedOnce ShownIsTrue
PROPERTIES RefundSettles ShownIsFinal
CHECK_DEADLOCK FALSE

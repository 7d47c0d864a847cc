CONSTANTS
    Txn = {t1}
    Booking = {b1}
    BookingOf <- OneBooking
    Worker = {w1}
    Request = {r1}
    Verifier = {v1}
    NoTxn = NoTxn
    Attempts = 2
    Capacity = 1
    InvoiceRetries = 1
    MaxFaults = 2
SPECIFICATION FairSpec
INVARIANTS TypeOK InvoicedOnce
PROPERTIES SuccessConfirmed LedgerRefined
CHECK_DEADLOCK FALSE

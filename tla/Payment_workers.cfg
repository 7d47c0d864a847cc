CONSTANTS
    Txn = {t1}
    Booking = {b1}
    BookingOf <- OneBooking
    Worker = {w1, w2}
    Request = {r1}
    Verifier = {v1}
    NoTxn = NoTxn
    Attempts = 2
    Capacity = 1
    InvoiceRetries = 0
    MaxFaults = 2
SPECIFICATION Spec
SYMMETRY WorkerSymmetry
INVARIANTS Grounded ConfirmedOnce
CHECK_DEADLOCK FALSE

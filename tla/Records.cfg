CONSTANTS
    r1 = r1
    r2 = r2
    r3 = r3
    b1 = b1
    q1 = q1
    q2 = q2
    c1 = c1
    p1 = p1
    s1 = s1
    s2 = s2
    m1 = m1
    d1 = d1
    d2 = d2
    Caller = {r1, r2, r3}
    Booking = {b1}
    Customer = {c1}
    Owner <- MCOwner
    Price = 100
    Codes <- MCCodes
    OfferLists <- MCOfferLists
    Attempts = 2
    CouponFaults = {"StoreError", "Retry"}
    Phone = {p1}
    MaxCodes = 1
    AccountFaults = {"StoreError"}
    RatedBooking = {q1, q2}
    Rater = {c1}
    Stars = {1, 5}
    RatingFaults = {"StoreError"}
    ComplaintBooking = {b1}
    ComplaintFaults = {"StoreError"}
    PlateNumber = {s1, s2}
    Person = {c1, m1}
    Device = {d1, d2}
    DeviceFaults = {"StoreError", "PushError"}
SPECIFICATION Spec
INVARIANTS TypeOK CapHolds UsesCounted NoOverdraft OneAccount NumbersDistinct AverageTrue ReferenceTrue 
PROPERTIES PromoKept BlockLasts RatedOnce OneComplaint SidesKept 
SYMMETRY MCSymmetry
CHECK_DEADLOCK FALSE

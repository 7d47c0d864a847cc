CONSTANTS
    s1 = s1  s2 = s2  p1 = p1  p2 = p2  u1 = u1  u2 = u2
    r1 = r1  r2 = r2
    Service = {s1}
    Provider = {p1}
    User = {u1}
    Request = {r1, r2}
    NoProvider = NoProvider
    NoService = NoService
    UserOf <- OneUser
    Ops <- WaitOps
    JourneyInput = {}
SPECIFICATION FairSpec
PROPERTY SearchEnds 
CHECK_DEADLOCK FALSE

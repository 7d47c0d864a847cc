CONSTANTS
    p1 = p1  p2 = p2  g1 = g1  g2 = g2  r1 = r1  r2 = r2
    Provider = {p1, p2}
    NoProvider = NoProvider
    Search = {g1, g2}
    First = g1
    Earlier = p2
    Request = {r1, r2}
    MaxSend = 1
    Ops <- AllOps
SPECIFICATION FairSpec
INVARIANTS TypeOK  SweptStaysClean Reachable
PROPERTIES SearchesEnd  AwardAgrees
CHECK_DEADLOCK FALSE

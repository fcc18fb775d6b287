SPECIFICATION Spec
SYMMETRY Alike
CONSTANTS
    s1 = s1
    s2 = s2
    c1 = c1
    c2 = c2
    c3 = c3
    d1 = d1
    d2 = d2
    Slots = {s1, s2}
    Cards = {c1, c2, c3}
    Desks = {d1, d2}
    Devices = {d1, d2}
    Tabs = {d1, d2}
    People = {c1, c2}
    Lines = {s1, s2}
    MaxSends = 2
    MaxRequests = 6
    MaxPayments = 5
    MaxAttempts = 1
    MaxForms = 2
    MaxReviews = 4
    MaxStops = 1
    MaxTime = 4
    AccessTtl = 2
    RefreshTtl = 3
    MaxLogins = 3
INVARIANTS
    CodesHold
    DefaultsBounded
    ReviewsAgree
    SessionsHold
CHECK_DEADLOCK FALSE

SPECIFICATION FairSupport
CONSTANTS
    Users = {u1}
    Staff = {st1, st2}
    Slots = {s1, s2}
    MaxRequests = 4
    MaxTickets = 2
    MaxCrashes = 1
    Rounds = 2
    Limit = 1
INVARIANTS
    HandedOverOnce
PROPERTIES
    TicketKeepsItsCourse
    OverdueIsEscalated
CHECK_DEADLOCK FALSE

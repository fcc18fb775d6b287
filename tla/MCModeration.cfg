SPECIFICATION Spec
CONSTANTS
    u1 = u1
    r1 = r1
    r2 = r2
    m1 = m1
    m2 = m2
    p1 = p1
    p2 = p2
    a1 = a1
    a2 = a2
    TargetOf <- MCTargetOf
    Ladder <- MCLadder
    Students = {u1}
    Reports = {r1}
    Moderators = {m1, m2}
    PenaltyIds = {p1, p2}
    AppealIds = {a1}
    Rulings <- ByLadder
    Bans <- MuteBans
    Unbans = {"all"}
    AppealDays = 1
    MaxScore = 10
    Bonus = 2
    Horizon = 2
    MaxLog = 1
SYMMETRY ModerationSymmetry
CHECK_DEADLOCK FALSE
INVARIANTS
    CreditFollowsLog
    NeverGivesBackMore
    BanHasReason
    RuledOnce

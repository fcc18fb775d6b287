SPECIFICATION Spec
CONSTANTS
    ann = ann
    ben = ben
    cal = cal
    sam = sam
    pia = pia
    t1 = t1
    t2 = t2
    bad = bad
    Tabs = {t1, t2}
    Quota = 1
    MaxRequests <- MCMaxRequests
    Horizon = 2
    Students = {ann, ben, cal}
    Staff = {sam}
    Platform = pia
    Words = {bad}
    MaxScore = 10
    Tiers <- MCTiers
    Debit = 3
    HintLimit = 2
    MuteHits = 2
    BanHits = 3
    Prices = {100}
    ShipBonus = 2
    TopUp = 100
    Ladder <- MCLadder
    ProofDays = 1
    AppealDays = 1
    ChatRounds = 2
    Kinds = {"user", "order"}
    SchoolNames = {"north"}
    Fees = {0, 200}
    Visits <- MCVisits
    Fresh <- MCFresh
SYMMETRY Symm
INVARIANTS
    StatusHasMoney
    AnswersAreStored
    BansHaveReasons
CHECK_DEADLOCK FALSE

SPECIFICATION Spec
CONSTANTS
    alice = alice
    bob = bob
    bookA = bookA
    bookB = bookB
    o1 = o1
    o2 = o2
    t1 = t1
    t2 = t2
    w1 = w1
    Users = {alice, bob}
    Platform = platform
    OrderIds = {o1, o2}
    TopUps = {t1}
    WithdrawIds = {}
    RechargeAmounts = {10}
    WithdrawAmounts = {4}
    Books = {bookA}
    SellerOf <- MCSellerOf
    MaxBooks = 50
    BookOps = {"off_shelf", "relist", "delete", "approve", "hide", "erase"}
    Price <- MCPrice
    FeeBps = 2000
    Workers = {job, job2}
    BatchLimit = 1
    InitCredit = 98
    MaxCredit = 100
    ShipBonus = 2
    UiOnly = FALSE
CHECK_DEADLOCK FALSE
INVARIANTS
    CacheMatchesLedger
    SettlementMatchesStatus
    OneActiveOrderPerBook
    LockedHasActiveOrder
PROPERTIES
    DisputeFreezes

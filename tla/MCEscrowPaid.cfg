SPECIFICATION Spec
CONSTANTS
    alice = alice
    bob = bob
    bookA = bookA
    bookB = bookB
    o1 = o1
    o2 = o2
    t1 = t1
    t2 = t2
    w1 = w1
    Users = {alice, bob}
    Platform = platform
    OrderIds = {o1}
    TopUps = {t1}
    WithdrawIds = {}
    RechargeAmounts = {5}
    WithdrawAmounts = {4}
    Books = {bookA}
    SellerOf <- MCSellerOf
    MaxBooks = 50
    BookOps = {}
    Price <- MCPrice
    FeeBps = 2000
    Workers = {job}
    BatchLimit = 1
    InitCredit = 98
    MaxCredit = 100
    ShipBonus = 2
    UiOnly = FALSE
CHECK_DEADLOCK FALSE
INVARIANTS
    PaidMeansHeld

SPECIFICATION Spec
CONSTANTS
    hint = hint
    serious = serious
    severe = severe
    u1 = u1
    u2 = u2
    s1 = s1
    s2 = s2
    p1 = p1
    p2 = p2
    a = a
    b = b
    Users = {u1, u2}
    Procs = {p1}
    Slots = {s1, s2}
    MaxPosts = 3
    MaxChanges = 0
    Words = {}
    Listed = {}
    LevelOf <- NoLevels
    Texts <- CleanTexts
    Ttl = 1
    LoadTime = 0
    Debit = 2
    InitScore = 4
    PublishScore = 1
    HintLimit = 2
    MuteHits = 2
    BanHits = 3
    MaxBooks = 1
    KindSets = {{"edit"}, {"reply", "unreply"}, {"book", "relist", "revise"}, {"talk", "message"}, {"profile"}}
INVARIANTS
    StoredWasChecked
    RepliesAddUp
    ListingOvershootBounded
CHECK_DEADLOCK FALSE
SYMMETRY Alike

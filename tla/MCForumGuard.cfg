SPECIFICATION Spec
CONSTANTS
    hint = hint
    serious = serious
    severe = severe
    u1 = u1
    u2 = u2
    s1 = s1
    s2 = s2
    p1 = p1
    p2 = p2
    a = a
    b = b
    Users = {u1}
    Procs = {p1, p2}
    Slots = {s1, s2}
    MaxPosts = 2
    MaxChanges = 1
    Words = {hint, serious, severe}
    Listed = {hint, serious}
    LevelOf <- MCLevelOf
    Texts <- MCTexts
    Ttl = 1
    LoadTime = 1
    Debit = 2
    InitScore = 4
    PublishScore = 1
    HintLimit = 2
    MuteHits = 2
    BanHits = 3
    MaxBooks = 1
    KindSets = {{"thread"}, {"profile"}}
INVARIANTS
    WordsReachEveryProcess
    PunishmentsAreOnRecord
CHECK_DEADLOCK FALSE
SYMMETRY Alike

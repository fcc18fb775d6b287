SPECIFICATION FairSpec
CONSTANTS
    p1 = p1
    p2 = p2
    k1 = k1
    r1 = r1
    s1 = s1
    s2 = s2
    r2 = r2
    r3 = r3
    wallet = wallet
    book = book
    other = other
    Procs = {p1, p2}
    Admins = {p1}
    Asked = {"school"}
    Calls = {1, 2}
    MemoryTtl = 1
    RedisTtl = 2
    Window = 1
    MaxWrites = 3
    LoadWrites = 1
    MaxTime = 2
    MaxHits = 3
    MaxKills = 1
    Requests = {r1, r2, r3}
    Keys = {k1}
    Rows = {wallet, book, other}
    Plans <- MCPlans
    Conns = 2
    Retries = 1
    MaxFalls = 1
    Scripts = {s1, s2}
    Files <- MCFiles
    Creates <- MCCreates
    MaxSeeds = 2
    MaxDeaths = 1
    MaxPosts = 1
    MaxNew = 1
INVARIANTS
    RecordedMeansApplied
    SeededMeansWhole
    CachesEnd
    EditsFromOneVersion
    KeysServeOnce
PROPERTIES
    EveryRequestEnds
CHECK_DEADLOCK FALSE

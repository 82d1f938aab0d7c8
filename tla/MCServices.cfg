\* Each service in turn: two ids, items, requests, sessions and readers, and every property type.
SPECIFICATION Spec
CONSTANTS
    i1 = i1
    i2 = i2
    v1 = v1
    v2 = v2
    u1 = u1
    u2 = u2
    short = short
    long = long
    broken = broken
    s1 = s1
    s2 = s2
    w1 = w1
    k1 = k1
    k2 = k2
    r1 = r1
    r2 = r2
    plain = plain
    full = full
    null = null
    OnceIds = {i1, i2}
    Minute = 3
    Items = {i1, i2}
    Unstorable = {i2}
    ItemValues = {v1, v2}
    NoItem = NoItem
    MaxClears = 2
    Uploaders = {u1, u2}
    Archives = {short, long, broken}
    BrokenArchives = {broken}
    ArchiveSize <- Lengths
    NoArchive = NoArchive
    EmptyFile = EmptyFile
    TornFile = TornFile
    FeedSessions = {s1, s2}
    Subscribers = {w1}
    Nobody = Nobody
    MaxPending = 2
    Posters = {k1, k2}
    Posts = {plain, full, null}
    NullTask = {null}
    PostSize <- PostLengths
    CommonOf <- PostCommon
    TtlOf <- PostTtl
    MalformedTtl = {"never"}
    DefaultCommon = "default"
    DefaultTtl = "24:00"
    Unset = Unset
    NoFile = NoFile
    EmptyConf = EmptyConf
    TornConf = TornConf
    Readers = {r1}
    MaxPosts = 3
    FileConfs <- SomeConfs
    NotANumber = NotANumber
    CustomConfs <- CustomStores
INVARIANTS OneWinner LostOnlyByClear ServedIsFile FeedComplete DeletionsReach
           FileIsConfig FileWhole CacheFresh Survivors FixedDefaults MigrationsExact
PROPERTIES FreedAgain ClearWorks StaysServed ChangeServed AnnouncedLatest ReadersServed
CHECK_DEADLOCK FALSE

SPECIFICATION Spec
CONSTANTS
    admin = admin  u1 = u1  u2 = u2  b1 = b1  c1 = c1  c2 = c2  s1 = s1
    root = root  anonymous = anonymous  lockSystem = lockSystem  apiKeyUser = apiKeyUser
    admins = admins  anonymousGroup = anonymousGroup  g1 = g1  p1 = p1
    t1 = t1  t2 = t2  t3 = t3  a1 = a1  a2 = a2  w1 = w1  w2 = w2  r1 = r1  r2 = r2  x = x  no = no  l1 = l1
    Keys = {u1, b1}
    BuiltinNames = {b1}
    People = {admin, u1}
    Admin = admin
    Callers = {c1, c2}
    NoRecord = NoRecord  NoCall = NoCall
    MaxClock = 3
    Bodies <- MCBodies
    Emails = {u1, root}
    Secrets = {s1}
    Root = root  Anonymous = anonymous  ApiKeyUser = apiKeyUser
    Admins = admins  AnonymousGroup = anonymousGroup
    None = None  Garbled = Garbled  RootToken = RootToken  Unauthorized = Unauthorized
    UserRecords <- MCUserRecords
    KeyRecords <- MCKeyRecords
    BuiltinUsers <- MCBuiltinUsers
    ExternalTokens <- MCTokens
    Clients = {l1}
    Notes = {t1, t2, t3}
    Readers = {u1, u2}
    Nobody = Nobody  NoDeletion = NoDeletion
    Deleters = {c1, c2}
    TargetUser <- MCTargetUser
    TargetGroup <- MCTargetGroup
    GroupsOf <- MCGroupsOf
    Lists <- MCLists
    AspectNames = {a1, a2}
    PropertyNames = {"p", "q"}
    Targets = {r1, r2}
    Fitting = {r1}
    Writers = {w1, w2}
    NoAspect = NoAspect  NoNode = NoNode  Idle <- MCIdle  Undefined = Undefined
    MaxAspectChanges = 1
    Definitions <- MCDefinitions
    Updates <- MCUpdates
    Agents = {y1, y2}
    MaxSessions = 3
    Talkers = {q1, q2}
    Costs = {2}
    TtlMs = 1
    HardTtlMs = 2
    MaxEntries = 2
    TokenLimit = 2
    MaxTime = 2
    MaxTalks = 2
    NoTalk = NoTalk
INVARIANTS
    ChangesAreKept
    GroupsAreCurrent
    EndsForAReason
    ValidWhenWritten
    RecentSessionsAnswer
    LimitIsKept
PROPERTIES
    ReadonlyKept
SYMMETRY Sym
CHECK_DEADLOCK FALSE

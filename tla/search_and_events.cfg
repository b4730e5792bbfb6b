SPECIFICATION RunSpec
CONSTANTS
    admins = admins   staff = staff   guests = guests   root = root   rootUser = rootUser
    anon = anon   ann = ann   bob = bob   eve = eve   f1 = f1   f2 = f2   d1 = d1   d2 = d2
    x1 = x1   x2 = x2   y1 = y1   y2 = y2   c1 = c1   c2 = c2   NoNode = NoNode   NoRequest = NoRequest
    u1 = u1   u2 = u2   mDoc = mDoc   mFolder = mFolder   Gone = Gone   NoEdit = NoEdit   OctetStream = OctetStream
    Undefined = Undefined
    Within <- MCWithin
    Principals <- MCPrincipals
    Admins = admins
    RootUser = rootUser
    Anonymous = anon
    Root = root
    Uuids = {f1, f2, d1, d2}
    Repositories <- MCRepositories
    Replacements <- MCReplacements
    Queries <- MCQueries
    Searches <- MCSearches
    Meanings <- MCMeanings
    Title <- MCTitle
    Threshold = 5
    TopK = 3
    MaxChanges = 1
    DavNodes = {x1, x2, y1, y2}
    DavFolders = {x1, x2}
    DavRoot = root
    DavTree <- MCDavTree
    DavClients = {c1, c2}
    CanRead <- MCCanRead
    DavRequests <- MCDavRequests
    FindPage = 2
    MaxEntries = 2
    MaxDepth = 3
    MaxAsked = 3
    EventNodes = {x1, x2, y1, y2}
    EventFolders = {x1, x2}
    TopFolder = root
    EventTree <- MCEventTree
    Creations <- MCCreations
    Changes <- MCChanges
    NewTitle = "new"
    MimetypeOf <- MCMimetypeOf
    Editors = {u1, u2}
    MaxUpdates = 2
    MaxLosses = 1
    eva = eva  tom = tom  team = team  board = board  chiefs = chiefs  a1 = a1  a2 = a2
    n1 = n1  n2 = n2   dir = dir  raw = raw  cooked = cooked
    FeatureNames = {a1, a2}
    FeatureChanges <- MCFeatureChanges
    StoredFeatures <- MCStored
    WorkNodes = {n1, n2}
    WorkTree <- MCTree
    HooksOf <- MCHooksOf
    TopLevel = TopLevel
    UserGroups <- MCUserGroups
    FeatureAdmins = chiefs
    RootEmail = RootEmail
    NodeReaders <- MCReaders
    NodeWriters <- MCNodeWriters
    Runs <- MCRuns
    Acts <- MCActs
    MAX_RUNNABLE_DEPTH = 3
    MaxEvents = 2
    MaxFeatureEdits = 1
    NoFeature = NoFeature  NoNodeLeft = NoNodeLeft  NoGroup = NoGroup  Nothing = Nothing  Throws = Throws
    RagNodes = {n1, n2}
    RagFolders = {n2}
    MaxRagEvents = 3
    NotThere = NotThere  NotIndexed = NotIndexed  NoBytes = NoBytes
SYMMETRY Alike
INVARIANTS
    FoundIsReadable
    ReadableIsFound
    TextIsUnderstood
    BestFirst
    CacheFollowsTree
    FoldersAreTouched
    DeletedAreListed
    HandlersAreThorough
    IndexFollowsNodes
\* A search ends with its answer, and so do the last requests.
CHECK_DEADLOCK FALSE

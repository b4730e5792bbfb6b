INIT FeaturesInit
NEXT FeaturesNext
CONSTANTS
    eva = eva  tom = tom  team = team  board = board  chiefs = chiefs  a1 = a1  a2 = a2
    n1 = n1  n2 = n2   dir = dir  raw = raw  cooked = cooked
    FeatureNames = {a1}
    FeatureChanges = {}
    StoredFeatures <- OneFeature
    WorkNodes = {n1}
    WorkTree <- MCTree
    HooksOf <- OneHook
    TopLevel = TopLevel
    UserGroups <- MCUserGroups
    FeatureAdmins = chiefs
    RootEmail = RootEmail
    NodeReaders <- MCReaders
    NodeWriters <- MCNodeWriters
    Runs = {}
    Acts <- MCEmbeddings
    MAX_RUNNABLE_DEPTH = 3
    MaxEvents = 5
    MaxFeatureEdits = 0
    NoFeature = NoFeature  NoNodeLeft = NoNodeLeft  NoGroup = NoGroup  Nothing = Nothing  Throws = Throws
INVARIANTS
    RunsAreLimited
CHECK_DEADLOCK FALSE

SPECIFICATION Spec
CONSTANTS
    n1 = n1  n2 = n2  c1 = c1  c2 = c2  o1 = o1  o2 = o2
    md1 = md1  e1 = e1  e2 = e2  e3 = e3  s1 = s1  s2 = s2
    k1 = k1  k2 = k2  f1 = f1  d1 = d1  d2 = d2  w1 = w1  w2 = w2
    Undefined = Undefined  None = None  Torn = Torn  Idle = Idle
    TornFile = TornFile  NoRecord = NoRecord  NoCall = NoCall
    RootPlace = RootPlace  NoFile = NoFile  NoStep = NoStep
    Within <- MCWithin
    Promoted <- MCPromoted
    Nested <- MCNested
    Numeric <- MCNumeric
    FullName <- MCFullName
    Uuids = {n1, n2}
    Callers = {c1, c2}
    Bodies <- MCBodies
    Contents = {md1}
    ObjectIdOf <- MCObjectIdOf
    Queries <- MCQueries
    NodeBackends = {"inmem", "flat_file", "sqlite", "postgres", "mongodb"}
    MaxNodeFaults = 1
    Events = {e1, e2, e3}
    StreamOf <- MCStreamOf
    EventBackends = {"inmem", "flat_file", "sqlite", "postgres", "mongodb"}
    MaxEventFaults = 2
    ConfigKeys = {k1, k2}
    ConfigCallers = {c1, c2}
    ConfigData <- MCConfigData
    ConfigBackends = {"inmem", "sqlite", "postgres", "mongodb"}
    FileUuids = {f1}
    FolderUuids = {d1, d2}
    FolderOf <- MCFolderOf
    StorageCallers = {c1, c2}
    Files = {w1, w2}
    StorageBackends = {"inmem", "flat_file", "s3", "google_drive"}
    MaxDriveFiles = 3
    MaxStorageFaults = 1
INVARIANTS
    PortableFiltersAgree
    SavedIsRead
    StreamsAreNumbered
    LogIsAsReported
    LastWriteIsRead
PROPERTIES
    EmbeddingKept
CHECK_DEADLOCK FALSE

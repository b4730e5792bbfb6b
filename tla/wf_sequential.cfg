SPECIFICATION Spec
CONSTANTS
    admins = admins   staff = staff   legal = legal
    alice = alice   bob = bob   carol = carol   dave = dave
    doc = doc   d1 = d1   d2 = d2   i1 = i1   i2 = i2
    rough = rough   ready = ready
    Users <- MCUsers
    Groups <- MCGroups
    Admins = admins
    GroupsOf <- MCGroupsOf
    WorkflowUser = WorkflowUser
    LockSystem = LockSystem
    NoOne = NoOne
    Readers <- MCUsers
    Writers <- MCUsers
    Data <- MCData
    InstanceIds = {i1, i2}
    NoInstance = NoInstance
    StateNames <- MCStates
    NoState = NoState
    Unsent = Unsent
    Signals <- MCSignals
    Unrestricted = Unrestricted
    NoOverride = NoOverride
    Procs = {p1}
    Nodes = {doc}
    DefIds = {d1, d2}
    InitialDefinitions <- ReviewOnly
    Requests <- OrderlyRequests
    MaxHistory = 3
    MaxFailures = 0
    MaxCrashes = 0
INVARIANTS
    NodeFollowsInstance
PROPERTIES
    EditsFollowState

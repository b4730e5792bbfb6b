SPECIFICATION Spec
CONSTANTS
    admins = admins   staff = staff   ann = ann   ben = ben   eve = eve
    text = text   f1 = f1   f2 = f2   f3 = f3   f4 = f4   w1 = w1
    Users <- MCUsers
    Groups <- MCGroups
    Admins = admins
    GroupsOf <- MCGroupsOf
    WorkflowUser = WorkflowUser
    LockSystem = LockSystem
    NoOne = NoOne
    Readers <- MCUsers
    Writers <- MCWriters
    Data = {text}
    InstanceIds = {w1}
    NoInstance = NoInstance
    StateNames = {"open"}
    NoState = NoState
    Unsent = Unsent
    Procs = {p1, p2}
    Files = {f1, f2, f3}
    InitialFiles = {f1}
    InitialSize = 1
    NoFile = NoFile
    Limit = 3
    Requests <- ConcurrentRequests
    MaxFailures = 0
    MaxCrashes = 0
SYMMETRY ProcSymmetry
INVARIANTS
    FilesHaveContent

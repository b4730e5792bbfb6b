SPECIFICATION Spec
CONSTANTS
    admins = admins   staff = staff   ann = ann   adm = adm   text = text   w1 = w1
    a = a   b = b   d = d   e = e   root = root
    Users <- MCUsers
    Groups <- MCGroups
    Admins = admins
    GroupsOf <- MCGroupsOf
    WorkflowUser = WorkflowUser
    LockSystem = LockSystem
    NoOne = NoOne
    Readers = {}
    Writers = {}
    Data = {text}
    InstanceIds = {w1}
    NoInstance = NoInstance
    StateNames = {"open"}
    NoState = NoState
    Unsent = Unsent
    Nodes = {a, b, d, e}
    Root = root
    Kinds = {"folder", "doc"}
    InitialTree <- MCTree
    Procs = {p1, p2}
    Requests <- MCRequests
    Loads <- MCLoads
    InWorkflows = {d}
    PageSize = 1
SYMMETRY ProcSymmetry
INVARIANTS
    OrphansAccounted
    FiltersHold
    
    LockCoversChildren
\* A folder moved below itself is deleted by calls that wait for one another.
CHECK_DEADLOCK FALSE

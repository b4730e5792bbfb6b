---------------------------- MODULE NodeRecords ----------------------------
(***************************************************************************)
(* The node record as NodeService (src/application/nodes/node_service.ts)  *)
(* reads and writes it, and the checks it makes on the record it has read: *)
(* permission on the parent folder, lock, workflow mark.                   *)
(*                                                                         *)
(* The nodes here are plain documents: a folder's lock cascades to its     *)
(* children, and a file's blob has a life of its own; both belong to other *)
(* modules.                                                                *)
(***************************************************************************)
CONSTANTS
    Users,          \* emails of the people who send requests
    Groups,         \* group uuids
    Admins,         \* Groups.ADMINS_GROUP_UUID
    GroupsOf,       \* the groups of each user's principal
    WorkflowUser,   \* Users.WORKFLOW_INSTANCE_USER_EMAIL
    LockSystem,     \* Users.LOCK_SYSTEM_USER_EMAIL
    NoOne,          \* lockedBy = ""
    Readers,        \* users the parent folder lets Read ...
    Writers,        \* ... and Write, by ownership or permission
    Data,           \* values of the content a filter looks at
    InstanceIds,    \* workflow instance uuids
    NoInstance,     \* workflowInstanceUuid = undefined
    StateNames,     \* names of workflow states
    NoState,        \* workflowState = undefined
    Unsent          \* a field that the metadata of an update leave out

ASSUME PrincipalsAssumption ==
    /\ Admins \in Groups
    /\ GroupsOf \in [Users -> SUBSET Groups]
    /\ Readers \subseteq Users /\ Writers \subseteq Users
    /\ WorkflowUser # LockSystem /\ {WorkflowUser, LockSystem} \cap Users = {}
    /\ NoOne \notin Users \cup {WorkflowUser, LockSystem}
    /\ NoInstance \notin InstanceIds /\ NoState \notin StateNames

Principals == Users \cup {WorkflowUser, LockSystem}

\* The two system principals are created with the Admins group only.
PrincipalGroups(who) == IF who \in Users THEN GroupsOf[who] ELSE {Admins}

IsAdmin(who) == Admins \in PrincipalGroups(who)

\* AuthorizationService.isPrincipalAllowedTo on the (fixed) parent folder.
MayRead(who)  == IsAdmin(who) \/ who \in Readers
MayWrite(who) == IsAdmin(who) \/ who \in Writers

NodeRecord ==
    [ locked       : BOOLEAN,
      lockedBy     : Principals \cup {NoOne},
      unlockGroups : SUBSET Groups,
      instance     : InstanceIds \cup {NoInstance},
      state        : StateNames \cup {NoState},
      data         : Data ]

\* The metadata of an update, as a client sends them: nothing is known of a
\* field but its name, the fields of the lock and of the mark included.
Metadata ==
    [ locked       : {Unsent} \cup BOOLEAN,
      lockedBy     : {Unsent} \cup Principals \cup {NoOne},
      unlockGroups : {Unsent} \cup SUBSET Groups,
      instance     : {Unsent} \cup InstanceIds \cup {NoInstance},
      state        : {Unsent} \cup StateNames \cup {NoState},
      data         : {Unsent} \cup Data ]

FreshNode(d) ==
    [ locked |-> FALSE, lockedBy |-> NoOne, unlockGroups |-> {},
      instance |-> NoInstance, state |-> NoState, data |-> d ]

----------------------------------------------------------------------------
(* What each operation of NodeService asks of the record it has read.      *)

CanUnlockNode(who, n) ==
    n.lockedBy = who \/ n.unlockGroups \cap PrincipalGroups(who) # {}

CheckNodeLock(who, n) == n.locked => CanUnlockNode(who, n)

MayLock(who, n) == ~n.locked /\ MayWrite(who)

MayUnlock(who, n) ==
    /\ n.locked
    /\ n.lockedBy = LockSystem => who = LockSystem
    /\ CanUnlockNode(who, n)

\* Variant: the lock alone protects a node in a workflow.
MayUpdateUnlessLocked(who, n) == MayWrite(who) /\ CheckNodeLock(who, n)
MayUpdate(who, n) ==
    /\ MayWrite(who)
    /\ CheckNodeLock(who, n)
    /\ n.instance # NoInstance => who = WorkflowUser

\* Deleting asks nothing of the lock.
MayDelete(who, n) == n.instance = NoInstance /\ MayWrite(who)

----------------------------------------------------------------------------
(* The record each operation writes back.                                  *)

\* An empty list of unlock groups is filled with the locker's own groups.
Locked(n, who, groups) ==
    [n EXCEPT !.locked = TRUE, !.lockedBy = who,
              !.unlockGroups = IF groups = {} THEN PrincipalGroups(who) ELSE groups]

Unlocked(n) ==
    [n EXCEPT !.locked = FALSE, !.lockedBy = NoOne, !.unlockGroups = {}]

\* Variant: clearing the mark forgets the state only.
MarkedState(n, i, s) ==
    [n EXCEPT !.instance = IF i = NoInstance THEN @ ELSE i, !.state = s]
Marked(n, i, s) == [n EXCEPT !.instance = i, !.state = s]

Given(new, old) == IF new = Unsent THEN old ELSE new

\* Node.update takes every field it is given; before it, NodeService.update
\* drops those of the mark unless the workflow's own principal sends them.
Updated(n, who, m) ==
    [ locked       |-> Given(m.locked, n.locked),
      lockedBy     |-> Given(m.lockedBy, n.lockedBy),
      unlockGroups |-> Given(m.unlockGroups, n.unlockGroups),
      instance     |-> IF who = WorkflowUser THEN Given(m.instance, n.instance) ELSE n.instance,
      state        |-> IF who = WorkflowUser THEN Given(m.state, n.state) ELSE n.state,
      data         |-> Given(m.data, n.data) ]

\* Metadata that say nothing of lock and mark.
OnlyContent(m) ==
    /\ m.locked = Unsent /\ m.lockedBy = Unsent /\ m.unlockGroups = Unsent
    /\ m.instance = Unsent /\ m.state = Unsent
=============================================================================

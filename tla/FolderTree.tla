----------------------------- MODULE FolderTree -----------------------------
(***************************************************************************)
(* The tree of folders in NodeService                                      *)
(* (src/application/nodes/node_service.ts): every record names its parent, *)
(* and nothing but the handlers keeps the parent there.  Deleting, locking *)
(* and unlocking a folder call themselves for its children, which a filter *)
(* of the repository lists one page at most.                               *)
(*                                                                         *)
(* A call <<p, n>> is request p at work on node n: the request's own call, *)
(* or one made for a child by the call for its folder.  One action is one  *)
(* access to the repository and the code up to the next.                   *)
(***************************************************************************)
EXTENDS NodeRecords, Naturals, FiniteSets

CONSTANTS
    Nodes,        \* uuids, the root folder's excepted
    Root,         \* Nodes.ROOT_FOLDER_UUID: built in, no record
    Kinds,        \* {"folder", "doc"}
    InitialTree,  \* the records at the start
    Procs,        \* requests that may be in flight at one time
    Requests,     \* the requests clients may send
    Loads,        \* which processes serve which of them: a behaviour has one load
    InWorkflows,  \* bound: the nodes workflows mark
    PageSize      \* the default page of repository.filter (20 in the code)

VARIABLES
    records,    \* NodeRepository: uuid -> record
    load,       \* the processes at work in this behaviour, and their requests
    req,        \* what each of them serves
    calls,      \* the calls in progress
    issued,     \* uuids given out so far
    spared,     \* history: children a call for their folder did not reach
    strayed,    \* history: nodes written into a folder that was going or gone,
                \* or out of one with the folder's lock on them
    relocked    \* history: nodes whose lock an update has written

vars == <<records, load, req, calls, issued, spared, strayed, relocked>>

TreeRecord == [meta : NodeRecord, kind : Kinds, parent : Nodes \cup {Root},
               only : SUBSET Kinds, writers : SUBSET Users]
RootFolder == [kind |-> "folder", only |-> {"folder"}, writers |-> {}]

CreateRequest == [op : {"create"}, user : Users, node : Nodes, kind : Kinds,
                  parent : Nodes \cup {Root}]
\* An update leaves out what it does not send.  The workflow's principal sends
\* those of an updateNode, which the engine has admitted (WorkflowInstances).
UpdateRequest == [op : {"update"}, user : Users \cup {WorkflowUser}, node : Nodes,
                  parent : {Unsent} \cup Nodes \cup {Root}, only : {Unsent} \cup SUBSET Kinds,
                  metadata : Metadata]
NodeRequest   == [op : {"delete", "lock", "unlock"}, user : Users, node : Nodes]
Request == CreateRequest \cup UpdateRequest \cup NodeRequest

ASSUME TreeAssumption ==
    /\ Root \notin Nodes /\ PageSize \in Nat \ {0} /\ IsFiniteSet(Procs)
    /\ Kinds = {"folder", "doc"}
    /\ DOMAIN InitialTree \subseteq Nodes
    /\ InitialTree \in [DOMAIN InitialTree -> TreeRecord] /\ Data # {}
    /\ \A n \in DOMAIN InitialTree :
          LET f == InitialTree[n].parent
          IN  /\ f = Root \/ (f \in DOMAIN InitialTree /\ InitialTree[f].kind = "folder")
              /\ InitialTree[n].kind \in IF f = Root THEN RootFolder.only ELSE InitialTree[f].only
              /\ InitialTree[n].meta.lockedBy = LockSystem =>
                    InitialTree[n].meta.locked /\ f # Root /\ InitialTree[f].meta.locked
    /\ \A r \in Requests : r \in Request
    /\ Loads \subseteq [procs : SUBSET Procs, requests : SUBSET Requests]
    /\ InWorkflows \subseteq Nodes

NoRequest == [op |-> "none"]
\* What a call holds: the record it read, the children it is to visit, and the
\* one it is visiting (none when it is the node itself).
NoRecord == [kind |-> "none"]
Call(at, n) == [at |-> at, rec |-> NoRecord, todo |-> {}, child |-> n]

Init ==
    /\ records = InitialTree
    /\ load \in Loads
    /\ req = [p \in Procs |-> NoRequest]
    /\ calls = [c \in Procs \X Nodes |-> Call("none", c[2])]
    /\ issued = DOMAIN InitialTree
    /\ spared = {} /\ strayed = {} /\ relocked = {}

----------------------------------------------------------------------------
(* Building blocks                                                         *)

At(c, label) == calls[c].at = label
Goto(c, label) == calls' = [calls EXCEPT ![c].at = label]
Hold(c, label, r) == calls' = [calls EXCEPT ![c].at = label, ![c].rec = r]
Done(c, reply) == calls' = [calls EXCEPT ![c] = Call(reply, c[2])]
Finished(c) == calls[c].at \in {"ok", "error"}

Children(n) == {k \in DOMAIN records : records[k].parent = n}

\* repository.filter([["parent", "==", n]]) without a page size.
Pages(n) == {s \in SUBSET Children(n) :
               \/ s = Children(n) /\ Cardinality(s) <= PageSize
               \/ Cardinality(s) = PageSize}

\* #getBuiltinFolderOrFromRepository
IsFolder(f) == f = Root \/ (f \in DOMAIN records /\ records[f].kind = "folder")
Folder(f) == IF f = Root THEN RootFolder ELSE records[f]

\* isPrincipalAllowedTo(parent, "Write"): the folder is read, then asked.
WritableBy(who, f) == IsFolder(f) /\ (IsAdmin(who) \/ who \in Folder(f).writers)

\* NodesFilters.satisfiedBy(parent.filters, node)
Satisfies(r, only) == r.kind \in only

\* The principal of a call: the request's own, or the lock system's below it.
Principal(c) == IF req[c[1]].op \in {"lock", "unlock"} /\ c[2] # req[c[1]].node
                THEN LockSystem ELSE req[c[1]].user

\* A call ends or goes on depending on what it read; nothing else changes.
Proceed(c, from, allowed, next) ==
    /\ At(c, from)
    /\ IF allowed THEN next ELSE Done(c, "error")
    /\ UNCHANGED <<records, load, req, issued, spared, strayed, relocked>>

\* getById, with the checks of the record itself.
ReadNode(c, from, ok, to) ==
    Proceed(c, from, c[2] \in DOMAIN records /\ ok,
            Hold(c, to, records[c[2]]))

\* The parent of the record that was read, and Write on it.
CheckParent(c, from, to) ==
    Proceed(c, from, WritableBy(Principal(c), calls[c].rec.parent), Goto(c, to))

\* repository.update: the whole record, if it is still there.
WriteNode(c, from, r, to) ==
    /\ At(c, from)
    /\ IF c[2] \in DOMAIN records
       THEN /\ records' = [records EXCEPT ![c[2]] = r]
            /\ Goto(c, to)
       ELSE Done(c, "error") /\ UNCHANGED records
    /\ UNCHANGED <<load, req, issued, spared>>

BeingDeleted(f) ==
    \E c \in Procs \X Nodes : c[2] = f /\ calls[c].at \in {"delete.children", "delete.last"}
Misplaced(n, f) == IF ~IsFolder(f) \/ BeingDeleted(f) THEN {n} ELSE {}

----------------------------------------------------------------------------
(* create                                                                  *)

Created(r) ==
    [meta |-> FreshNode(CHOOSE d \in Data : TRUE), kind |-> r.kind, parent |-> r.parent,
     only |-> Kinds,
     writers |-> IF r.kind = "folder" THEN Folder(r.parent).writers ELSE {}]

\* Variant: the filters of the parent are left to update.
CreateCheckUnfiltered(c) ==
    LET r == req[c[1]]
    IN  Proceed(c, "create", WritableBy(r.user, r.parent), Hold(c, "create.add", Created(r)))
CreateCheck(c) ==
    LET r == req[c[1]]
    IN  Proceed(c, "create",
                WritableBy(r.user, r.parent) /\ Satisfies(Created(r), Folder(r.parent).only),
                Hold(c, "create.add", Created(r)))

\* repository.add does not look at the parent.
CreateAdd(c) ==
    /\ At(c, "create.add")
    /\ records' = [n \in DOMAIN records \cup {c[2]} |->
                     IF n = c[2] THEN calls[c].rec ELSE records[n]]
    /\ strayed' = strayed \cup Misplaced(c[2], calls[c].rec.parent)
    /\ Done(c, "ok")
    /\ UNCHANGED <<load, req, issued, spared, relocked>>

----------------------------------------------------------------------------
(* update: a move, new filters, or what the node record itself holds       *)

UpdateRead(c) == ReadNode(c, "update", TRUE, "update.parent")

Changed(rec, who, r) ==
    [rec EXCEPT !.parent = Given(r.parent, @), !.only = Given(r.only, @),
                !.meta = Updated(@, who, r.metadata)]

\* Permission is asked of the parent the node has, not of the one it gets.
UpdateCheck(c) ==
    LET rec == calls[c].rec
    IN  Proceed(c, "update.parent",
                /\ WritableBy(Principal(c), rec.parent)
                /\ CheckNodeLock(Principal(c), rec.meta)
                /\ rec.meta.instance # NoInstance => Principal(c) = WorkflowUser,
                Hold(c, "update.new", Changed(rec, Principal(c), req[c[1]])))

\* The new parent is a folder whose filters the node satisfies; that it is not
\* below the node is not asked.
UpdateCheckNew(c) ==
    LET rec == calls[c].rec
    IN  Proceed(c, "update.new",
                IsFolder(rec.parent) /\ Satisfies(rec, Folder(rec.parent).only),
                Goto(c, IF rec.kind = "folder" /\ req[c[1]].only # Unsent
                        THEN "update.children" ELSE "update.write"))

\* New filters are tested on the children of one page.
\* Variant: they hold for the children to come.
UpdateChildrenLater(c) ==
    /\ At(c, "update.children")
    /\ Goto(c, "update.write")
    /\ UNCHANGED <<records, load, req, issued, spared, strayed, relocked>>
UpdateChildren(c) ==
    /\ At(c, "update.children")
    /\ \E page \in Pages(c[2]) :
         /\ IF \A k \in page : Satisfies(records[k], calls[c].rec.only)
            THEN Goto(c, "update.write") ELSE Done(c, "error")
         /\ spared' = spared \cup (Children(c[2]) \ page)
    /\ UNCHANGED <<records, load, req, issued, strayed, relocked>>

\* An update that writes a folder's lock starts no cascade.
LockOf(r) == <<r.meta.locked, r.meta.lockedBy>>
UpdateWrite(c) ==
    LET rec == calls[c].rec
        there == {c[2]} \cap DOMAIN records
    IN  /\ WriteNode(c, "update.write", rec, "ok")
        /\ strayed' = strayed \cup Misplaced(c[2], rec.parent)
              \cup {n \in there : rec.meta.lockedBy = LockSystem /\ records[n].parent # rec.parent}
        /\ relocked' = relocked \cup {n \in there : LockOf(records[n]) # LockOf(rec)}

----------------------------------------------------------------------------
(* delete                                                                  *)

\* A node in a workflow is not deleted; the lock is not looked at.
DeleteRead(c) ==
    /\ ReadNode(c, "delete", records[c[2]].meta.instance = NoInstance, "delete.parent")

DeleteCheck(c) ==
    CheckParent(c, "delete.parent",
                IF calls[c].rec.kind = "folder" THEN "delete.list" ELSE "delete.last")

\* A call for every child at once; in a folder below itself the calls wait for
\* one another for ever.
\* Variant: the children go after the folder.
DeleteListNone(c) ==
    /\ At(c, "delete.list")
    /\ Goto(c, "delete.last")
    /\ UNCHANGED <<records, load, req, issued, spared, strayed, relocked>>
DeleteList(c) ==
    /\ At(c, "delete.list")
    /\ \E page \in Pages(c[2]) :
         /\ calls' = [d \in DOMAIN calls |->
                        IF d = c THEN [calls[c] EXCEPT !.at = "delete.children", !.todo = page]
                        ELSE IF d[1] = c[1] /\ d[2] \in page /\ At(d, "none")
                             THEN Call("delete", d[2])
                             ELSE calls[d]]
         /\ spared' = spared \cup (Children(c[2]) \ page)
    /\ UNCHANGED <<records, load, req, issued, strayed, relocked>>

\* Promise.allSettled: a refusal is an answer as good as any.
DeleteChildren(c) ==
    /\ At(c, "delete.children")
    /\ \A k \in calls[c].todo : Finished(<<c[1], k>>)
    /\ Hold(c, "delete.last", NoRecord)
    /\ spared' = spared \cup {k \in calls[c].todo : At(<<c[1], k>>, "error")}
    /\ UNCHANGED <<records, load, req, issued, strayed, relocked>>

DeleteLast(c) ==
    /\ At(c, "delete.last")
    /\ records' = [n \in DOMAIN records \ {c[2]} |-> records[n]]
    /\ Done(c, IF c[2] \in DOMAIN records THEN "ok" ELSE "error")
    /\ UNCHANGED <<load, req, issued, spared, strayed, relocked>>

----------------------------------------------------------------------------
(* lock and unlock                                                         *)

LockRead(c) == ReadNode(c, "lock", ~records[c[2]].meta.locked, "lock.parent")
LockCheck(c) == CheckParent(c, "lock.parent", "lock.write")

\* Variant: the lock stays on the folder.
LockWriteAlone(c) ==
    LET rec == calls[c].rec
    IN  /\ WriteNode(c, "lock.write", [rec EXCEPT !.meta = Locked(@, Principal(c), {})], "ok")
        /\ strayed' = strayed \cup Misplaced(c[2], rec.parent)
        /\ UNCHANGED relocked
LockWrite(c) ==
    LET rec == calls[c].rec
    IN  /\ WriteNode(c, "lock.write",
                     [rec EXCEPT !.meta = Locked(@, Principal(c), {})],
                     IF rec.kind = "folder" THEN "lock.list" ELSE "ok")
        /\ strayed' = strayed \cup Misplaced(c[2], rec.parent)
        /\ UNCHANGED relocked

UnlockRead(c) ==
    ReadNode(c, "unlock", MayUnlock(Principal(c), records[c[2]].meta), "unlock.write")

UnlockWrite(c) ==
    LET rec == calls[c].rec
    IN  /\ WriteNode(c, "unlock.write", [rec EXCEPT !.meta = Unlocked(@)],
                     IF rec.kind = "folder" THEN "unlock.list" ELSE "ok")
        /\ strayed' = strayed \cup Misplaced(c[2], rec.parent)
        /\ UNCHANGED relocked

\* The children the cascade will visit: of one page, those not locked yet, or
\* those the lock system locked.
ListToCascade(c, from, wanted(_), to) ==
    /\ At(c, from)
    /\ \E page \in Pages(c[2]) :
         /\ calls' = [calls EXCEPT ![c].at = to,
                                   ![c].todo = {k \in page : wanted(records[k].meta)}]
         /\ spared' = spared \cup (Children(c[2]) \ page)
    /\ UNCHANGED <<records, load, req, issued, strayed, relocked>>

LockList(c) == ListToCascade(c, "lock.list", LAMBDA m : ~m.locked, "lock.children")

\* Variant: only locks of the folder's own locker are taken back.
UnlockListOwn(c) ==
    ListToCascade(c, "unlock.list", LAMBDA m : m.lockedBy = Principal(c), "unlock.children")
UnlockList(c) ==
    ListToCascade(c, "unlock.list", LAMBDA m : m.lockedBy = LockSystem, "unlock.children")

\* One child after the other; what becomes of it is not looked at.
Cascade(c, from, start) ==
    LET child == <<c[1], calls[c].child>>
    IN  /\ At(c, from)
        /\ child = c \/ Finished(child)
        /\ \/ \E k \in calls[c].todo :
                calls' = [d \in DOMAIN calls |->
                   IF d = c
                   THEN [calls[c] EXCEPT !.todo = @ \ {k},
                           !.child = IF At(<<c[1], k>>, "none") THEN k ELSE c[2]]
                   ELSE IF d = <<c[1], k>> /\ At(d, "none") THEN Call(start, k)
                        ELSE calls[d]]
           \/ calls[c].todo = {} /\ Done(c, "ok")
        /\ UNCHANGED <<records, load, req, issued, spared, strayed, relocked>>

LockChildren(c)   == Cascade(c, "lock.children", "lock")
UnlockChildren(c) == Cascade(c, "unlock.children", "unlock")

----------------------------------------------------------------------------
(* Requests                                                                *)

\* A request arrives; a node that is created gets a uuid of its own.
Start(p) ==
    /\ p \in load.procs /\ req[p] = NoRequest
    /\ \E r \in load.requests :
         /\ r.op = "create" <=> r.node \notin issued
         /\ req' = [req EXCEPT ![p] = r]
         /\ calls' = [calls EXCEPT ![<<p, r.node>>] = Call(r.op, r.node)]
         /\ issued' = issued \cup {r.node}
    /\ UNCHANGED <<records, load, spared, strayed, relocked>>

Reply(p) ==
    /\ req[p] # NoRequest /\ Finished(<<p, req[p].node>>)
    /\ req' = [req EXCEPT ![p] = NoRequest]
    /\ calls' = [c \in DOMAIN calls |-> IF c[1] = p THEN Call("none", c[2]) ELSE calls[c]]
    /\ UNCHANGED <<records, load, issued, spared, strayed, relocked>>

\* The workflow engine marks a node or clears its mark (WorkflowInstances).
Mark(n, i) ==
    /\ n \in DOMAIN records /\ records[n].meta.instance # i
    /\ records' = [records EXCEPT ![n].meta.instance = i]
    /\ UNCHANGED <<load, req, calls, issued, spared, strayed, relocked>>

Step(c) ==
    \/ CreateCheck(c) \/ CreateAdd(c)
    \/ UpdateRead(c) \/ UpdateCheck(c) \/ UpdateCheckNew(c) \/ UpdateChildren(c)
    \/ UpdateWrite(c)
    \/ DeleteRead(c) \/ DeleteCheck(c) \/ DeleteList(c) \/ DeleteChildren(c) \/ DeleteLast(c)
    \/ LockRead(c) \/ LockCheck(c) \/ LockWrite(c) \/ LockList(c) \/ LockChildren(c)
    \/ UnlockRead(c) \/ UnlockWrite(c) \/ UnlockList(c) \/ UnlockChildren(c)

Next ==
    \/ \E c \in Procs \X Nodes : Step(c)
    \/ \E p \in Procs : Start(p) \/ Reply(p)
    \/ \E n \in InWorkflows, i \in InstanceIds \cup {NoInstance} : Mark(n, i)

Spec == Init /\ [][Next]_vars

----------------------------------------------------------------------------
(* Properties                                                              *)

Alone == Cardinality(load.procs) = 1
Quiet == \A p \in Procs : req[p] = NoRequest
Orphans == {n \in DOMAIN records : ~IsFolder(records[n].parent)}

\* However requests are interleaved, a record without its folder is one whose
\* own deletion was refused or never tried (delete lists one page and takes a
\* refusal for an answer), or one written into a folder that was being deleted
\* (create and update look at the folder first and write later, and a lock or
\* an unlock writes the parent it read).
OrphansAccounted == Orphans \subseteq spared \cup strayed

\* One request at a time, every node satisfies the filters of its folder,
\* whatever is created, moved or narrowed, except children beyond the page that
\* update tests, and a folder put into itself, which the filters it gives itself
\* in the same update need not admit.
FiltersHold ==
    Alone /\ Quiet => \A n \in DOMAIN records \ (Orphans \cup spared) :
       records[n].parent # n => Satisfies(records[n], Folder(records[n].parent).only)

\* One request at a time, a lock of the lock system, which nobody can take off
\* directly, has a locked folder above it to take it off.  A child beyond the
\* page, one refused by a delete and one moved with its lock are the exceptions,
\* and so are a node and the children of a folder whose lock an update wrote:
\* a client's metadata may name it, and no cascade follows (node_service.ts:723).
SystemLocksHaveFolder ==
    Alone /\ Quiet => \A n \in DOMAIN records \ (spared \cup strayed \cup relocked) :
       LET f == records[n].parent
       IN  records[n].meta.lockedBy = LockSystem =>
              f \in DOMAIN records /\ (records[f].meta.locked \/ f \in relocked)

\* One request at a time: when the lock of a folder is reported as done every
\* child is locked, the cascade's ignored outcomes and all, but for the page.
LockCoversChildren ==
    Alone => \A p \in load.procs :
       req[p] # NoRequest /\ req[p].op = "lock" /\ At(<<p, req[p].node>>, "ok") =>
          \A k \in Children(req[p].node) \ spared : records[k].meta.locked

=============================================================================

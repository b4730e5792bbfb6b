------------------------- MODULE WorkflowInstances -------------------------
(***************************************************************************)
(* WorkflowInstancesEngine (src/application/workflows) together with the   *)
(* NodeService operations it calls and the same operations called directly *)
(* by users.                                                               *)
(*                                                                         *)
(* A request is handled by an async function that loses control at every   *)
(* await of a repository, so one action here is one repository access and  *)
(* the synchronous code up to the next one.  What the function read before *)
(* an await it still holds after it: nodeCopy and instCopy are those local *)
(* records, and a write stores them whole.                                 *)
(***************************************************************************)
EXTENDS WorkflowDefinitions, Sequences, Naturals

CONSTANTS
    Procs,               \* requests that may be in flight at one time
    Nodes,               \* uuids of the documents of one folder
    DefIds,              \* uuids of workflow definitions
    InitialDefinitions,  \* the definitions stored at the start
    Requests,            \* the requests clients may send
    MaxHistory,          \* bound: transitions of one instance
    MaxFailures,         \* bound: repository writes that return an error
    MaxCrashes           \* bound: restarts of the server

VARIABLES
    nodes,        \* NodeRepository: uuid -> record, for the nodes stored
    definitions,  \* ConfigurationRepository "workflows"
    instances,    \* ConfigurationRepository "workflowInstances"
    issued,       \* uuids generated so far
    pc,           \* where each request stands
    req,          \* the request being handled
    nodeCopy,     \* the node record it is about to write
    instCopy,     \* the instance record it has read or is about to write
    failures, crashes,
    rewritten     \* history: nodes whose lock or mark an updateNode rewrote

vars == <<nodes, definitions, instances, issued, pc, req, nodeCopy, instCopy,
          failures, crashes, rewritten>>
stores == <<nodes, definitions, instances>>
locals == <<req, nodeCopy, instCopy>>
faults == <<failures, crashes, rewritten>>   \* what has gone wrong so far

----------------------------------------------------------------------------
(* Requests and records                                                    *)

StartRequest      == [op : {"start"}, user : Users, node : Nodes, def : DefIds,
                      override : {NoOverride} \cup SUBSET Groups]
TransitionRequest == [op : {"transition"}, user : Users, inst : InstanceIds,
                      signal : Signals]
InstanceRequest   == [op : {"cancel", "deleteInstance"}, user : Users,
                      inst : InstanceIds]
EditRequest       == [op : {"updateNode"}, user : Users, inst : InstanceIds,
                      metadata : Metadata]
LockRequest       == [op : {"lock"}, user : Users, node : Nodes,
                      groups : SUBSET Groups]
NodeRequest       == [op : {"unlock", "delete"}, user : Users, node : Nodes]
UpdateRequest     == [op : {"update"}, user : Users, node : Nodes, metadata : Metadata]
PutDefRequest     == [op : {"putDefinition"}, user : Users, def : DefIds,
                      body : Definition]
DeleteDefRequest  == [op : {"deleteDefinition"}, user : Users, def : DefIds]

Request == StartRequest \cup TransitionRequest \cup InstanceRequest
             \cup EditRequest \cup LockRequest \cup NodeRequest
             \cup UpdateRequest \cup PutDefRequest \cup DeleteDefRequest

HistoryEntry == [from : StateNames, to : StateNames, signal : Signals, user : Users]

\* WorkflowInstanceData; definition is the snapshot taken at the start.
Instance ==
    [ uuid         : InstanceIds,
      node         : Nodes,
      def          : DefIds,
      definition   : Definition,
      current      : StateNames,
      running      : BOOLEAN,
      cancelled    : BOOLEAN,
      history      : Seq(HistoryEntry),
      participants : SUBSET Groups,
      owner        : Users ]

NewInstance(i, r, d) ==
    [ uuid |-> i, node |-> r.node, def |-> r.def, definition |-> d,
      current |-> d.initial, running |-> TRUE, cancelled |-> FALSE,
      history |-> <<>>,
      participants |-> ResolveParticipants(d.participants, r.override),
      owner |-> r.user ]

\* Variant: the signal is taken for the state it leads to.
AdvancedToSignal(inst, t, who) == [inst EXCEPT !.current = t.signal]
\* A transition says again whether the instance runs, from its target alone.
Advanced(inst, t, who) ==
    [ inst EXCEPT
        !.current = t.to,
        !.history = Append(@, [from |-> inst.current, to |-> t.to,
                               signal |-> t.signal, user |-> who]),
        !.running = t.to \notin inst.definition.final ]

\* Variant: running is left alone.
CancelledRunning(inst) == [inst EXCEPT !.cancelled = TRUE]
Cancelled(inst) == [inst EXCEPT !.cancelled = TRUE, !.running = FALSE]

\* A key-value collection: a function on the keys stored.
IsStore(store, keys, values) ==
    /\ store = [k \in DOMAIN store |-> store[k]]
    /\ DOMAIN store \subseteq keys
    /\ \A k \in DOMAIN store : store[k] \in values
Put(store, k, v) ==
    [x \in DOMAIN store \cup {k} |-> IF x = k THEN v ELSE store[x]]
Remove(store, k) == [x \in DOMAIN store \ {k} |-> store[x]]

ASSUME InstancesAssumption ==
    /\ {MaxHistory, MaxFailures, MaxCrashes} \subseteq Nat
    /\ \A r \in Requests : r \in Request
    /\ IsStore(InitialDefinitions, DefIds, Definition)
    /\ \A d \in DOMAIN InitialDefinitions : SatisfiesSchema(InitialDefinitions[d])

NoRequest == [op |-> "none"]
NoCopy    == <<>>

Init ==
    /\ nodes \in [Nodes -> {FreshNode(d) : d \in Data}]
    /\ definitions = InitialDefinitions
    /\ instances = [i \in {} |-> NoCopy]
    /\ issued = {}
    /\ pc = [p \in Procs |-> "idle"]
    /\ req = [p \in Procs |-> NoRequest]
    /\ nodeCopy = [p \in Procs |-> NoCopy]
    /\ instCopy = [p \in Procs |-> NoCopy]
    /\ failures = 0 /\ crashes = 0 /\ rewritten = {}

----------------------------------------------------------------------------
(* Building blocks of the handlers                                         *)

\* The requests that name an instance act on the node of its record.
NodeOf(p) ==
    IF req[p].op \in {"transition", "cancel", "updateNode"}
    THEN instCopy[p].node ELSE req[p].node

\* The principal of a node update: the workflow's own for its engine.
Actor(p) == IF req[p].op = "updateNode" THEN WorkflowUser ELSE req[p].user

At(p, label) == pc[p] = label
Goto(p, label) == pc' = [pc EXCEPT ![p] = label]

\* A NodeService operation reads the node and either refuses or goes on to
\* write `record`.
NodeRead(p, at, allowed, record, then, refused) ==
    /\ At(p, at)
    /\ \/ /\ NodeOf(p) \in DOMAIN nodes /\ allowed
          /\ nodeCopy' = [nodeCopy EXCEPT ![p] = record]
          /\ Goto(p, then)
       \/ /\ ~(NodeOf(p) \in DOMAIN nodes /\ allowed)
          /\ Goto(p, refused)
          /\ UNCHANGED nodeCopy
    /\ UNCHANGED <<stores, issued, req, instCopy, faults>>

\* Where a handler goes when a write returns an error.
\* Variant: the instance saved is forgotten when the node cannot be marked.
OnFailureUnlocks(label) ==
    IF label \in {"start.save", "start.unsave", "start.marking"}
    THEN "start.unlock" ELSE "error"
OnFailure(label) ==
    CASE label \in {"start.save", "start.unsave"} -> "start.unlock"
      [] label = "start.marking"                  -> "start.unsave"
      [] OTHER                                    -> "error"

\* An updateNode that brings values for the lock or the mark: nothing keeps
\* it from freeing the node of its workflow.
Rewrites(r) == r.op = "updateNode" /\ ~OnlyContent(r.metadata)

\* repository.update writes the whole record if the node is still there.
NodeWrite(p, at, then) ==
    /\ At(p, at)
    /\ \/ /\ NodeOf(p) \in DOMAIN nodes
          /\ nodes' = Put(nodes, NodeOf(p), nodeCopy[p])
          /\ rewritten' = rewritten \cup {n \in {NodeOf(p)} : Rewrites(req[p])}
          /\ Goto(p, then)
       \/ /\ NodeOf(p) \notin DOMAIN nodes
          /\ Goto(p, OnFailure(at))
          /\ UNCHANGED <<nodes, rewritten>>
    /\ UNCHANGED <<definitions, instances, issued, locals, failures, crashes>>

\* configRepo.save inserts or replaces the whole record.
SaveInstance(p, at, then) ==
    /\ At(p, at)
    /\ instances' = Put(instances, instCopy[p].uuid, instCopy[p])
    /\ Goto(p, then)
    /\ UNCHANGED <<nodes, definitions, issued, locals, faults>>

\* A step that only decides where the handler goes.
Decide(p, at, next) ==
    /\ At(p, at)
    /\ Goto(p, next)
    /\ UNCHANGED <<stores, issued, locals, faults>>

\* getWorkflowInstance: the instance is stored and the user may see it.
Visible(p) ==
    /\ req[p].inst \in DOMAIN instances
    /\ HasPermission(req[p].user, instances[req[p].inst].participants)
\* Variant: the snapshot gives way to the definition as it is now.
ReadInstanceRefreshed(p) ==
    LET inst == instances[req[p].inst]
    IN  IF inst.def \in DOMAIN definitions
        THEN [inst EXCEPT !.definition = definitions[inst.def]] ELSE inst
ReadInstance(p) == instances[req[p].inst]

----------------------------------------------------------------------------
(* startWorkflow                                                           *)

RunningOn(n) ==
    {i \in DOMAIN instances :
        instances[i].node = n /\ instances[i].running /\ ~instances[i].cancelled}

\* getWorkflowInstanceByNodeUuid picks the first running instance the
\* repository lists and fails when the caller may not see it; any failure is
\* read as "there is none".
\* Variant: only the lock on the node stands against a second workflow.
StartUnchecked(p) == Decide(p, "start", "start.node")
StartCheck(p) ==
    /\ At(p, "start")
    /\ LET running == RunningOn(req[p].node)
           sees(i) == HasPermission(req[p].user, instances[i].participants)
       IN  \/ (\E i \in running : sees(i)) /\ Goto(p, "error")
           \/ (\E i \in running : ~sees(i)) /\ Goto(p, "start.node")
           \/ running = {} /\ Goto(p, "start.node")
    /\ UNCHANGED <<stores, issued, locals, faults>>

StartGetNode(p) ==
    NodeRead(p, "start.node", MayRead(req[p].user), nodes[NodeOf(p)],
             "start.definition", "error")

\* The definition is read and every remaining check is made on it and on the
\* node read before it; the instance is built, with a snapshot of it.
MayStart(p) ==
    /\ issued # InstanceIds     \* bound: uuids left
    /\ req[p].def \in DOMAIN definitions
    /\ LET d == definitions[req[p].def]
       IN  /\ HasPermission(req[p].user, d.participants)
           /\ OverrideAccepted(d.participants, req[p].override)
           /\ ~nodeCopy[p].locked
           /\ nodeCopy[p].data \in d.filters

StartGetDefinition(p) ==
    /\ At(p, "start.definition")
    /\ \/ /\ MayStart(p)
          /\ \E i \in InstanceIds \ issued :
                /\ issued' = issued \cup {i}
                /\ instCopy' = [instCopy EXCEPT ![p] =
                       NewInstance(i, req[p], definitions[req[p].def])]
          /\ Goto(p, "start.lock")
       \/ /\ ~MayStart(p)
          /\ Goto(p, "error")
          /\ UNCHANGED <<issued, instCopy>>
    /\ UNCHANGED <<stores, req, nodeCopy, faults>>

\* lock(authCtx, nodeUuid, []): the empty list becomes the starter's groups.
StartLock(p) ==
    NodeRead(p, "start.lock", MayLock(req[p].user, nodes[NodeOf(p)]),
             Locked(nodes[NodeOf(p)], req[p].user, {}), "start.locking", "error")
StartLocking(p) == NodeWrite(p, "start.locking", "start.save")

StartSave(p) == SaveInstance(p, "start.save", "start.mark")

StartMark(p) ==
    NodeRead(p, "start.mark", MayUpdate(WorkflowUser, nodes[NodeOf(p)]),
             Marked(nodes[NodeOf(p)], instCopy[p].uuid, instCopy[p].current),
             "start.marking", "start.unsave")
StartMarking(p) == NodeWrite(p, "start.marking", "ok")

\* The rollback: the results of both its calls are ignored.
StartUnsave(p) ==
    /\ At(p, "start.unsave")
    /\ instances' = Remove(instances, instCopy[p].uuid)
    /\ Goto(p, "start.unlock")
    /\ UNCHANGED <<nodes, definitions, issued, locals, faults>>
StartUnlock(p) ==
    NodeRead(p, "start.unlock", MayUnlock(req[p].user, nodes[NodeOf(p)]),
             Unlocked(nodes[NodeOf(p)]), "start.unlocking", "error")
StartUnlocking(p) == NodeWrite(p, "start.unlocking", "error")

Start(p) ==
    \/ StartCheck(p) \/ StartGetNode(p) \/ StartGetDefinition(p)
    \/ StartLock(p) \/ StartLocking(p) \/ StartSave(p)
    \/ StartMark(p) \/ StartMarking(p)
    \/ StartUnsave(p) \/ StartUnlock(p) \/ StartUnlocking(p)

----------------------------------------------------------------------------
(* transition                                                              *)

\* Only `cancelled` is looked at, not `running`.  MaxHistory is the bound.
\* Variant: not even `cancelled`.
MayTransitionCancelled(p) == Visible(p) /\ Len(ReadInstance(p).history) < MaxHistory
MayTransition(p) ==
    /\ Visible(p)
    /\ ~ReadInstance(p).cancelled
    /\ Len(ReadInstance(p).history) < MaxHistory

TransitionGet(p) ==
    /\ At(p, "transition")
    /\ \/ /\ MayTransition(p)
          /\ instCopy' = [instCopy EXCEPT ![p] = ReadInstance(p)]
          /\ Goto(p, "transition.node")
       \/ ~MayTransition(p) /\ Goto(p, "error") /\ UNCHANGED instCopy
    /\ UNCHANGED <<stores, issued, req, nodeCopy, faults>>

\* The transitions of the snapshot this request may take.
\* Variants: the signal of any state; groupsAllowed ignored.
EnabledAnywhere(p) ==
    {t \in instCopy[p].definition.transitions :
        /\ t.signal = req[p].signal
        /\ NodeOf(p) \in DOMAIN nodes /\ MayRead(req[p].user)
        /\ nodes[NodeOf(p)].data \in t.filters
        /\ InAllowedGroup(req[p].user, t)}
EnabledForAll(p) ==
    {t \in instCopy[p].definition.transitions :
        /\ t.from = instCopy[p].current /\ t.signal = req[p].signal
        /\ NodeOf(p) \in DOMAIN nodes /\ nodes[NodeOf(p)].data \in t.filters}
Enabled(p) ==
    {t \in instCopy[p].definition.transitions :
        /\ t.from = instCopy[p].current /\ t.signal = req[p].signal
        /\ NodeOf(p) \in DOMAIN nodes /\ MayRead(req[p].user)
        /\ nodes[NodeOf(p)].data \in t.filters
        /\ InAllowedGroup(req[p].user, t)}

\* The node is read and checked against the transition; the record to be
\* saved is the instance read by TransitionGet, advanced.
TransitionGetNode(p) ==
    /\ At(p, "transition.node")
    /\ \/ \E t \in Enabled(p) :
            /\ instCopy' = [instCopy EXCEPT ![p] = Advanced(@, t, req[p].user)]
            /\ Goto(p, IF t.actions THEN "transition.actions" ELSE "transition.save")
       \/ Enabled(p) = {} /\ Goto(p, "error") /\ UNCHANGED instCopy
    /\ UNCHANGED <<stores, issued, req, nodeCopy, faults>>

\* The features' code may take any time and may fail; NodeService refuses it
\* any change of a node in a workflow.
TransitionActions(p) ==
    \E next \in {"transition.save", "error"} : Decide(p, "transition.actions", next)

TransitionSave(p) ==
    SaveInstance(p, "transition.save",
                 IF instCopy[p].running THEN "transition.mark" ELSE "release")

\* Not final: the node is told the new state.
TransitionMark(p) ==
    NodeRead(p, "transition.mark", MayUpdate(WorkflowUser, nodes[NodeOf(p)]),
             Marked(nodes[NodeOf(p)], nodes[NodeOf(p)].instance, instCopy[p].current),
             "transition.marking", "error")
TransitionMarking(p) == NodeWrite(p, "transition.marking", "ok")

TransitionRequests(p) ==
    \/ TransitionGet(p) \/ TransitionGetNode(p) \/ TransitionActions(p)
    \/ TransitionSave(p) \/ TransitionMark(p) \/ TransitionMarking(p)

----------------------------------------------------------------------------
(* cancelWorkflow, and the release of the node it shares with a final      *)
(* transition: unlock with the caller's rights, then clear the mark with   *)
(* the workflow's.                                                         *)

MayCancel(p) ==
    /\ Visible(p)
    /\ LET inst == ReadInstance(p)
       IN  /\ IsAdmin(req[p].user) \/ inst.owner = req[p].user
           /\ ~inst.cancelled /\ inst.running

CancelGet(p) ==
    /\ At(p, "cancel")
    /\ \/ /\ MayCancel(p)
          /\ instCopy' = [instCopy EXCEPT ![p] = Cancelled(ReadInstance(p))]
          /\ Goto(p, "cancel.save")
       \/ ~MayCancel(p) /\ Goto(p, "error") /\ UNCHANGED instCopy
    /\ UNCHANGED <<stores, issued, req, nodeCopy, faults>>

CancelSave(p) == SaveInstance(p, "cancel.save", "release")

\* Variant: an unlock refused is tried again.
ReleaseRetried(p) ==
    NodeRead(p, "release", MayUnlock(req[p].user, nodes[NodeOf(p)]),
             Unlocked(nodes[NodeOf(p)]), "releasing", "release")
Release(p) ==
    NodeRead(p, "release", MayUnlock(req[p].user, nodes[NodeOf(p)]),
             Unlocked(nodes[NodeOf(p)]), "releasing", "error")
Releasing(p) == NodeWrite(p, "releasing", "clear")
Clear(p) ==
    NodeRead(p, "clear", MayUpdate(WorkflowUser, nodes[NodeOf(p)]),
             Marked(nodes[NodeOf(p)], NoInstance, NoState), "clearing", "error")
Clearing(p) == NodeWrite(p, "clearing", "ok")

CancelAndRelease(p) ==
    \/ CancelGet(p) \/ CancelSave(p)
    \/ Release(p) \/ Releasing(p) \/ Clear(p) \/ Clearing(p)

----------------------------------------------------------------------------
(* updateNode within a workflow, and deletion of an instance record        *)

MayEdit(p) ==
    /\ Visible(p)
    /\ LET inst == ReadInstance(p)
       IN  /\ ~inst.cancelled /\ inst.running
           /\ CanUserModifyInState(req[p].user, inst.definition, inst.current,
                                   inst.participants)

EditGet(p) ==
    /\ At(p, "updateNode")
    /\ \/ /\ MayEdit(p)
          /\ instCopy' = [instCopy EXCEPT ![p] = ReadInstance(p)]
          /\ Goto(p, "update")
       \/ ~MayEdit(p) /\ Goto(p, "error") /\ UNCHANGED instCopy
    /\ UNCHANGED <<stores, issued, req, nodeCopy, faults>>

\* Any instance may be deleted, a running one too; its node keeps its mark.
DeleteInstance(p) ==
    /\ At(p, "deleteInstance")
    /\ \/ /\ IsAdmin(req[p].user) /\ req[p].inst \in DOMAIN instances
          /\ instances' = Remove(instances, req[p].inst)
          /\ Goto(p, "ok")
       \/ /\ ~(IsAdmin(req[p].user) /\ req[p].inst \in DOMAIN instances)
          /\ Goto(p, "error")
          /\ UNCHANGED instances
    /\ UNCHANGED <<nodes, definitions, issued, locals, faults>>

----------------------------------------------------------------------------
(* NodeService called directly                                             *)

Update(p) ==
    NodeRead(p, "update", MayUpdate(Actor(p), nodes[NodeOf(p)]),
             Updated(nodes[NodeOf(p)], Actor(p), req[p].metadata), "updating", "error")
Updating(p) == NodeWrite(p, "updating", "ok")

Lock(p) ==
    NodeRead(p, "lock", MayLock(req[p].user, nodes[NodeOf(p)]),
             Locked(nodes[NodeOf(p)], req[p].user, req[p].groups), "locking", "error")
Locking(p) == NodeWrite(p, "locking", "ok")

Unlock(p) ==
    NodeRead(p, "unlock", MayUnlock(req[p].user, nodes[NodeOf(p)]),
             Unlocked(nodes[NodeOf(p)]), "unlocking", "error")
Unlocking(p) == NodeWrite(p, "unlocking", "ok")

Delete(p) ==
    NodeRead(p, "delete", MayDelete(req[p].user, nodes[NodeOf(p)]),
             nodes[NodeOf(p)], "deleting", "error")
Deleting(p) ==
    /\ At(p, "deleting")
    /\ nodes' = Remove(nodes, NodeOf(p))
    /\ Goto(p, IF NodeOf(p) \in DOMAIN nodes THEN "ok" ELSE "error")
    /\ UNCHANGED <<definitions, instances, issued, locals, faults>>

NodeRequests(p) ==
    \/ EditGet(p) \/ Update(p) \/ Updating(p)
    \/ Lock(p) \/ Locking(p) \/ Unlock(p) \/ Unlocking(p)
    \/ Delete(p) \/ Deleting(p)

----------------------------------------------------------------------------
(* WorkflowsService: createOrReplaceWorkflow and deleteWorkflow            *)

PutDefinition(p) ==
    Decide(p, "putDefinition",
           IF ~IsAdmin(req[p].user) THEN "error"
           ELSE IF req[p].def \in DOMAIN definitions THEN "putDefinition.update"
           ELSE IF ~SatisfiesSchema(req[p].body) THEN "error" ELSE "putDefinition.save")

\* updateWorkflow reads it again.
PutDefinitionUpdate(p) ==
    Decide(p, "putDefinition.update",
           IF req[p].def \in DOMAIN definitions /\ SatisfiesSchema(req[p].body)
           THEN "putDefinition.save" ELSE "error")

PutDefinitionSave(p) ==
    /\ At(p, "putDefinition.save")
    /\ definitions' = Put(definitions, req[p].def, req[p].body)
    /\ Goto(p, "ok")
    /\ UNCHANGED <<nodes, instances, issued, locals, faults>>

InUse(d) == \E i \in DOMAIN instances : instances[i].def = d /\ instances[i].running

DeleteDefinition(p) ==
    Decide(p, "deleteDefinition",
           IF IsAdmin(req[p].user) /\ ~InUse(req[p].def)
           THEN "deleteDefinition.delete" ELSE "error")

DeleteDefinitionDelete(p) ==
    /\ At(p, "deleteDefinition.delete")
    /\ definitions' = Remove(definitions, req[p].def)
    /\ Goto(p, IF req[p].def \in DOMAIN definitions THEN "ok" ELSE "error")
    /\ UNCHANGED <<nodes, instances, issued, locals, faults>>

DefinitionRequests(p) ==
    \/ PutDefinition(p) \/ PutDefinitionUpdate(p) \/ PutDefinitionSave(p)
    \/ DeleteDefinition(p) \/ DeleteDefinitionDelete(p)

----------------------------------------------------------------------------
(* The server                                                              *)

\* A uuid is random: no client sends one before it has been generated.
Named(r) ==
    r.op = "updateNode" => r.metadata.instance \in issued \cup {NoInstance, Unsent}

Issue(p) ==
    /\ At(p, "idle")
    /\ \E r \in Requests :
          /\ Named(r)
          /\ req' = [req EXCEPT ![p] = r]
          /\ Goto(p, r.op)
    /\ UNCHANGED <<stores, issued, nodeCopy, instCopy, faults>>

\* The reply is sent and the handler's locals are gone.
Reply(p) ==
    /\ pc[p] \in {"ok", "error"}
    /\ Goto(p, "idle")
    /\ req' = [req EXCEPT ![p] = NoRequest]
    /\ nodeCopy' = [nodeCopy EXCEPT ![p] = NoCopy]
    /\ instCopy' = [instCopy EXCEPT ![p] = NoCopy]
    /\ UNCHANGED <<stores, issued, faults>>

\* A repository write returns an error and stores nothing.
Writes == { "start.locking", "start.save", "start.marking", "start.unsave",
            "start.unlocking", "transition.save", "transition.marking",
            "cancel.save", "releasing", "clearing", "deleteInstance", "updating",
            "locking", "unlocking", "deleting", "putDefinition.save",
            "deleteDefinition.delete" }
WriteFails(p) ==
    /\ failures < MaxFailures
    /\ pc[p] \in Writes
    /\ failures' = failures + 1
    /\ Goto(p, OnFailure(pc[p]))
    /\ UNCHANGED <<stores, issued, locals, crashes, rewritten>>

\* A restart loses every request in flight and keeps what is stored.
Crash ==
    /\ crashes < MaxCrashes
    /\ \E p \in Procs : pc[p] # "idle"
    /\ crashes' = crashes + 1
    /\ pc' = [p \in Procs |-> "idle"]
    /\ req' = [p \in Procs |-> NoRequest]
    /\ nodeCopy' = [p \in Procs |-> NoCopy]
    /\ instCopy' = [p \in Procs |-> NoCopy]
    /\ UNCHANGED <<stores, issued, failures, rewritten>>

Handle(p) ==
    \/ Start(p) \/ TransitionRequests(p) \/ CancelAndRelease(p)
    \/ NodeRequests(p) \/ DeleteInstance(p) \/ DefinitionRequests(p)
    \/ WriteFails(p) \/ Reply(p)

Next == Crash \/ \E p \in Procs : Issue(p) \/ Handle(p)

Spec == Init /\ [][Next]_vars

\* An awaited repository call settles, so a handler always goes on.
LiveSpec == Spec /\ \A p \in Procs : WF_vars(Handle(p))

----------------------------------------------------------------------------
(* Types                                                                   *)

\* While a handler stands at one of these labels it is about to write
\* nodeCopy ...
WritesNode ==
    { "start.locking", "start.marking", "start.unlocking", "transition.marking",
      "releasing", "clearing", "updating", "locking", "unlocking" }
\* ... and at one of these it still needs instCopy.
NeedsInstance ==
    { "start.lock", "start.locking", "start.save", "start.mark", "start.marking",
      "start.unsave", "start.unlock", "start.unlocking",
      "transition.node", "transition.actions", "transition.save",
      "transition.mark", "transition.marking",
      "cancel.save", "release", "releasing", "clear", "clearing" }
Labels ==
    WritesNode \cup NeedsInstance \cup
    { "idle", "ok", "error", "start", "start.node", "start.definition",
      "transition", "cancel", "updateNode", "deleteInstance", "update", "lock",
      "unlock", "delete", "deleting", "putDefinition", "putDefinition.update",
      "putDefinition.save", "deleteDefinition", "deleteDefinition.delete" }

TypeOK ==
    /\ IsStore(nodes, Nodes, NodeRecord)
    /\ IsStore(definitions, DefIds, Definition)
    /\ IsStore(instances, InstanceIds, Instance)
    /\ issued \subseteq InstanceIds
    /\ pc \in [Procs -> Labels]
    /\ DOMAIN req = Procs /\ DOMAIN nodeCopy = Procs /\ DOMAIN instCopy = Procs
    /\ \A p \in Procs :
          /\ pc[p] # "idle" => req[p] \in Requests
          /\ pc[p] \in WritesNode \cup {"start.definition"} => nodeCopy[p] \in NodeRecord
          /\ pc[p] \in NeedsInstance => instCopy[p] \in Instance
          /\ pc[p] \in {"update", "updating"} /\ req[p].op = "updateNode"
                => instCopy[p] \in Instance
    /\ failures \in 0..MaxFailures /\ crashes \in 0..MaxCrashes
    /\ rewritten \subseteq Nodes

----------------------------------------------------------------------------
(* Safety, whatever the interleaving, the failures and the restarts        *)

IsPath(inst) ==
    LET h == inst.history
    IN  /\ \A k \in DOMAIN h : \E t \in inst.definition.transitions :
              t.from = h[k].from /\ t.signal = h[k].signal /\ t.to = h[k].to
        /\ \A k \in DOMAIN h : h[k].from =
              IF k = 1 THEN inst.definition.initial ELSE h[k-1].to
        /\ inst.current =
              IF h = <<>> THEN inst.definition.initial ELSE h[Len(h)].to

\* The history of an instance is a walk of its own snapshot of the workflow
\* definition, from the initial state to the current one, however the
\* definition is edited meanwhile and however transitions overlap
\* (WorkflowInstancesEngine.transition).
HistoryIsPath == \A i \in DOMAIN instances : IsPath(instances[i])

\* Every recorded transition was made by a user who may take part in the
\* instance and whom that transition's groupsAllowed admits
\* (WorkflowInstancesEngine.transition, #hasPermission).
IsAuthorised(inst) ==
    \A k \in DOMAIN inst.history :
       LET e == inst.history[k]
       IN  /\ HasPermission(e.user, inst.participants)
           /\ \E t \in inst.definition.transitions :
                 /\ t.from = e.from /\ t.signal = e.signal
                 /\ InAllowedGroup(e.user, t)
HistoryAuthorised == \A i \in DOMAIN instances : IsAuthorised(instances[i])

\* `running` agrees with the state machine: a cancelled instance does not
\* run, and another one that has moved runs exactly when its current state is
\* not final (transition, cancelWorkflow: whole records saved from copies).
IsConsistent(inst) ==
    /\ inst.cancelled => ~inst.running
    /\ ~inst.cancelled /\ inst.history # <<>>
          => (inst.running <=> inst.current \notin inst.definition.final)
RunningIsConsistent == \A i \in DOMAIN instances : IsConsistent(instances[i])

\* While an instance is stored nothing changes what it was started with: its
\* node, owner, participants and its snapshot, which later edits of the
\* definition must not reach (workflow_instance_data.ts, WorkflowDefinitionSnapshot).
Identity(inst) ==
    <<inst.uuid, inst.node, inst.def, inst.definition, inst.participants, inst.owner>>
IdentityIsFixed ==
    [][\A i \in DOMAIN instances \cap DOMAIN instances' :
          Identity(instances'[i]) = Identity(instances[i])]_vars

----------------------------------------------------------------------------
(* Safety when requests come one at a time                                 *)

Quiet == \A p \in Procs : pc[p] = "idle"
Running(i) == instances[i].running

\* Between requests a node and its workflow agree: a running instance's node
\* is stored, locked and marked with the instance and its current state, and a
\* marked node belongs to a running instance (startWorkflow, transition and
\* cancelWorkflow each take several calls to get there).  Neither what else is
\* asked of the node meanwhile nor lock fields in an update break this; only
\* an updateNode whose metadata name the lock or the mark does, since it hands
\* them on with the workflow's rights (workflow_instances_engine.ts:540).
NodeFollowsInstance ==
    Quiet =>
      /\ \A i \in DOMAIN instances :
            Running(i) /\ instances[i].node \notin rewritten =>
            /\ instances[i].node \in DOMAIN nodes
            /\ LET n == nodes[instances[i].node]
               IN  n.locked /\ n.instance = i /\ n.state = instances[i].current
      /\ \A n \in DOMAIN nodes \ rewritten : nodes[n].instance # NoInstance =>
            nodes[n].instance \in DOMAIN instances /\ Running(nodes[n].instance)

\* A start that reports an error has undone what it did, after one failed
\* write: none of its instances is stored, and the node is neither locked by
\* it nor marked (the rollbacks of startWorkflow).
FailedStartLeavesNothing ==
    \A p \in Procs :
       (pc[p] = "error" /\ req[p].op = "start" /\ instCopy[p] # NoCopy) =>
          /\ instCopy[p].uuid \notin DOMAIN instances
          /\ NodeOf(p) \in DOMAIN nodes =>
                /\ nodes[NodeOf(p)].instance # instCopy[p].uuid
                /\ ~nodes[NodeOf(p)].locked

\* While an instance runs and no updateNode has rewritten its node's mark, the
\* content of the node changes only at the hand of an updateNode request, by a
\* user the current state lets modify it.
EditsFollowState ==
    [][\A n \in (DOMAIN nodes \cap DOMAIN nodes') \ rewritten : \A i \in DOMAIN instances :
          (Running(i) /\ nodes[n].instance = i /\ nodes'[n].data # nodes[n].data) =>
             \E p \in Procs :
                /\ pc[p] = "updating" /\ req[p].op = "updateNode"
                /\ CanUserModifyInState(req[p].user, instances[i].definition,
                                        instances[i].current, instances[i].participants)]_vars

\* Nothing the engine does may bring a cancelled instance back
\* ("Cannot transition a cancelled workflow instance").
CancelledStays ==
    [][\A i \in DOMAIN instances \cap DOMAIN instances' :
          instances[i].cancelled => instances'[i].cancelled]_vars

----------------------------------------------------------------------------
(* The lifecycle it implements, and liveness                               *)

Life ==
    [i \in DOMAIN instances |->
       [definition |-> instances[i].definition,
        current    |-> instances[i].current,
        status     |-> IF instances[i].cancelled THEN "cancelled"
                       ELSE IF instances[i].running THEN "running" ELSE "finished"]]

KnownDefinitions ==
    {InitialDefinitions[d] : d \in DOMAIN InitialDefinitions}
    \cup {r.body : r \in {q \in Requests : q.op = "putDefinition"}}

Lifecycle == INSTANCE WorkflowLifecycle
                WITH life <- Life, Definitions <- KnownDefinitions

\* Handled one at a time, with failed writes and restarts, requests take every
\* stored instance through the promised lifecycle.
ImplementsLifecycle == Lifecycle!Spec

\* Every request is answered.
EveryRequestReplies == \A p \in Procs : pc[p] # "idle" ~> pc[p] = "idle"
=============================================================================

---------------------- MODULE WorkflowSequentialProofs ----------------------
(***************************************************************************)
(* The workflow engine with its requests handled one at a time: what the   *)
(* lines of startWorkflow, transition and cancelWorkflow achieve when      *)
(* nobody runs between their repository accesses.                          *)
(*                                                                         *)
(* The engine implements the abstract lifecycle of an instance, a failed   *)
(* start leaves nothing behind, and a node stays in step with its          *)
(* instance.  Each rests on an invariant about what the handler in         *)
(* progress holds: the copy it will save is one lifecycle step away from   *)
(* the stored record (AloneInv), the marks and the lock of a start are its *)
(* own (StartsInv), and at most one instance, the one being handled,       *)
(* disagrees with its node (FollowInv).                                    *)
(***************************************************************************)
EXTENDS WorkflowInstancesProofs

----------------------------------------------------------------------------
(* The lifecycle, when requests are handled one at a time                  *)

\* What a handler may still save is one lifecycle step away from what is
\* stored; nobody else can have moved the instance since it was read.
HandOK(l, who, copy) ==
    /\ l \in {"start.lock", "start.locking", "start.save"} =>
          /\ copy.uuid \notin DOMAIN instances
          /\ copy.definition \in KnownDefinitions
          /\ copy.current = copy.definition.initial
          /\ copy.running /\ ~copy.cancelled
    /\ l = "transition.node" =>
          copy.uuid \in DOMAIN instances /\ copy = instances[copy.uuid]
    /\ l \in {"transition.actions", "transition.save"} =>
          /\ copy.uuid \in DOMAIN instances
          /\ ~instances[copy.uuid].cancelled
          /\ \E t \in instances[copy.uuid].definition.transitions :
                /\ t.from = instances[copy.uuid].current
                /\ copy = Advanced(instances[copy.uuid], t, who)
    /\ l = "cancel.save" =>
          /\ copy.uuid \in DOMAIN instances
          /\ instances[copy.uuid].running /\ ~instances[copy.uuid].cancelled
          /\ copy = Cancelled(instances[copy.uuid])

KnownOnly == \A d \in DOMAIN definitions : definitions[d] \in KnownDefinitions

AloneInv ==
    /\ KnownOnly
    /\ \A p \in Procs : HandOK(pc[p], req[p].user, instCopy[p])

\* The labels at which HandOK asks something.
StartHeld == {"start.lock", "start.locking", "start.save"}
Holding == StartHeld \cup {"transition.node", "transition.actions", "transition.save",
                           "cancel.save"}

StatusOf(inst) ==
    IF inst.cancelled THEN "cancelled" ELSE IF inst.running THEN "running" ELSE "finished"

LifeStep == [Lifecycle!Next]_Life

LEMMA LifeStutters ==
  ASSUME UNCHANGED instances
  PROVE  LifeStep
  BY DEF Life, LifeStep

\* A record put into the collection is the instance's new state of life.
LEMMA LifePut ==
  ASSUME NEW u, NEW c, instances' = Put(instances, u, c)
  PROVE  Lifecycle!Set(u, c.definition, c.current, StatusOf(c))
  BY DEF Put, Life, Lifecycle!Set, StatusOf

LEMMA LifeAt ==
  ASSUME NEW i \in DOMAIN instances
  PROVE  /\ i \in DOMAIN Life
         /\ Life[i].definition = instances[i].definition
         /\ Life[i].current = instances[i].current
         /\ Life[i].status = StatusOf(instances[i])
  BY DEF Life, StatusOf

LEMMA LifeRemove ==
  ASSUME NEW u, instances' = Remove(instances, u)
  PROVE  LifeStep
  <1>1. CASE u \in DOMAIN instances
    <2>1. Life' = [j \in DOMAIN Life \ {u} |-> Life[j]]
      BY DEF Remove, Life
    <2>2. Lifecycle!Vanish(u) /\ u \in DOMAIN Life
      BY <1>1, <2>1 DEF Lifecycle!Vanish, Life
    <2> QED
      BY <2>2 DEF LifeStep, Lifecycle!Next
  <1>2. CASE u \notin DOMAIN instances
    <2>1. Life' = Life
      BY <1>2 DEF Remove, Life
    <2> QED
      BY <2>1 DEF LifeStep
  <1> QED
    BY <1>1, <1>2

----------------------------------------------------------------------------
(* The steps of the one request                                            *)

\* It goes to a label where nothing is promised of its copy.
LEMMA LetsGo ==
  ASSUME Inv, AloneInv, NEW p, Procs = {p}, NEW l, Goto(p, l), l \notin Holding, KnownOnly'
  PROVE  AloneInv'
  <1>1. pc'[p] = l
    BY DEF Inv, LocalsOK, Goto
  <1> QED
    BY <1>1 DEF AloneInv, HandOK, Holding, StartHeld

\* It goes on with the copy it has, and what is stored stays.
LEMMA HoldsOn ==
  ASSUME Inv, AloneInv, NEW p, Procs = {p}, NEW l, Goto(p, l),
         UNCHANGED <<instances, definitions, req, instCopy>>,
         \/ l \notin Holding
         \/ {l, pc[p]} \subseteq StartHeld
         \/ {l, pc[p]} \subseteq {"transition.actions", "transition.save"}
  PROVE  AloneInv' /\ LifeStep
  <1>1. pc'[p] = l
    BY DEF Inv, LocalsOK, Goto
  <1>2. KnownOnly'
    BY DEF AloneInv, KnownOnly
  <1>3. HandOK(pc[p], req[p].user, instCopy[p])
    BY DEF AloneInv
  <1>4. HandOK(l, req[p].user, instCopy[p])'
    <2>1. CASE l \notin Holding
      BY <2>1 DEF HandOK, Holding, StartHeld
    <2>2. CASE {l, pc[p]} \subseteq StartHeld
      BY <1>3, <2>2 DEF HandOK, StartHeld
    <2>3. CASE {l, pc[p]} \subseteq {"transition.actions", "transition.save"}
      BY <1>3, <2>3 DEF HandOK
    <2> QED
      BY <2>1, <2>2, <2>3
  <1> QED
    BY <1>1, <1>2, <1>4, LifeStutters DEF AloneInv

\* It takes a copy.
LEMMA TakesCopy ==
  ASSUME Inv, AloneInv, NEW p, Procs = {p}, NEW l, Goto(p, l),
         UNCHANGED <<instances, definitions, req>>,
         NEW x, instCopy' = [instCopy EXCEPT ![p] = x], HandOK(l, req[p].user, x)
  PROVE  AloneInv' /\ LifeStep
  <1>1. pc'[p] = l /\ instCopy'[p] = x
    BY DEF Inv, LocalsOK, Goto
  <1>2. KnownOnly'
    BY DEF AloneInv, KnownOnly
  <1>3. HandOK(l, req[p].user, x)'
    BY DEF HandOK
  <1> QED
    BY <1>1, <1>2, <1>3, LifeStutters DEF AloneInv

\* It saves.
LEMMA SavesHeld ==
  ASSUME Inv, IdInv, AloneInv, NEW p, Procs = {p}, NEW at \in NeedsInstance,
         NEW then, then \notin Holding, SaveInstance(p, at, then),
         at \in {"start.save", "transition.save", "cancel.save"}
  PROVE  AloneInv' /\ LifeStep
  <1>1. /\ pc[p] = at /\ Goto(p, then)
        /\ instances' = Put(instances, instCopy[p].uuid, instCopy[p])
        /\ UNCHANGED definitions
    BY DEF SaveInstance, At
  <1>2. AloneInv'
    <2>1. KnownOnly'
      BY <1>1 DEF AloneInv, KnownOnly
    <2> QED
      BY <1>1, <2>1, LetsGo
  <1> DEFINE c == instCopy[p]
             u == c.uuid
  <1>3. HandOK(at, req[p].user, c) /\ HandlerOK(at, req[p], nodeCopy[p], c)
    BY <1>1 DEF AloneInv, Inv
  <1>4. u \in InstanceIds /\ c \in Instance
    BY <1>3 DEF HandlerOK, Sound, Instance
  <1>5. Lifecycle!Set(u, c.definition, c.current, StatusOf(c))
    BY <1>1, LifePut
  <1>6. CASE at = "start.save"
    <2>1. /\ u \notin DOMAIN Life /\ c.definition \in KnownDefinitions
          /\ c.current = c.definition.initial /\ StatusOf(c) = "running"
      BY <1>3, <1>6 DEF HandOK, StatusOf, Life
    <2>2. Lifecycle!Appear(u)
      BY <1>5, <2>1 DEF Lifecycle!Appear
    <2> QED
      BY <1>2, <1>4, <2>2 DEF LifeStep, Lifecycle!Next
  <1>7. CASE at = "transition.save"
    <2>1. u \in DOMAIN instances /\ ~instances[u].cancelled
      BY <1>3, <1>7 DEF HandOK
    <2>2. PICK t \in instances[u].definition.transitions :
             t.from = instances[u].current /\ c = Advanced(instances[u], t, req[p].user)
      BY <1>3, <1>7 DEF HandOK
    <2>3. instances[u] \in Instance
      BY <2>1 DEF Inv, StoresOK, IsStore
    <2>4. /\ c.definition = instances[u].definition /\ c.current = t.to
          /\ StatusOf(c) = Lifecycle!Status(c.definition, c.current)
      BY <2>1, <2>2, <2>3 DEF Advanced, Instance, StatusOf, Lifecycle!Status
    <2>5. Life[u].status # "cancelled"
      BY <2>1, LifeAt DEF StatusOf
    <2>6. Lifecycle!Fire(u) /\ u \in DOMAIN Life
      BY <1>5, <2>1, <2>2, <2>4, <2>5, LifeAt DEF Lifecycle!Fire
    <2> QED
      BY <1>2, <2>6 DEF LifeStep, Lifecycle!Next
  <1>8. CASE at = "cancel.save"
    <2>1. /\ u \in DOMAIN instances /\ instances[u].running /\ ~instances[u].cancelled
          /\ c = Cancelled(instances[u])
      BY <1>3, <1>8 DEF HandOK
    <2>2. instances[u] \in Instance
      BY <2>1 DEF Inv, StoresOK, IsStore
    <2>3. /\ c.definition = instances[u].definition /\ c.current = instances[u].current
          /\ StatusOf(c) = "cancelled"
      BY <2>1, <2>2 DEF Cancelled, Instance, StatusOf
    <2>4. Life[u].status = "running"
      BY <2>1, LifeAt DEF StatusOf
    <2>5. Lifecycle!Cancel(u) /\ u \in DOMAIN Life
      BY <1>5, <2>1, <2>3, <2>4, LifeAt DEF Lifecycle!Cancel
    <2> QED
      BY <1>2, <2>5 DEF LifeStep, Lifecycle!Next
  <1> QED
    BY <1>6, <1>7, <1>8

LEMMA StartLives ==
  ASSUME Inv, IdInv, AloneInv, NEW p, Procs = {p}, Start(p)
  PROVE  AloneInv' /\ LifeStep
  <1> USE DEF At
  <1>1. CASE StartCheck(p) \/ StartGetNode(p) \/ StartMark(p) \/ StartMarking(p)
             \/ StartUnlock(p) \/ StartUnlocking(p)
    <2>1. \E l \in {"error", "start.node", "start.definition", "start.marking", "start.unsave",
                    "ok", "start.unlocking"} : Goto(p, l)
      BY <1>1 DEF StartCheck, StartGetNode, StartMark, StartMarking, StartUnlock,
                  StartUnlocking, NodeRead, NodeWrite, OnFailure
    <2>2. UNCHANGED <<instances, definitions, req, instCopy>>
      BY <1>1 DEF StartCheck, StartGetNode, StartMark, StartMarking, StartUnlock,
                  StartUnlocking, NodeRead, NodeWrite, stores, locals
    <2> QED
      BY <2>1, <2>2, HoldsOn DEF Holding, StartHeld
  <1>2. CASE StartGetDefinition(p)
    <2>1. /\ pc[p] = "start.definition" /\ req[p] \in Requests
          /\ UNCHANGED <<instances, definitions, req>>
      BY <1>2 DEF StartGetDefinition, Inv, HandlerOK, stores
    <2>2. CASE ~MayStart(p)
      <3>1. Goto(p, "error") /\ UNCHANGED instCopy
        BY <1>2, <2>2 DEF StartGetDefinition
      <3> QED
        BY <2>1, <3>1, HoldsOn DEF Holding, StartHeld
    <2>3. CASE MayStart(p)
      <3> DEFINE d == definitions[req[p].def]
      <3>1. PICK i \in InstanceIds \ issued :
               instCopy' = [instCopy EXCEPT ![p] = NewInstance(i, req[p], d)]
        BY <1>2, <2>3 DEF StartGetDefinition
      <3>2. Goto(p, "start.lock")
        BY <1>2, <2>3 DEF StartGetDefinition
      <3>3. d \in KnownDefinitions
        BY <2>3 DEF MayStart, AloneInv, KnownOnly
      <3>4. i \notin DOMAIN instances
        BY DEF IdInv, Records
      <3>5. HandOK("start.lock", req[p].user, NewInstance(i, req[p], d))
        BY <3>3, <3>4 DEF HandOK, NewInstance
      <3> QED
        BY <2>1, <3>1, <3>2, <3>5, TakesCopy
    <2> QED
      BY <2>2, <2>3
  <1>3. CASE StartLock(p) \/ StartLocking(p)
    <2>1. pc[p] \in StartHeld /\ \E l \in {"start.locking", "start.save", "error"} : Goto(p, l)
      BY <1>3 DEF StartLock, StartLocking, NodeRead, NodeWrite, OnFailure, StartHeld
    <2>2. UNCHANGED <<instances, definitions, req, instCopy>>
      BY <1>3 DEF StartLock, StartLocking, NodeRead, NodeWrite, stores, locals
    <2> QED
      BY <2>1, <2>2, HoldsOn DEF Holding, StartHeld
  <1>4. CASE StartSave(p)
    BY <1>4, SavesHeld DEF StartSave, NeedsInstance, Holding, StartHeld
  <1>5. CASE StartUnsave(p)
    <2>1. KnownOnly'
      BY <1>5 DEF StartUnsave, AloneInv, KnownOnly
    <2> QED
      BY <1>5, <2>1, LetsGo, LifeRemove DEF StartUnsave, Holding, StartHeld
  <1> QED
    BY <1>1, <1>2, <1>3, <1>4, <1>5 DEF Start

LEMMA TransitionLives ==
  ASSUME Inv, IdInv, AloneInv, NEW p, Procs = {p}, TransitionRequests(p)
  PROVE  AloneInv' /\ LifeStep
  <1> USE DEF At
  <1>1. CASE TransitionGet(p)
    <2>1. UNCHANGED <<instances, definitions, req>>
      BY <1>1 DEF TransitionGet, stores
    <2>2. CASE ~MayTransition(p)
      <3>1. Goto(p, "error") /\ UNCHANGED instCopy
        BY <1>1, <2>2 DEF TransitionGet
      <3> QED
        BY <2>1, <3>1, HoldsOn DEF Holding, StartHeld
    <2>3. CASE MayTransition(p)
      <3>1. /\ instCopy' = [instCopy EXCEPT ![p] = instances[req[p].inst]]
            /\ Goto(p, "transition.node")
        BY <1>1, <2>3 DEF TransitionGet, ReadInstance
      <3>2. HandOK("transition.node", req[p].user, instances[req[p].inst])
        BY <2>3 DEF MayTransition, Visible, IdInv, HandOK
      <3> QED
        BY <2>1, <3>1, <3>2, TakesCopy
    <2> QED
      BY <2>2, <2>3
  <1>2. CASE TransitionGetNode(p)
    <2>1. UNCHANGED <<instances, definitions, req>> /\ pc[p] = "transition.node"
      BY <1>2 DEF TransitionGetNode, stores
    <2>2. CASE UNCHANGED instCopy /\ Goto(p, "error")
      BY <2>1, <2>2, HoldsOn DEF Holding, StartHeld
    <2>3. ASSUME NEW t \in Enabled(p), NEW l \in {"transition.actions", "transition.save"},
                 instCopy' = [instCopy EXCEPT ![p] = Advanced(@, t, req[p].user)], Goto(p, l)
          PROVE  AloneInv' /\ LifeStep
      <3>1. /\ HandOK("transition.node", req[p].user, instCopy[p])
            /\ HandlerOK("transition.node", req[p], nodeCopy[p], instCopy[p])
        BY <2>1 DEF AloneInv, Inv
      <3>2. PICK x : x = instCopy[p]
        OBVIOUS
      <3>3. x.uuid \in DOMAIN instances /\ x = instances[x.uuid] /\ ~x.cancelled /\ x \in Instance
        BY <3>1, <3>2 DEF HandOK, HandlerOK, Sound, NeedsInstance
      <3>4. t \in x.definition.transitions /\ t.from = x.current
        BY <3>2 DEF Enabled
      <3>5. Advanced(x, t, req[p].user).uuid = x.uuid
        BY <3>3 DEF Advanced, Instance
      <3>6. HandOK(l, req[p].user, Advanced(x, t, req[p].user))
        BY <3>3, <3>4, <3>5 DEF HandOK
      <3> QED
        BY <2>1, <2>3, <3>2, <3>6, TakesCopy DEF Inv, LocalsOK
    <2> QED
      BY <1>2, <2>2, <2>3 DEF TransitionGetNode
  <1>3. CASE TransitionActions(p)
    <2>1. PICK l \in {"transition.save", "error"} : Goto(p, l)
      BY <1>3 DEF TransitionActions, Decide
    <2>2. pc[p] = "transition.actions" /\ UNCHANGED <<instances, definitions, req, instCopy>>
      BY <1>3 DEF TransitionActions, Decide, stores, locals
    <2> QED
      BY <2>1, <2>2, HoldsOn DEF Holding, StartHeld
  <1>4. CASE TransitionSave(p)
    <2>1. \E then \in {"transition.mark", "release"} : SaveInstance(p, "transition.save", then)
      BY <1>4 DEF TransitionSave
    <2>2. {"transition.mark", "release"} \cap Holding = {}
      BY DEF Holding, StartHeld
    <2> QED
      BY <2>1, <2>2, SavesHeld DEF NeedsInstance
  <1>5. CASE TransitionMark(p) \/ TransitionMarking(p)
    <2>1. \E l \in {"transition.marking", "error", "ok"} : Goto(p, l)
      BY <1>5 DEF TransitionMark, TransitionMarking, NodeRead, NodeWrite, OnFailure
    <2>2. UNCHANGED <<instances, definitions, req, instCopy>>
      BY <1>5 DEF TransitionMark, TransitionMarking, NodeRead, NodeWrite, stores, locals
    <2> QED
      BY <2>1, <2>2, HoldsOn DEF Holding, StartHeld
  <1> QED
    BY <1>1, <1>2, <1>3, <1>4, <1>5 DEF TransitionRequests

LEMMA CancelAndReleaseLives ==
  ASSUME Inv, IdInv, AloneInv, NEW p, Procs = {p}, CancelAndRelease(p)
  PROVE  AloneInv' /\ LifeStep
  <1> USE DEF At
  <1>1. CASE CancelGet(p)
    <2>1. UNCHANGED <<instances, definitions, req>>
      BY <1>1 DEF CancelGet, stores
    <2>2. CASE ~MayCancel(p)
      <3>1. Goto(p, "error") /\ UNCHANGED instCopy
        BY <1>1, <2>2 DEF CancelGet
      <3> QED
        BY <2>1, <3>1, HoldsOn DEF Holding, StartHeld
    <2>3. CASE MayCancel(p)
      <3>1. PICK x : x = instances[req[p].inst]
        OBVIOUS
      <3>2. /\ instCopy' = [instCopy EXCEPT ![p] = Cancelled(x)]
            /\ Goto(p, "cancel.save")
        BY <1>1, <2>3, <3>1 DEF CancelGet, ReadInstance
      <3>3. /\ x.uuid \in DOMAIN instances /\ x = instances[x.uuid] /\ x \in Instance
            /\ x.running /\ ~x.cancelled
        BY <2>3, <3>1 DEF MayCancel, Visible, ReadInstance, IdInv, Inv, StoresOK, IsStore
      <3>4. Cancelled(x).uuid = x.uuid
        BY <3>3 DEF Cancelled, Instance
      <3>5. HandOK("cancel.save", req[p].user, Cancelled(x))
        BY <3>3, <3>4 DEF HandOK
      <3> QED
        BY <2>1, <3>2, <3>5, TakesCopy
    <2> QED
      BY <2>2, <2>3
  <1>2. CASE CancelSave(p)
    BY <1>2, SavesHeld DEF CancelSave, NeedsInstance, Holding, StartHeld
  <1>3. CASE Release(p) \/ Releasing(p) \/ Clear(p) \/ Clearing(p)
    <2>1. \E l \in {"releasing", "error", "clear", "clearing", "ok"} : Goto(p, l)
      BY <1>3 DEF Release, Releasing, Clear, Clearing, NodeRead, NodeWrite, OnFailure
    <2>2. UNCHANGED <<instances, definitions, req, instCopy>>
      BY <1>3 DEF Release, Releasing, Clear, Clearing, NodeRead, NodeWrite, stores, locals
    <2> QED
      BY <2>1, <2>2, HoldsOn DEF Holding, StartHeld
  <1> QED
    BY <1>1, <1>2, <1>3 DEF CancelAndRelease

LEMMA NodeRequestsLive ==
  ASSUME Inv, IdInv, AloneInv, NEW p, Procs = {p}, NodeRequests(p)
  PROVE  AloneInv' /\ LifeStep
  <1> USE DEF At
  <1>1. \E l \in {"update", "error", "updating", "ok", "locking", "unlocking", "deleting"} :
           Goto(p, l)
    BY DEF NodeRequests, EditGet, Update, Updating, Lock, Locking, Unlock, Unlocking, Delete,
           Deleting, NodeRead, NodeWrite, OnFailure
  <1>2. UNCHANGED <<instances, definitions>>
    BY DEF NodeRequests, EditGet, Update, Updating, Lock, Locking, Unlock, Unlocking, Delete,
           Deleting, NodeRead, NodeWrite, stores
  <1>3. KnownOnly'
    BY <1>2 DEF AloneInv, KnownOnly
  <1> QED
    BY <1>1, <1>2, <1>3, LetsGo, LifeStutters DEF Holding, StartHeld

\* Only here do definitions change, to one that a request brings.
LEMMA OthersLive ==
  ASSUME Inv, IdInv, AloneInv, NEW p, Procs = {p},
         DeleteInstance(p) \/ DefinitionRequests(p) \/ WriteFails(p) \/ Issue(p) \/ Reply(p)
  PROVE  AloneInv' /\ LifeStep
  <1> USE DEF At
  <1>1. CASE DeleteInstance(p)
    <2>1. KnownOnly'
      BY <1>1 DEF DeleteInstance, AloneInv, KnownOnly
    <2> QED
      BY <1>1, <2>1, LetsGo, LifeRemove, LifeStutters DEF DeleteInstance, Holding, StartHeld
  <1>2. CASE DefinitionRequests(p)
    <2>1. \E l \in {"putDefinition.update", "putDefinition.save", "deleteDefinition.delete",
                    "ok", "error"} : Goto(p, l)
      BY <1>2 DEF DefinitionRequests, PutDefinition, PutDefinitionUpdate, PutDefinitionSave,
                  DeleteDefinition, DeleteDefinitionDelete, Decide
    <2>2. UNCHANGED instances
      BY <1>2 DEF DefinitionRequests, PutDefinition, PutDefinitionUpdate, PutDefinitionSave,
                  DeleteDefinition, DeleteDefinitionDelete, Decide, stores
    <2>3. KnownOnly'
      <3>1. CASE PutDefinitionSave(p)
        <4>1. req[p] \in Requests /\ req[p].op = "putDefinition"
          BY <3>1 DEF PutDefinitionSave, Inv, HandlerOK, OpsAt
        <4>2. req[p].body \in KnownDefinitions
          BY <4>1 DEF KnownDefinitions
        <4> QED
          BY <3>1, <4>2 DEF PutDefinitionSave, Put, AloneInv, KnownOnly
      <3>2. CASE DeleteDefinitionDelete(p)
        BY <3>2 DEF DeleteDefinitionDelete, Remove, AloneInv, KnownOnly
      <3>3. CASE UNCHANGED definitions
        BY <3>3 DEF AloneInv, KnownOnly
      <3> QED
        BY <1>2, <3>1, <3>2, <3>3
           DEF DefinitionRequests, PutDefinition, PutDefinitionUpdate, DeleteDefinition,
               Decide, stores
    <2> QED
      BY <2>1, <2>2, <2>3, LetsGo, LifeStutters DEF Holding, StartHeld
  <1>3. CASE WriteFails(p)
    <2>1. OnFailure(pc[p]) \notin Holding
      BY DEF OnFailure, Holding, StartHeld
    <2> QED
      BY <1>3, <2>1, HoldsOn DEF WriteFails, stores, locals
  <1>4. CASE Issue(p)
    <2>1. PICK r \in Requests : Goto(p, r.op)
      BY <1>4 DEF Issue
    <2>2. r.op \notin Holding
      BY RequestFields DEF Holding, StartHeld, NeedsInstance
    <2>3. KnownOnly'
      BY <1>4 DEF Issue, stores, AloneInv, KnownOnly
    <2> QED
      BY <1>4, <2>1, <2>2, <2>3, LetsGo, LifeStutters DEF Issue, stores
  <1>5. CASE Reply(p)
    <2>1. KnownOnly'
      BY <1>5 DEF Reply, stores, AloneInv, KnownOnly
    <2> QED
      BY <1>5, <2>1, LetsGo, LifeStutters DEF Reply, stores, Holding, StartHeld
  <1> QED
    BY <1>1, <1>2, <1>3, <1>4, <1>5

LEMMA InitAlone == Init => AloneInv /\ Lifecycle!Init
  <1> SUFFICES ASSUME Init PROVE AloneInv /\ Lifecycle!Init
    OBVIOUS
  <1>1. KnownOnly
    BY DEF Init, KnownOnly, KnownDefinitions
  <1>2. \A p \in Procs : HandOK(pc[p], req[p].user, instCopy[p])
    BY DEF Init, HandOK
  <1>3. Lifecycle!Init
    BY DEF Init, Lifecycle!Init, Life
  <1> QED
    BY <1>1, <1>2, <1>3 DEF AloneInv

LEMMA NextAlone ==
  ASSUME NEW p, Procs = {p}
  PROVE  Inv /\ IdInv /\ AloneInv /\ [Next]_vars => AloneInv' /\ LifeStep
  <1> SUFFICES ASSUME Inv, IdInv, AloneInv, [Next]_vars PROVE AloneInv' /\ LifeStep
    OBVIOUS
  <1>1. CASE UNCHANGED vars
    <2>1. AloneInv'
      BY <1>1 DEF vars, AloneInv, HandOK, KnownOnly
    <2> QED
      BY <1>1, <2>1, LifeStutters DEF vars
  <1>2. CASE Crash
    <2>1. AloneInv'
      BY <1>2 DEF Crash, stores, AloneInv, HandOK, KnownOnly
    <2> QED
      BY <1>2, <2>1, LifeStutters DEF Crash, stores
  <1>3. CASE Issue(p) \/ Handle(p)
    BY <1>3, StartLives, TransitionLives, CancelAndReleaseLives, NodeRequestsLive, OthersLive
       DEF Handle
  <1> QED
    BY <1>1, <1>2, <1>3 DEF Next

\* Handled one at a time, with failed writes and restarts at any point,
\* requests take every stored instance through the lifecycle a workflow
\* promises: it appears in an initial state, fires transitions of its
\* snapshot while it is not cancelled, is cancelled only while it runs, and
\* is removed (startWorkflow with its rollback, transition, cancelWorkflow).
THEOREM LifecycleIsKept ==
  ASSUME NEW p, Procs = {p}
  PROVE  Spec => ImplementsLifecycle
  <1>1. Inv /\ IdInv /\ AloneInv /\ [Next]_vars => AloneInv' /\ [Lifecycle!Next]_Life
    BY NextAlone DEF LifeStep
  <1> QED
    BY <1>1, InitInv, NextInv, InitIdentity, NextIdentity, InitAlone, PTL
       DEF Spec, ImplementsLifecycle, Lifecycle!Spec

----------------------------------------------------------------------------
(* A start that reports an error, when requests are handled one at a time  *)

\* One write may fail if nothing else can: the rollback of a start whose mark
\* was refused does not survive a failure of its own, and the mark is never
\* refused after the lock of an administrator.
FewFailures ==
    \/ MaxFailures = 0
    \/ MaxFailures = 1 /\ \A r \in Requests : r.op = "start" => IsAdmin(r.user)

\* The lock a start takes.
LockedFor(n, who) ==
    nodes[n].locked /\ nodes[n].lockedBy = who /\ nodes[n].unlockGroups = PrincipalGroups(who)

AfterLocking == {"start.save", "start.mark", "start.marking",
                 "start.unsave", "start.unlock", "start.unlocking"}
AfterChecks == {"start.lock", "start.locking"} \cup AfterLocking

\* Where a start stands, what it has left in the stores, and what it has not.
StartedOK(l, r, nc, ic) ==
    /\ l \in {"idle", "start", "start.node", "start.definition"} => ic = NoCopy
    /\ l = "start.definition" => r.node \in DOMAIN nodes /\ nc = nodes[r.node]
    /\ l \in AfterChecks =>
          /\ r.node \in DOMAIN nodes /\ ic.node = r.node
          /\ \A n \in DOMAIN nodes : nodes[n].instance # ic.uuid
    /\ l \in {"start.lock", "start.locking"} => ~nodes[r.node].locked
    /\ l \in AfterLocking => LockedFor(r.node, r.user)
    /\ l \in {"start.lock", "start.locking", "start.save", "start.unlock", "start.unlocking"}
          => ic.uuid \notin DOMAIN instances
    /\ l \in {"start.unsave", "start.unlock", "start.unlocking"} => failures = MaxFailures
    /\ l = "start.locking" => nc = Locked(nodes[r.node], r.user, {})
    /\ l = "start.marking" => nc = Marked(nodes[r.node], ic.uuid, ic.current)
    /\ l = "start.unlocking" => nc = Unlocked(nodes[r.node])
    /\ l = "error" /\ r.op = "start" /\ ic # NoCopy =>
          /\ ic.uuid \notin DOMAIN instances
          /\ r.node \in DOMAIN nodes =>
                nodes[r.node].instance # ic.uuid /\ ~nodes[r.node].locked

\* A mark, on record or about to be, is a uuid that was generated.
MarksIssued ==
    /\ \A n \in DOMAIN nodes : nodes[n].instance \in issued \cup {NoInstance}
    /\ \A p \in Procs : pc[p] \in WritesNode =>
          nodeCopy[p].instance \in issued \cup {NoInstance}

\* So is a mark that a request brings.
NamesIssued == \A p \in Procs : Named(req[p])

StartsInv ==
    /\ MarksIssued
    /\ \A p \in Procs : StartedOK(pc[p], req[p], nodeCopy[p], instCopy[p])

LEMMA InitNames == Init => NamesIssued
  BY DEF Init, NamesIssued, Named, NoRequest

LEMMA NextNames == Inv /\ NamesIssued /\ [Next]_vars => NamesIssued'
  <1> SUFFICES ASSUME Inv, NamesIssued, [Next]_vars PROVE NamesIssued'
    OBVIOUS
  <1> USE DEF NamesIssued, Named
  <1>1. CASE UNCHANGED vars
    BY <1>1 DEF vars
  <1>2. CASE Crash
    BY <1>2 DEF Crash, NoRequest
  <1>3. ASSUME NEW p \in Procs, Issue(p) PROVE NamesIssued'
    BY <1>3 DEF Issue, Inv, LocalsOK
  <1>4. ASSUME NEW p \in Procs, Reply(p) PROVE NamesIssued'
    BY <1>4 DEF Reply, Inv, LocalsOK, NoRequest
  <1>5. ASSUME NEW p \in Procs, Start(p) PROVE NamesIssued'
    <2>1. UNCHANGED req /\ issued \subseteq issued'
      BY <1>5 DEF Start, StartCheck, StartGetNode, StartGetDefinition, StartLock, StartLocking,
         StartSave, StartMark, StartMarking, StartUnsave, StartUnlock, StartUnlocking, NodeRead,
         NodeWrite, SaveInstance, locals
    <2> QED
      BY <2>1
  <1>6. ASSUME NEW p \in Procs, TransitionRequests(p) \/ CancelAndRelease(p) \/ NodeRequests(p)
        PROVE  NamesIssued'
    <2>1. UNCHANGED <<req, issued>>
      BY <1>6 DEF TransitionRequests, TransitionGet, TransitionGetNode, TransitionActions,
         TransitionSave, TransitionMark, TransitionMarking, CancelAndRelease, CancelGet, CancelSave,
         Release, Releasing, Clear, Clearing, NodeRequests, EditGet, Update, Updating, Lock,
         Locking, Unlock, Unlocking, Delete, Deleting, NodeRead, NodeWrite, SaveInstance, Decide,
         locals
    <2> QED
      BY <2>1
  <1>7. ASSUME NEW p \in Procs, DeleteInstance(p) \/ DefinitionRequests(p) \/ WriteFails(p)
        PROVE  NamesIssued'
    <2>1. UNCHANGED <<req, issued>>
      BY <1>7 DEF DeleteInstance, DefinitionRequests, PutDefinition, PutDefinitionUpdate,
         PutDefinitionSave, DeleteDefinition, DeleteDefinitionDelete, Decide, WriteFails, locals
    <2> QED
      BY <2>1
  <1> QED
    BY <1>1, <1>2, <1>3, <1>4, <1>5, <1>6, <1>7 DEF Next, Handle

\* Nothing but a record its handler held comes to be stored.
LEMMA MarksKept ==
  ASSUME Inv, MarksIssued, NEW p, Procs = {p}, NEW l, Goto(p, l), issued \subseteq issued',
         \A n \in DOMAIN nodes' :
            \/ n \in DOMAIN nodes /\ nodes'[n] = nodes[n]
            \/ pc[p] \in WritesNode /\ nodes'[n] = nodeCopy[p],
         l \in WritesNode => nodeCopy'[p].instance \in issued' \cup {NoInstance}
  PROVE  MarksIssued'
  <1>1. pc'[p] = l
    BY DEF Inv, LocalsOK, Goto
  <1>2. ASSUME NEW n \in DOMAIN nodes' PROVE nodes'[n].instance \in issued' \cup {NoInstance}
    BY DEF MarksIssued
  <1> QED
    BY <1>1, <1>2 DEF MarksIssued

\* The node operations write a mark that was on record, or one given them.
LEMMA MarkWritten ==
  ASSUME NEW n \in NodeRecord
  PROVE  /\ Unlocked(n).instance = n.instance
         /\ \A who, groups : Locked(n, who, groups).instance = n.instance
         /\ \A i, s : Marked(n, i, s).instance = i
         /\ \A who, m : Updated(n, who, m).instance =
                 IF who = WorkflowUser THEN Given(m.instance, n.instance) ELSE n.instance
  BY DEF NodeRecord, Unlocked, Locked, Marked, Updated

LEMMA ReadKeepsMarks ==
  ASSUME Inv, MarksIssued, NEW p, Procs = {p}, NEW at, NEW allowed, NEW record, NEW then,
         NEW refused, NodeRead(p, at, allowed, record, then, refused), refused \notin WritesNode,
         NodeOf(p) \in DOMAIN nodes =>
            record.instance \in {nodes[NodeOf(p)].instance, NoInstance} \cup issued
  PROVE  MarksIssued'
  <1>1. CASE NodeOf(p) \in DOMAIN nodes /\ nodeCopy' = [nodeCopy EXCEPT ![p] = record]
             /\ Goto(p, then)
    <2>1. nodeCopy'[p].instance \in issued \cup {NoInstance}
      BY <1>1 DEF MarksIssued, Inv, LocalsOK
    <2> QED
      BY <1>1, <2>1, MarksKept DEF NodeRead, stores
  <1>2. CASE Goto(p, refused)
    BY <1>2, MarksKept DEF NodeRead, stores
  <1> QED
    BY <1>1, <1>2 DEF NodeRead

LEMMA WriteKeepsMarks ==
  ASSUME Inv, MarksIssued, NEW p, Procs = {p}, NEW at \in WritesNode, NEW then,
         NodeWrite(p, at, then), then \notin WritesNode, OnFailure(at) \notin WritesNode
  PROVE  MarksIssued'
  <1>1. \A n \in DOMAIN nodes' :
            \/ n \in DOMAIN nodes /\ nodes'[n] = nodes[n]
            \/ pc[p] \in WritesNode /\ nodes'[n] = nodeCopy[p]
    BY DEF NodeWrite, Put, At
  <1>2. UNCHANGED issued
    BY DEF NodeWrite
  <1>3. CASE Goto(p, then)
    BY <1>1, <1>2, <1>3, MarksKept
  <1>4. CASE Goto(p, OnFailure(at))
    BY <1>1, <1>2, <1>4, MarksKept
  <1> QED
    BY <1>3, <1>4 DEF NodeWrite

\* A step that writes no node and does not end before a write of one.
LEMMA OtherKeepsMarks ==
  ASSUME Inv, MarksIssued, NEW p, Procs = {p}, NEW l, Goto(p, l), l \notin WritesNode,
         UNCHANGED nodes, issued \subseteq issued'
  PROVE  MarksIssued'
  BY MarksKept

LEMMA StandsAt ==
  ASSUME Inv, MarksIssued', NEW p, Procs = {p}, NEW l, Goto(p, l),
         NEW r, req'[p] = r, NEW x, nodeCopy'[p] = x, NEW c, instCopy'[p] = c,
         StartedOK(l, r, x, c)'
  PROVE  StartsInv'
  <1>1. pc'[p] = l
    BY DEF Inv, LocalsOK, Goto
  <1> QED
    BY <1>1 DEF StartsInv

\* Elsewhere than in a start nothing is asked.
LEMMA NoStart ==
  ASSUME Inv, MarksIssued', NEW p, Procs = {p}, NEW l, Goto(p, l),
         l \notin {"idle", "start", "start.node", "start.definition"} \cup AfterChecks,
         l = "error" => req'[p].op # "start"
  PROVE  StartsInv'
  <1>1. pc'[p] = l
    BY DEF Inv, LocalsOK, Goto
  <1> QED
    BY <1>1 DEF StartsInv, StartedOK, AfterChecks, AfterLocking

\* The first steps of a start, before it has a copy of an instance.
LEMMA StartBegins ==
  ASSUME Inv, IdInv, StartsInv, NEW p, Procs = {p},
         StartCheck(p) \/ StartGetNode(p) \/ StartGetDefinition(p)
  PROVE  StartsInv'
  <1> USE DEF At
  <1>1. PICK r, x, c : r = req[p] /\ x = nodeCopy[p] /\ c = instCopy[p]
    OBVIOUS
  <1>2. StartedOK(pc[p], r, x, c) /\ HandlerOK(pc[p], r, x, c) /\ MarksIssued
    BY <1>1 DEF StartsInv, Inv
  <1>3. req'[p] = r /\ UNCHANGED <<nodes, instances, failures>> /\ issued \subseteq issued'
    BY <1>1 DEF StartCheck, StartGetNode, StartGetDefinition, NodeRead, stores, locals, faults
  <1>4. c = NoCopy
    BY <1>2 DEF StartCheck, StartGetNode, StartGetDefinition, NodeRead, StartedOK
  <1>5. r.op = "start"
    BY <1>2 DEF StartCheck, StartGetNode, StartGetDefinition, NodeRead, HandlerOK, OpsAt, NeedsInstance
  <1>6. \A l \in {"start.node", "start.definition", "start.lock", "error"} : l \notin WritesNode
    BY DEF WritesNode
  <1>7. CASE StartCheck(p)
    <2>1. PICK l \in {"start.node", "error"} : Goto(p, l)
      BY <1>7 DEF StartCheck
    <2>2. nodeCopy'[p] = x /\ instCopy'[p] = c
      BY <1>1, <1>7 DEF StartCheck, locals
    <2>3. StartedOK(l, r, x, c)'
      BY <1>4, <2>1 DEF StartedOK, AfterChecks, AfterLocking
    <2>4. MarksIssued'
      BY <1>2, <1>3, <1>6, <2>1, OtherKeepsMarks
    <2> QED
      BY <1>3, <2>1, <2>2, <2>3, <2>4, StandsAt
  <1>8. CASE StartGetNode(p)
    <2>1. instCopy'[p] = c /\ NodeOf(p) = r.node
      BY <1>1, <1>5, <1>8 DEF StartGetNode, NodeRead, NodeOf
    <2>2. CASE Goto(p, "error") /\ UNCHANGED nodeCopy
      <3>1. StartedOK("error", r, x, c)'
        BY <1>4 DEF StartedOK, AfterChecks, AfterLocking
      <3>2. MarksIssued'
        BY <1>2, <1>3, <1>6, <2>2, OtherKeepsMarks
      <3> QED
        BY <1>1, <1>3, <2>1, <2>2, <3>1, <3>2, StandsAt
    <2>3. CASE /\ Goto(p, "start.definition") /\ r.node \in DOMAIN nodes
               /\ nodeCopy' = [nodeCopy EXCEPT ![p] = nodes[r.node]]
      <3>1. PICK y : y = nodes[r.node]
        OBVIOUS
      <3>2. nodeCopy'[p] = y
        BY <2>3, <3>1 DEF Inv, LocalsOK
      <3>3. StartedOK("start.definition", r, y, c)'
        BY <1>3, <1>4, <2>3, <3>1 DEF StartedOK, AfterChecks, AfterLocking
      <3>4. MarksIssued'
        BY <1>2, <1>3, <1>6, <2>3, OtherKeepsMarks
      <3> QED
        BY <1>3, <2>1, <2>3, <3>2, <3>3, <3>4, StandsAt
    <2> QED
      BY <1>8, <2>1, <2>2, <2>3 DEF StartGetNode, NodeRead
  <1>9. CASE StartGetDefinition(p)
    <2>1. nodeCopy'[p] = x
      BY <1>1, <1>9 DEF StartGetDefinition
    <2>2. CASE Goto(p, "error") /\ UNCHANGED instCopy
      <3>1. StartedOK("error", r, x, c)'
        BY <1>4 DEF StartedOK, AfterChecks, AfterLocking
      <3>2. MarksIssued'
        BY <1>2, <1>3, <1>6, <2>2, OtherKeepsMarks
      <3> QED
        BY <1>1, <1>3, <2>1, <2>2, <3>1, <3>2, StandsAt
    <2>3. CASE MayStart(p)
      <3>1. PICK i \in InstanceIds \ issued :
               instCopy' = [instCopy EXCEPT ![p] = NewInstance(i, req[p], definitions[req[p].def])]
        BY <1>9, <2>3 DEF StartGetDefinition
      <3>2. PICK d : d = definitions[req[p].def]
        OBVIOUS
      <3>3. PICK y : y = NewInstance(i, r, d)
        OBVIOUS
      <3>4. instCopy'[p] = y /\ y.uuid = i /\ y.node = r.node
        BY <1>1, <3>1, <3>2, <3>3 DEF Inv, LocalsOK, NewInstance
      <3>5. r.node \in DOMAIN nodes /\ ~nodes[r.node].locked
        BY <1>1, <1>2, <1>9, <2>3 DEF StartGetDefinition, StartedOK, MayStart
      <3>6. \A n \in DOMAIN nodes : nodes[n].instance # i
        BY <1>2, InstancesAssumption, PrincipalsAssumption DEF MarksIssued
      <3>7. i \notin DOMAIN instances
        BY DEF IdInv, Records
      <3>8. StartedOK("start.lock", r, x, y)'
        BY <1>3, <3>4, <3>5, <3>6, <3>7 DEF StartedOK, AfterChecks, AfterLocking
      <3>9. Goto(p, "start.lock")
        BY <1>9, <2>3 DEF StartGetDefinition
      <3>10. MarksIssued'
        BY <1>2, <1>3, <1>6, <3>9, OtherKeepsMarks
      <3> QED
        BY <1>3, <2>1, <3>4, <3>8, <3>9, <3>10, StandsAt
    <2> QED
      BY <1>9, <2>2, <2>3 DEF StartGetDefinition
  <1> QED
    BY <1>7, <1>8, <1>9

\* Who may still fail, and what the lock of a start allows.
LEMMA LockAllows ==
  ASSUME NEW n \in NodeRecord, NEW who \in Users, n.locked, n.lockedBy = who,
         n.unlockGroups = PrincipalGroups(who)
  PROVE  /\ MayUnlock(who, n)
         /\ IsAdmin(who) => MayUpdate(WorkflowUser, n)
  BY PrincipalsAssumption
     DEF MayUnlock, CanUnlockNode, MayUpdate, MayWrite, CheckNodeLock, IsAdmin, PrincipalGroups,
         NodeRecord

\* The lock a start asks for, and what lifting it leaves.
LEMMA LockedRecord ==
  ASSUME NEW n \in NodeRecord, NEW who
  PROVE  /\ LET x == Locked(n, who, {})
            IN  x.locked /\ x.lockedBy = who /\ x.unlockGroups = PrincipalGroups(who)
         /\ ~Unlocked(n).locked
  BY DEF NodeRecord, Locked, Unlocked

LEMMA StartWrites ==
  ASSUME Inv, IdInv, StartsInv, FewFailures, NEW p, Procs = {p},
         \/ StartLock(p) \/ StartLocking(p) \/ StartSave(p) \/ StartMark(p) \/ StartMarking(p)
         \/ StartUnsave(p) \/ StartUnlock(p) \/ StartUnlocking(p)
  PROVE  StartsInv'
  <1> USE DEF At
  <1>1. PICK r, x, c : r = req[p] /\ x = nodeCopy[p] /\ c = instCopy[p]
    OBVIOUS
  <1>2. StartedOK(pc[p], r, x, c) /\ HandlerOK(pc[p], r, x, c) /\ MarksIssued
    BY <1>1 DEF StartsInv, Inv
  <1>3. req'[p] = r /\ instCopy'[p] = c /\ UNCHANGED <<failures, issued>>
    BY <1>1 DEF StartLock, StartLocking, StartSave, StartMark, StartMarking, StartUnsave,
                StartUnlock, StartUnlocking, NodeRead, NodeWrite, SaveInstance, locals, faults
  <1>4. pc[p] \in AfterChecks /\ pc[p] \in NeedsInstance
    BY DEF StartLock, StartLocking, StartSave, StartMark, StartMarking, StartUnsave,
           StartUnlock, StartUnlocking, NodeRead, NodeWrite, SaveInstance, AfterChecks,
           AfterLocking, NeedsInstance
  <1>5. r.op = "start" /\ r \in Requests /\ r.user \in Users
    <2>1. OpsAt(pc[p]) = {"start"} /\ pc[p] # "idle"
      BY <1>4 DEF OpsAt, AfterChecks, AfterLocking
    <2> QED
      BY <1>2, <2>1, RequestFields DEF HandlerOK
  <1>6. NodeOf(p) = r.node
    BY <1>1, <1>5 DEF NodeOf
  <1> DEFINE n == r.node
  <1>7. /\ n \in DOMAIN nodes /\ nodes[n] \in NodeRecord
        /\ \A m \in DOMAIN nodes : nodes[m].instance # c.uuid
        /\ c.node = n
    BY <1>2, <1>4 DEF StartedOK, Inv, StoresOK, IsStore
  <1>8. c.uuid \in issued
    BY <1>1, <1>4 DEF IdInv, Records, Held
  <1>9. \A l \in {"start.save", "start.mark", "start.unsave", "start.unlock", "ok", "error"} :
           l \notin WritesNode
    BY DEF WritesNode
  <1>10. PICK y, z, w : /\ y = Locked(nodes[n], r.user, {}) /\ z = Marked(nodes[n], c.uuid, c.current)
                        /\ w = Unlocked(nodes[n])
    OBVIOUS
  <1>11. CASE StartLock(p)
    <2>1. UNCHANGED <<nodes, instances>> /\ pc[p] = "start.lock"
      BY <1>11 DEF StartLock, NodeRead, stores
    <2>2. MarksIssued'
      BY <1>1, <1>2, <1>6, <1>7, <1>9, <1>11, MarkWritten, ReadKeepsMarks DEF StartLock
    <2>3. CASE /\ Goto(p, "start.locking") /\ nodeCopy' = [nodeCopy EXCEPT ![p] = y]
      <3>1. nodeCopy'[p] = y
        BY <2>3 DEF Inv, LocalsOK
      <3>2. StartedOK("start.locking", r, y, c)'
        BY <1>2, <1>7, <1>10, <2>1 DEF StartedOK, AfterChecks, AfterLocking
      <3> QED
        BY <1>3, <2>2, <2>3, <3>1, <3>2, StandsAt
    <2>4. CASE Goto(p, "error") /\ UNCHANGED nodeCopy
      <3>1. StartedOK("error", r, x, c)'
        BY <1>2, <1>7, <2>1 DEF StartedOK, AfterChecks, AfterLocking
      <3> QED
        BY <1>1, <1>3, <2>2, <2>4, <3>1, StandsAt
    <2> QED
      BY <1>1, <1>6, <1>10, <1>11, <2>3, <2>4 DEF StartLock, NodeRead
  <1>12. CASE StartLocking(p)
    <2>1. /\ pc[p] = "start.locking" /\ nodes' = Put(nodes, n, x) /\ Goto(p, "start.save")
          /\ UNCHANGED <<nodeCopy, instances>>
      BY <1>1, <1>6, <1>7, <1>12 DEF StartLocking, NodeWrite, locals
    <2>2. x = y
      BY <1>2, <1>10, <2>1 DEF StartedOK
    <2>3. x.locked /\ x.lockedBy = r.user /\ x.unlockGroups = PrincipalGroups(r.user)
      BY <1>7, <1>10, <2>2, LockedRecord
    <2>4. x.instance = nodes[n].instance
      BY <1>7, <1>10, <2>2, MarkWritten
    <2>5. StartedOK("start.save", r, x, c)'
      BY <1>2, <1>7, <2>1, <2>3, <2>4 DEF StartedOK, AfterChecks, AfterLocking, LockedFor, Put
    <2>6. MarksIssued'
      <3>1. OnFailure("start.locking") = "error" /\ "start.locking" \in WritesNode
        BY DEF OnFailure, WritesNode
      <3> QED
        BY <1>2, <1>9, <1>12, <3>1, WriteKeepsMarks DEF StartLocking
    <2> QED
      BY <1>1, <1>3, <2>1, <2>5, <2>6, StandsAt
  <1>13. CASE StartSave(p)
    <2>1. pc[p] = "start.save" /\ Goto(p, "start.mark") /\ UNCHANGED <<nodes, nodeCopy>>
      BY <1>13 DEF StartSave, SaveInstance, locals
    <2>2. StartedOK("start.mark", r, x, c)'
      BY <1>2, <1>7, <2>1 DEF StartedOK, AfterChecks, AfterLocking, LockedFor
    <2>3. MarksIssued'
      BY <1>2, <1>3, <1>9, <2>1, OtherKeepsMarks
    <2> QED
      BY <1>1, <1>3, <2>1, <2>2, <2>3, StandsAt
  <1>14. CASE StartMark(p)
    <2>1. UNCHANGED <<nodes, instances>> /\ pc[p] = "start.mark"
      BY <1>14 DEF StartMark, NodeRead, stores
    <2>2. MarksIssued'
      BY <1>1, <1>2, <1>6, <1>7, <1>8, <1>9, <1>14, MarkWritten, ReadKeepsMarks DEF StartMark
    <2>3. LockedFor(n, r.user)
      BY <1>2, <2>1 DEF StartedOK, AfterLocking
    <2>4. CASE Goto(p, "start.marking") /\ nodeCopy' = [nodeCopy EXCEPT ![p] = z]
      <3>1. nodeCopy'[p] = z
        BY <2>4 DEF Inv, LocalsOK
      <3>2. StartedOK("start.marking", r, z, c)'
        BY <1>2, <1>7, <1>10, <2>1, <2>3 DEF StartedOK, AfterChecks, AfterLocking, LockedFor
      <3> QED
        BY <1>3, <2>2, <2>4, <3>1, <3>2, StandsAt
    <2>5. CASE /\ ~MayUpdate(WorkflowUser, nodes[n])
               /\ Goto(p, "start.unsave") /\ UNCHANGED nodeCopy
      <3>1. ~IsAdmin(r.user)
        BY <1>5, <1>7, <2>3, <2>5, LockAllows DEF LockedFor
      <3>2. failures = MaxFailures
        BY <1>5, <3>1 DEF FewFailures, Inv, StoresOK
      <3>3. StartedOK("start.unsave", r, x, c)'
        BY <1>2, <1>3, <1>7, <2>1, <2>3, <3>2 DEF StartedOK, AfterChecks, AfterLocking, LockedFor
      <3> QED
        BY <1>1, <1>3, <2>2, <2>5, <3>3, StandsAt
    <2> QED
      BY <1>1, <1>6, <1>7, <1>10, <1>14, <2>4, <2>5 DEF StartMark, NodeRead
  <1>15. CASE StartMarking(p)
    <2>1. Goto(p, "ok")
      BY <1>6, <1>7, <1>15 DEF StartMarking, NodeWrite
    <2>2. MarksIssued'
      <3>1. OnFailure("start.marking") = "start.unsave" /\ "start.marking" \in WritesNode
        BY DEF OnFailure, WritesNode
      <3> QED
        BY <1>2, <1>9, <1>15, <3>1, WriteKeepsMarks DEF StartMarking
    <2> QED
      BY <2>1, <2>2, NoStart DEF AfterChecks, AfterLocking
  <1>16. CASE StartUnsave(p)
    <2>1. /\ pc[p] = "start.unsave" /\ Goto(p, "start.unlock") /\ UNCHANGED <<nodes, nodeCopy>>
          /\ c.uuid \notin DOMAIN instances'
      BY <1>1, <1>16 DEF StartUnsave, locals, Remove
    <2>2. StartedOK("start.unlock", r, x, c)'
      BY <1>2, <1>3, <1>7, <2>1 DEF StartedOK, AfterChecks, AfterLocking, LockedFor
    <2>3. MarksIssued'
      BY <1>2, <1>3, <1>9, <2>1, OtherKeepsMarks
    <2> QED
      BY <1>1, <1>3, <2>1, <2>2, <2>3, StandsAt
  <1>17. CASE StartUnlock(p)
    <2>1. UNCHANGED <<nodes, instances>> /\ pc[p] = "start.unlock"
      BY <1>17 DEF StartUnlock, NodeRead, stores
    <2>2. MayUnlock(r.user, nodes[n])
      BY <1>2, <1>5, <1>7, <2>1, LockAllows DEF StartedOK, AfterLocking, LockedFor
    <2>3. Goto(p, "start.unlocking") /\ nodeCopy' = [nodeCopy EXCEPT ![p] = w]
      BY <1>1, <1>6, <1>7, <1>10, <1>17, <2>2 DEF StartUnlock, NodeRead
    <2>4. nodeCopy'[p] = w
      BY <2>3 DEF Inv, LocalsOK
    <2>5. StartedOK("start.unlocking", r, w, c)'
      BY <1>2, <1>3, <1>7, <1>10, <2>1 DEF StartedOK, AfterChecks, AfterLocking, LockedFor
    <2>6. MarksIssued'
      BY <1>1, <1>2, <1>6, <1>7, <1>9, <1>17, MarkWritten, ReadKeepsMarks DEF StartUnlock
    <2> QED
      BY <1>3, <2>3, <2>4, <2>5, <2>6, StandsAt
  <1>18. CASE StartUnlocking(p)
    <2>1. /\ pc[p] = "start.unlocking" /\ nodes' = Put(nodes, n, x) /\ Goto(p, "error")
          /\ UNCHANGED <<nodeCopy, instances>>
      BY <1>1, <1>6, <1>7, <1>18 DEF StartUnlocking, NodeWrite, locals
    <2>2. x = w
      BY <1>2, <1>10, <2>1 DEF StartedOK
    <2>3. ~x.locked /\ x.instance = nodes[n].instance
      BY <1>7, <1>10, <2>2, LockedRecord, MarkWritten
    <2>4. StartedOK("error", r, x, c)'
      BY <1>2, <1>7, <2>1, <2>3 DEF StartedOK, AfterChecks, AfterLocking, Put
    <2>5. MarksIssued'
      <3>1. OnFailure("start.unlocking") = "error" /\ "start.unlocking" \in WritesNode
        BY DEF OnFailure, WritesNode
      <3> QED
        BY <1>2, <1>9, <1>18, <3>1, WriteKeepsMarks DEF StartUnlocking
    <2> QED
      BY <1>1, <1>3, <2>1, <2>4, <2>5, StandsAt
  <1> QED
    BY <1>11, <1>12, <1>13, <1>14, <1>15, <1>16, <1>17, <1>18

\* The other requests are no start, and write marks that were on record.
LEMMA OthersKeepMarks ==
  ASSUME Inv, MarksIssued, NamesIssued, NEW p, Procs = {p},
         TransitionRequests(p) \/ CancelAndRelease(p) \/ NodeRequests(p)
  PROVE  MarksIssued'
  <1> USE DEF At
  <1>1. ASSUME NodeOf(p) \in DOMAIN nodes
        PROVE  nodes[NodeOf(p)] \in NodeRecord
    BY <1>1 DEF Inv, StoresOK, IsStore
  <1>2. \A at \in {"transition.marking", "releasing", "clearing", "updating", "locking", "unlocking"} :
           at \in WritesNode /\ OnFailure(at) = "error"
    BY DEF WritesNode, OnFailure
  <1>3. \A l \in {"transition.node", "transition.actions", "transition.save", "transition.mark",
                  "cancel.save", "release", "clear", "update", "deleting", "ok", "error"} :
           l \notin WritesNode
    BY DEF WritesNode
  <1>4. CASE TransitionMark(p)
    BY <1>1, <1>3, <1>4, MarkWritten, ReadKeepsMarks DEF TransitionMark
  <1>5. CASE Release(p)
    BY <1>1, <1>3, <1>5, MarkWritten, ReadKeepsMarks DEF Release
  <1>6. CASE Clear(p)
    BY <1>1, <1>3, <1>6, MarkWritten, ReadKeepsMarks DEF Clear
  <1>7. CASE Update(p)
    <2>1. req[p] \in Requests /\ req[p].op \in {"update", "updateNode"}
      BY <1>7 DEF Update, NodeRead, Inv, HandlerOK, OpsAt
    <2>2. Actor(p) = WorkflowUser => req[p].op = "updateNode"
      BY <2>1, RequestFields, PrincipalsAssumption DEF Actor
    <2>3. Actor(p) = WorkflowUser =>
             req[p].metadata.instance \in issued \cup {NoInstance, Unsent}
      BY <2>2 DEF NamesIssued, Named
    <2>4. NodeOf(p) \in DOMAIN nodes =>
             Updated(nodes[NodeOf(p)], Actor(p), req[p].metadata).instance
                \in {nodes[NodeOf(p)].instance, NoInstance} \cup issued
      BY <1>1, <2>3, MarkWritten DEF Given
    <2> QED
      BY <1>3, <1>7, <2>4, ReadKeepsMarks DEF Update
  <1>8. CASE Lock(p)
    BY <1>1, <1>3, <1>8, MarkWritten, ReadKeepsMarks DEF Lock
  <1>9. CASE Unlock(p)
    BY <1>1, <1>3, <1>9, MarkWritten, ReadKeepsMarks DEF Unlock
  <1>10. CASE Delete(p)
    BY <1>1, <1>3, <1>10, ReadKeepsMarks DEF Delete
  <1>11. CASE TransitionMarking(p)
    BY <1>2, <1>3, <1>11, WriteKeepsMarks DEF TransitionMarking
  <1>12. CASE Releasing(p)
    BY <1>2, <1>3, <1>12, WriteKeepsMarks DEF Releasing
  <1>13. CASE Clearing(p)
    BY <1>2, <1>3, <1>13, WriteKeepsMarks DEF Clearing
  <1>14. CASE Updating(p)
    BY <1>2, <1>3, <1>14, WriteKeepsMarks DEF Updating
  <1>15. CASE Locking(p)
    BY <1>2, <1>3, <1>15, WriteKeepsMarks DEF Locking
  <1>16. CASE Unlocking(p)
    BY <1>2, <1>3, <1>16, WriteKeepsMarks DEF Unlocking
  <1>17. CASE Deleting(p)
    <2>1. \A n \in DOMAIN nodes' : n \in DOMAIN nodes /\ nodes'[n] = nodes[n]
      BY <1>17 DEF Deleting, Remove
    <2>2. PICK l \in {"ok", "error"} : Goto(p, l)
      BY <1>17 DEF Deleting
    <2> QED
      BY <1>3, <1>17, <2>1, <2>2, MarksKept DEF Deleting
  <1>18. CASE TransitionGet(p) \/ TransitionGetNode(p) \/ TransitionActions(p) \/ TransitionSave(p)
              \/ CancelGet(p) \/ CancelSave(p) \/ EditGet(p)
    <2>1. UNCHANGED <<nodes, issued>>
      BY <1>18 DEF TransitionGet, TransitionGetNode, TransitionActions, TransitionSave, CancelGet,
                   CancelSave, EditGet, Decide, SaveInstance, stores
    <2>2. \E l \in {"transition.node", "transition.actions", "transition.save", "transition.mark",
                    "cancel.save", "release", "update", "error"} : Goto(p, l)
      BY <1>18 DEF TransitionGet, TransitionGetNode, TransitionActions, TransitionSave, CancelGet,
                   CancelSave, EditGet, Decide, SaveInstance
    <2> QED
      BY <1>3, <2>1, <2>2, OtherKeepsMarks
  <1> QED
    BY <1>4, <1>5, <1>6, <1>7, <1>8, <1>9, <1>10, <1>11, <1>12, <1>13, <1>14, <1>15, <1>16,
       <1>17, <1>18 DEF TransitionRequests, CancelAndRelease, NodeRequests

LEMMA OthersStart ==
  ASSUME Inv, StartsInv, NamesIssued, NEW p, Procs = {p},
         TransitionRequests(p) \/ CancelAndRelease(p) \/ NodeRequests(p)
  PROVE  StartsInv'
  <1> USE DEF At
  <1>1. MarksIssued'
    BY OthersKeepMarks DEF StartsInv
  <1>2. pc[p] \notin {"idle", "ok", "error"} /\ "start" \notin OpsAt(pc[p]) /\ UNCHANGED req
    BY DEF OpsAt, locals, TransitionRequests, TransitionGet, TransitionGetNode, TransitionActions,
           TransitionSave, TransitionMark, TransitionMarking, CancelAndRelease, CancelGet, CancelSave,
           Release, Releasing, Clear, Clearing, NodeRequests, EditGet, Update, Updating, Lock,
           Locking, Unlock, Unlocking, Delete, Deleting, NodeRead, NodeWrite, SaveInstance, Decide
  <1>3. req[p].op # "start"
    BY <1>2 DEF Inv, HandlerOK
  <1>4. \E l \in {"transition.node", "transition.actions", "transition.save", "transition.mark",
                  "transition.marking", "cancel.save", "release", "releasing", "clear", "clearing",
                  "update", "updating", "locking", "unlocking", "deleting", "ok", "error"} : Goto(p, l)
    BY DEF OnFailure, TransitionRequests, TransitionGet, TransitionGetNode, TransitionActions,
           TransitionSave, TransitionMark, TransitionMarking, CancelAndRelease, CancelGet, CancelSave,
           Release, Releasing, Clear, Clearing, NodeRequests, EditGet, Update, Updating, Lock,
           Locking, Unlock, Unlocking, Delete, Deleting, NodeRead, NodeWrite, SaveInstance, Decide
  <1> QED
    BY <1>1, <1>2, <1>3, <1>4, NoStart DEF AfterChecks, AfterLocking

\* A failing write sends a start to its rollback, for the only time.
LEMMA FailureStarts ==
  ASSUME Inv, IdInv, StartsInv, FewFailures, NEW p, Procs = {p}, WriteFails(p)
  PROVE  StartsInv'
  <1>1. PICK r, x, c, l : r = req[p] /\ x = nodeCopy[p] /\ c = instCopy[p] /\ l = OnFailure(pc[p])
    OBVIOUS
  <1>2. StartedOK(pc[p], r, x, c) /\ HandlerOK(pc[p], r, x, c) /\ MarksIssued
    BY <1>1 DEF StartsInv, Inv
  <1>3. /\ req'[p] = r /\ nodeCopy'[p] = x /\ instCopy'[p] = c /\ Goto(p, l)
        /\ UNCHANGED <<nodes, instances, issued>>
    BY <1>1 DEF WriteFails, stores, locals
  <1>4. failures \in Nat /\ failures < MaxFailures /\ MaxFailures = 1 /\ failures' = MaxFailures
    BY InstancesAssumption DEF WriteFails, FewFailures, Inv, StoresOK
  <1>5. MarksIssued'
    <2>1. l \notin WritesNode
      BY <1>1 DEF OnFailure, WritesNode
    <2> QED
      BY <1>2, <1>3, <2>1, OtherKeepsMarks
  <1>6. StartedOK(l, r, x, c)'
    <2>1. CASE pc[p] = "start.locking"
      BY <1>1, <1>2, <1>3, <2>1 DEF StartedOK, OnFailure, AfterChecks, AfterLocking
    <2>2. CASE pc[p] = "start.save"
      BY <1>1, <1>2, <1>3, <1>4, <2>2 DEF StartedOK, OnFailure, AfterChecks, AfterLocking, LockedFor
    <2>3. CASE pc[p] = "start.marking"
      BY <1>1, <1>2, <1>3, <1>4, <2>3 DEF StartedOK, OnFailure, AfterChecks, AfterLocking, LockedFor
    <2>4. CASE pc[p] \in {"start.unsave", "start.unlocking"}
      BY <1>2, <1>4, <2>4 DEF StartedOK
    <2>5. CASE pc[p] \notin {"start.locking", "start.save", "start.marking", "start.unsave",
                             "start.unlocking"}
      <3>1. l = "error" /\ "start" \notin OpsAt(pc[p]) /\ pc[p] # "idle"
        BY <1>1, <2>5 DEF WriteFails, Writes, OnFailure, OpsAt
      <3>2. r.op # "start"
        BY <1>2, <3>1 DEF HandlerOK
      <3> QED
        BY <3>1, <3>2 DEF StartedOK, AfterChecks, AfterLocking
    <2> QED
      BY <2>1, <2>2, <2>3, <2>4, <2>5
  <1> QED
    BY <1>3, <1>5, <1>6, StandsAt

LEMMA RestStarts ==
  ASSUME Inv, StartsInv, NEW p, Procs = {p},
         DeleteInstance(p) \/ DefinitionRequests(p) \/ Issue(p) \/ Reply(p)
  PROVE  StartsInv'
  <1> USE DEF At
  <1>1. MarksIssued /\ StartedOK(pc[p], req[p], nodeCopy[p], instCopy[p])
    BY DEF StartsInv
  <1>2. CASE DeleteInstance(p) \/ DefinitionRequests(p)
    <2>1. PICK l \in {"putDefinition.update", "putDefinition.save", "deleteDefinition.delete",
                      "ok", "error"} : Goto(p, l)
      BY <1>2 DEF DeleteInstance, DefinitionRequests, PutDefinition, PutDefinitionUpdate,
                  PutDefinitionSave, DeleteDefinition, DeleteDefinitionDelete, Decide
    <2>2. UNCHANGED <<nodes, issued, req>>
      BY <1>2 DEF DeleteInstance, DefinitionRequests, PutDefinition, PutDefinitionUpdate,
                  PutDefinitionSave, DeleteDefinition, DeleteDefinitionDelete, Decide, stores, locals
    <2>3. MarksIssued'
      BY <1>1, <2>1, <2>2, OtherKeepsMarks DEF WritesNode
    <2>4. req[p].op # "start"
      <3>1. "start" \notin OpsAt(pc[p]) /\ pc[p] # "idle"
        BY <1>2 DEF OpsAt, DeleteInstance, DefinitionRequests, PutDefinition, PutDefinitionUpdate,
                    PutDefinitionSave, DeleteDefinition, DeleteDefinitionDelete, Decide
      <3> QED
        BY <3>1 DEF Inv, HandlerOK
    <2> QED
      BY <2>1, <2>2, <2>3, <2>4, NoStart DEF AfterChecks, AfterLocking
  <1>3. CASE Issue(p)
    <2>1. PICK r \in Requests : req' = [req EXCEPT ![p] = r] /\ Goto(p, r.op)
      BY <1>3 DEF Issue
    <2>2. /\ r.op \notin WritesNode \cup NeedsInstance
          /\ r.op \in {"start", "transition", "cancel", "updateNode", "deleteInstance", "lock",
                       "unlock", "delete", "update", "putDefinition", "deleteDefinition"}
      <3>1. r \in Request
        BY InstancesAssumption
      <3> QED
        BY <3>1 DEF Request, StartRequest, TransitionRequest, InstanceRequest, EditRequest,
                LockRequest, NodeRequest, UpdateRequest, PutDefRequest, DeleteDefRequest,
                WritesNode, NeedsInstance
    <2>3. MarksIssued'
      BY <1>1, <1>3, <2>1, <2>2, OtherKeepsMarks DEF Issue, stores
    <2>4. instCopy[p] = NoCopy
      BY <1>1, <1>3 DEF Issue, StartedOK
    <2>5. PICK x, c : x = nodeCopy[p] /\ c = instCopy[p]
      OBVIOUS
    <2>6. StartedOK(r.op, r, x, c)'
      BY <2>2, <2>4, <2>5 DEF StartedOK, AfterChecks, AfterLocking
    <2>7. req'[p] = r /\ nodeCopy'[p] = x /\ instCopy'[p] = c
      BY <1>3, <2>1, <2>5 DEF Issue, Inv, LocalsOK
    <2> QED
      BY <2>1, <2>3, <2>6, <2>7, StandsAt
  <1>4. CASE Reply(p)
    <2>1. MarksIssued'
      BY <1>1, <1>4, OtherKeepsMarks DEF Reply, stores, WritesNode
    <2>2. instCopy'[p] = NoCopy
      BY <1>4 DEF Reply, Inv, LocalsOK
    <2>3. PICK r, x, c : r = req'[p] /\ x = nodeCopy'[p] /\ c = instCopy'[p]
      OBVIOUS
    <2>4. StartedOK("idle", r, x, c)'
      BY <2>2, <2>3 DEF StartedOK, AfterChecks, AfterLocking
    <2> QED
      BY <1>4, <2>1, <2>3, <2>4, StandsAt DEF Reply
  <1> QED
    BY <1>2, <1>3, <1>4

LEMMA InitStarts == Init => StartsInv
  <1> SUFFICES ASSUME Init PROVE StartsInv
    OBVIOUS
  <1>1. MarksIssued
    BY DEF Init, MarksIssued, FreshNode, WritesNode
  <1>2. \A p \in Procs : StartedOK(pc[p], req[p], nodeCopy[p], instCopy[p])
    BY DEF Init, StartedOK, AfterChecks, AfterLocking
  <1> QED
    BY <1>1, <1>2 DEF StartsInv

LEMMA NextStarts ==
  ASSUME NEW p, Procs = {p}, FewFailures
  PROVE  Inv /\ IdInv /\ NamesIssued /\ StartsInv /\ [Next]_vars => StartsInv'
  <1> SUFFICES ASSUME Inv, IdInv, NamesIssued, StartsInv, [Next]_vars PROVE StartsInv'
    OBVIOUS
  <1>1. CASE UNCHANGED vars
    BY <1>1 DEF vars, StartsInv, MarksIssued, StartedOK, LockedFor
  <1>2. CASE Crash
    <2>1. MarksIssued'
      BY <1>2 DEF Crash, stores, StartsInv, MarksIssued, WritesNode
    <2>2. \A q \in Procs : StartedOK("idle", NoRequest, NoCopy, NoCopy)'
      BY DEF StartedOK, AfterChecks, AfterLocking
    <2> QED
      BY <1>2, <2>1, <2>2 DEF Crash, StartsInv
  <1>3. CASE Issue(p) \/ Handle(p)
    BY <1>3, StartBegins, StartWrites, OthersStart, FailureStarts, RestStarts DEF Handle, Start
  <1> QED
    BY <1>1, <1>2, <1>3 DEF Next

\* A start that reports an error has left neither instance, mark nor lock,
\* when requests are handled one at a time and either no write fails, or one
\* does and administrators start workflows (startWorkflow and its rollbacks).
\* Where others start them, the engine's own mark is refused already, and a
\* failure of the rollback leaves the instance.
THEOREM FailedStartsAreUndone ==
  ASSUME NEW p, Procs = {p}, FewFailures
  PROVE  Spec => []FailedStartLeavesNothing
  <1>1. Inv /\ StartsInv => FailedStartLeavesNothing
    <2> SUFFICES ASSUME StartsInv, pc[p] = "error", req[p].op = "start", instCopy[p] # NoCopy
                 PROVE  /\ instCopy[p].uuid \notin DOMAIN instances
                        /\ NodeOf(p) \in DOMAIN nodes =>
                              /\ nodes[NodeOf(p)].instance # instCopy[p].uuid
                              /\ ~nodes[NodeOf(p)].locked
      BY DEF FailedStartLeavesNothing
    <2> QED
      BY DEF StartsInv, StartedOK, NodeOf
  <1> QED
    BY <1>1, InitInv, NextInv, InitIdentity, NextIdentity, InitNames, NextNames, InitStarts,
       NextStarts, PTL DEF Spec

----------------------------------------------------------------------------
(* Nodes and their workflows, when requests are handled one at a time      *)

\* What a deployment has to see to: no write fails and the server stays up,
\* no record of an instance is deleted, whoever moves an instance may release
\* the lock its start took and nobody else may, and final states are final.
Orderly ==
    /\ MaxFailures = 0 /\ MaxCrashes = 0
    /\ \A r \in Requests : r.op # "deleteInstance"
    /\ \A s, r \in Requests : s.op = "start" /\ IsAdmin(s.user) =>
          /\ r.op \in {"transition", "cancel"} =>
                \/ r.user = s.user
                \/ PrincipalGroups(r.user) \cap PrincipalGroups(s.user) # {}
          /\ r.op = "unlock" =>
                /\ r.user # s.user
                /\ PrincipalGroups(r.user) \cap PrincipalGroups(s.user) = {}
    /\ \A d \in KnownDefinitions : \A t \in d.transitions : t.from \notin d.final

\* A node locked and marked for an instance.
HeldFor(n, i) ==
    /\ n \in DOMAIN nodes /\ nodes[n].instance = i
    /\ \E s \in Requests : s.op = "start" /\ IsAdmin(s.user) /\ LockedFor(n, s.user)

Follows(i) ==
    HeldFor(instances[i].node, i) /\ nodes[instances[i].node].state = instances[i].current

\* Every instance but x agrees with its node, unless an updateNode has rewritten
\* that.
FollowsBut(x) ==
    /\ \A i \in DOMAIN instances \ {x} :
          Running(i) /\ instances[i].node \notin rewritten => Follows(i)
    /\ \A n \in DOMAIN nodes \ rewritten : nodes[n].instance \notin {NoInstance, x} =>
          /\ nodes[n].instance \in DOMAIN instances /\ Running(nodes[n].instance)
          /\ instances[nodes[n].instance].node = n

\* The labels at which a handler is between its two stores.
Between == {"start.mark", "start.marking", "start.unsave", "start.unlock", "start.unlocking",
            "transition.mark", "transition.marking", "release", "releasing", "clear", "clearing"}
Busy(l, ic) == IF l \in Between THEN ic.uuid ELSE NoInstance

Stored(ic) == ic.uuid \in DOMAIN instances /\ instances[ic.uuid] = ic
OnlyMark(ic) == \A n \in DOMAIN nodes \ rewritten : nodes[n].instance = ic.uuid => n = ic.node

FollowingOK(l, r, nc, ic) ==
    /\ l \in AfterChecks /\ r.node \notin rewritten => nodes[r.node].instance = NoInstance
    /\ l \in {"start.mark", "start.marking"} => Stored(ic) /\ ic.running
    /\ l = "start.marking" => IsAdmin(r.user)
    /\ l \in {"transition.actions", "transition.save"} => instances[ic.uuid].running
    /\ l \in {"transition.mark", "transition.marking"} => Stored(ic) /\ ic.running
    /\ l \in {"release", "releasing", "clear", "clearing"} => Stored(ic) /\ ~ic.running
    /\ /\ l \in {"transition.mark", "transition.marking", "release", "releasing"}
       /\ ic.node \notin rewritten
       => HeldFor(ic.node, ic.uuid)
    /\ l \in {"clear", "clearing"} /\ ic.node \notin rewritten =>
          ic.node \in DOMAIN nodes /\ nodes[ic.node].instance = ic.uuid /\ ~nodes[ic.node].locked
    /\ l \in {"transition.mark", "transition.marking", "release", "releasing", "clear", "clearing"}
          => OnlyMark(ic)
    /\ l = "transition.marking" /\ ic.node \notin rewritten =>
          nc = Marked(nodes[ic.node], ic.uuid, ic.current)
    /\ l = "releasing" /\ ic.node \notin rewritten => nc = Unlocked(nodes[ic.node])
    /\ l = "clearing" /\ ic.node \notin rewritten => nc = Marked(nodes[ic.node], NoInstance, NoState)
    /\ l \in {"update", "updating"} /\ r.op = "updateNode" =>
          /\ Stored(ic) /\ ic.running
          /\ CanUserModifyInState(r.user, ic.definition, ic.current, ic.participants)
    /\ l = "updating" =>
          LET n == IF r.op = "updateNode" THEN ic.node ELSE r.node
              who == IF r.op = "updateNode" THEN WorkflowUser ELSE r.user
          IN  /\ n \in DOMAIN nodes /\ nc = Updated(nodes[n], who, r.metadata)
              /\ r.op = "update" => nodes[n].instance = NoInstance
    /\ l = "locking" =>
          /\ r.node \in DOMAIN nodes /\ ~nodes[r.node].locked
          /\ nc = Locked(nodes[r.node], r.user, r.groups)
    /\ l = "unlocking" =>
          /\ r.node \in DOMAIN nodes /\ MayUnlock(r.user, nodes[r.node])
          /\ nc = Unlocked(nodes[r.node])
    /\ l = "deleting" => r.node \in DOMAIN nodes /\ nodes[r.node].instance = NoInstance

\* A stored instance that has stopped without being cancelled is in a final
\* state of a definition that was once stored.
StoppedAreFinal ==
    \A i \in DOMAIN instances :
       /\ instances[i].definition \in KnownDefinitions
       /\ ~instances[i].cancelled /\ ~instances[i].running
             => instances[i].current \in instances[i].definition.final

FollowInv ==
    /\ StoppedAreFinal
    /\ \A p \in Procs :
          /\ FollowsBut(Busy(pc[p], instCopy[p]))
          /\ FollowingOK(pc[p], req[p], nodeCopy[p], instCopy[p])

\* Those of a node that nobody else's workflow is on.
FreeFor(n, e) == \A i \in DOMAIN instances \ {e} : Running(i) => instances[i].node # n

LEMMA IdsAreNotNone ==
  ASSUME Inv
  PROVE  NoInstance \notin DOMAIN instances
  BY PrincipalsAssumption DEF Inv, StoresOK, IsStore

LEMMA Nobody ==
  ASSUME Inv, NEW e, FollowsBut(e), NEW n, n \notin rewritten,
         ~nodes[n].locked \/ nodes[n].instance \in {NoInstance, e}
  PROVE  FreeFor(n, e)
  BY IdsAreNotNone DEF FreeFor, FollowsBut, Follows, HeldFor, LockedFor

LEMMA UnlockedIsUnmarked ==
  ASSUME FollowsBut(NoInstance), NEW n \in DOMAIN nodes, n \notin rewritten, ~nodes[n].locked,
         NoInstance \notin DOMAIN instances
  PROVE  nodes[n].instance = NoInstance
  BY DEF FollowsBut, Follows, HeldFor, LockedFor

LEMMA SameStores ==
  ASSUME NEW e, FollowsBut(e), UNCHANGED <<nodes, instances, rewritten>>
  PROVE  FollowsBut(e)'
  BY DEF FollowsBut, Follows, HeldFor, LockedFor, Running

\* A write of a node that is nobody else's, or that was rewritten.
LEMMA WriteFree ==
  ASSUME NEW e, FollowsBut(e), UNCHANGED instances, NEW n \in DOMAIN nodes, NEW x,
         nodes' = Put(nodes, n, x), rewritten \subseteq rewritten',
         n \in rewritten' \/ (FreeFor(n, e) /\ x.instance \in {NoInstance, e, nodes[n].instance})
  PROVE  FollowsBut(e)'
  <1>1. \A m \in DOMAIN nodes' :
           m \in DOMAIN nodes /\ nodes'[m] = IF m = n THEN x ELSE nodes[m]
    BY DEF Put
  <1>2. DOMAIN nodes' = DOMAIN nodes
    BY DEF Put
  <1>3. ASSUME NEW i \in DOMAIN instances' \ {e}, Running(i)', instances'[i].node \notin rewritten'
        PROVE  Follows(i)'
    <2>1. Follows(i) /\ instances[i].node # n
      BY <1>3 DEF Running, FollowsBut, FreeFor
    <2> QED
      BY <1>1, <1>2, <2>1 DEF Follows, HeldFor, LockedFor
  <1>4. ASSUME NEW m \in DOMAIN nodes' \ rewritten', nodes'[m].instance \notin {NoInstance, e}
        PROVE  LET i == nodes'[m].instance
               IN  i \in DOMAIN instances' /\ instances'[i].running /\ instances'[i].node = m
    <2>1. nodes'[m].instance = nodes[m].instance
      BY <1>1, <1>4
    <2> QED
      BY <1>1, <1>4, <2>1 DEF FollowsBut, Running
  <1> QED
    BY <1>3, <1>4 DEF FollowsBut, Running

\* A write that leaves lock and marks as they are.
LEMMA WriteSameMarks ==
  ASSUME NEW e, FollowsBut(e), UNCHANGED instances, NEW n \in DOMAIN nodes, NEW x,
         nodes' = Put(nodes, n, x), rewritten \subseteq rewritten',
         x.instance = nodes[n].instance, x.state = nodes[n].state,
         x.locked = nodes[n].locked, x.lockedBy = nodes[n].lockedBy,
         x.unlockGroups = nodes[n].unlockGroups
  PROVE  FollowsBut(e)'
  <1>1. /\ DOMAIN nodes' = DOMAIN nodes
        /\ \A m \in DOMAIN nodes :
             /\ nodes'[m].instance = nodes[m].instance /\ nodes'[m].state = nodes[m].state
             /\ nodes'[m].locked = nodes[m].locked /\ nodes'[m].lockedBy = nodes[m].lockedBy
             /\ nodes'[m].unlockGroups = nodes[m].unlockGroups
    BY DEF Put
  <1> QED
    BY <1>1 DEF FollowsBut, Follows, HeldFor, LockedFor, Running

LEMMA RemoveFree ==
  ASSUME NEW e, FollowsBut(e), UNCHANGED <<instances, rewritten>>, NEW n,
         nodes' = Remove(nodes, n), n \in rewritten \/ FreeFor(n, e)
  PROVE  FollowsBut(e)'
  <1>1. \A m \in DOMAIN nodes \ {n} : m \in DOMAIN nodes' /\ nodes'[m] = nodes[m]
    BY DEF Remove
  <1>2. DOMAIN nodes' \subseteq DOMAIN nodes \ {n}
    BY DEF Remove
  <1> QED
    BY <1>1, <1>2 DEF FollowsBut, Follows, HeldFor, LockedFor, Running, FreeFor

\* The one that is busy may be saved or removed.
LEMMA BusyChanges ==
  ASSUME NEW e, FollowsBut(e), UNCHANGED <<nodes, rewritten>>,
         \/ \E c : instances' = Put(instances, e, c)
         \/ instances' = Remove(instances, e)
  PROVE  FollowsBut(e)'
  <1>1. \A i : i # e => /\ i \in DOMAIN instances' <=> i \in DOMAIN instances
                        /\ i \in DOMAIN instances => instances'[i] = instances[i]
    BY DEF Put, Remove
  <1> QED
    BY <1>1 DEF FollowsBut, Follows, HeldFor, LockedFor, Running

LEMMA BusyBegins ==
  ASSUME Inv, FollowsBut(NoInstance), NEW e
  PROVE  FollowsBut(e)
  BY IdsAreNotNone DEF FollowsBut

LEMMA BusyEnds ==
  ASSUME NEW e, FollowsBut(e)',
         e \in DOMAIN instances' /\ Running(e)' /\ instances'[e].node \notin rewritten'
            => Follows(e)',
         \A n \in DOMAIN nodes' \ rewritten' : nodes'[n].instance = e =>
            e \in DOMAIN instances' /\ Running(e)' /\ instances'[e].node = n
  PROVE  FollowsBut(NoInstance)'
  BY DEF FollowsBut, Running

\* Only an updateNode rewrites.
LEMMA WritesNoMore ==
  ASSUME NEW p, NEW at, NEW then, NodeWrite(p, at, then), req[p].op # "updateNode"
  PROVE  UNCHANGED rewritten
  BY DEF NodeWrite, Rewrites

LEMMA FollowsAt ==
  ASSUME Inv, NEW p, Procs = {p}, NEW l, Goto(p, l),
         NEW r, req'[p] = r, NEW x, nodeCopy'[p] = x, NEW c, instCopy'[p] = c,
         StoppedAreFinal', FollowsBut(Busy(l, c))', FollowingOK(l, r, x, c)'
  PROVE  FollowInv'
  <1>1. pc'[p] = l
    BY DEF Inv, LocalsOK, Goto
  <1> QED
    BY <1>1 DEF FollowInv, Busy

\* What p has in hand, by name.
LEMMA InHand ==
  ASSUME Inv, AloneInv, StartsInv, FollowInv, NEW p, Procs = {p}
  PROVE  \E r, x, c : /\ r = req[p] /\ x = nodeCopy[p] /\ c = instCopy[p]
                      /\ StartedOK(pc[p], r, x, c) /\ HandlerOK(pc[p], r, x, c)
                      /\ HandOK(pc[p], r.user, c) /\ FollowingOK(pc[p], r, x, c)
                      /\ FollowsBut(Busy(pc[p], c)) /\ StoppedAreFinal
  BY DEF Inv, AloneInv, StartsInv, FollowInv

\* A step with no effect on the stores, to a label where the same is busy.
LEMMA FollowsOn ==
  ASSUME Inv, FollowInv, NEW p, Procs = {p}, NEW l, Goto(p, l), UNCHANGED <<nodes, instances, rewritten>>,
         NEW r, req'[p] = r, NEW x, nodeCopy'[p] = x, NEW c, instCopy'[p] = c,
         Busy(l, c) = Busy(pc[p], instCopy[p]), FollowingOK(l, r, x, c)'
  PROVE  FollowInv'
  <1>1. StoppedAreFinal'
    BY DEF FollowInv, StoppedAreFinal
  <1>2. PICK e : e = Busy(l, c)
    OBVIOUS
  <1>3. FollowsBut(e)
    BY <1>2 DEF FollowInv
  <1>4. FollowsBut(e)'
    BY <1>3, SameStores
  <1> QED
    BY <1>1, <1>2, <1>4, FollowsAt DEF Busy

LEMMA FollowsStart1 ==
  ASSUME Inv, IdInv, AloneInv, StartsInv, FollowInv, NEW p, Procs = {p},
         StartCheck(p) \/ StartGetNode(p) \/ StartGetDefinition(p) \/ StartLock(p)
  PROVE  FollowInv'
  <1> USE DEF At
  <1>1. PICK r, x, c : /\ r = req[p] /\ x = nodeCopy[p] /\ c = instCopy[p]
                       /\ StartedOK(pc[p], r, x, c) /\ FollowingOK(pc[p], r, x, c)
                       /\ FollowsBut(Busy(pc[p], c))
    BY InHand
  <1>2. /\ UNCHANGED <<nodes, instances, rewritten>> /\ req'[p] = r
        /\ pc[p] \in {"start", "start.node", "start.definition", "start.lock"}
    BY <1>1 DEF StartCheck, StartGetNode, StartGetDefinition, StartLock, NodeRead, stores, locals,
                faults
  <1>3. Busy(pc[p], c) = NoInstance
    BY <1>2 DEF Busy, Between
  <1>4. PICK y, d : y = nodeCopy'[p] /\ d = instCopy'[p]
    OBVIOUS
  <1>5. CASE \E l \in {"start.node", "start.definition", "error"} : Goto(p, l)
    <2>1. PICK l \in {"start.node", "start.definition", "error"} : Goto(p, l)
      BY <1>5
    <2>2. FollowingOK(l, r, y, d)' /\ Busy(l, d) = NoInstance
      BY <2>1 DEF FollowingOK, AfterChecks, AfterLocking, Busy, Between
    <2> QED
      BY <1>1, <1>2, <1>3, <1>4, <2>1, <2>2, FollowsOn
  <1>6. CASE StartGetDefinition(p) /\ MayStart(p)
    <2>1. Goto(p, "start.lock")
      BY <1>6 DEF StartGetDefinition
    <2>2. r.node \in DOMAIN nodes /\ ~nodes[r.node].locked
      BY <1>1, <1>6 DEF StartGetDefinition, StartedOK, MayStart
    <2>3. r.node \notin rewritten => nodes[r.node].instance = NoInstance
      BY <1>1, <1>3, <2>2, UnlockedIsUnmarked, IdsAreNotNone
    <2>4. FollowingOK("start.lock", r, y, d)' /\ Busy("start.lock", d) = NoInstance
      BY <1>2, <2>3 DEF FollowingOK, AfterChecks, AfterLocking, Busy, Between
    <2> QED
      BY <1>1, <1>2, <1>3, <1>4, <2>1, <2>4, FollowsOn
  <1>7. CASE StartLock(p) /\ Goto(p, "start.locking")
    <2>1. r.node \notin rewritten => nodes[r.node].instance = NoInstance
      BY <1>1, <1>7 DEF StartLock, NodeRead, FollowingOK, AfterChecks
    <2>2. FollowingOK("start.locking", r, y, d)' /\ Busy("start.locking", d) = NoInstance
      BY <1>2, <2>1 DEF FollowingOK, AfterChecks, AfterLocking, Busy, Between
    <2> QED
      BY <1>1, <1>2, <1>3, <1>4, <1>7, <2>2, FollowsOn
  <1> QED
    BY <1>5, <1>6, <1>7 DEF StartCheck, StartGetNode, StartGetDefinition, StartLock, NodeRead

LEMMA FollowsStart2 ==
  ASSUME Inv, IdInv, AloneInv, StartsInv, FollowInv, Orderly, NEW p, Procs = {p},
         \/ StartLocking(p) \/ StartSave(p) \/ StartMark(p) \/ StartMarking(p)
         \/ StartUnsave(p) \/ StartUnlock(p) \/ StartUnlocking(p)
  PROVE  FollowInv'
  <1> USE DEF At
  <1>1. PICK r, x, c : /\ r = req[p] /\ x = nodeCopy[p] /\ c = instCopy[p]
                       /\ StartedOK(pc[p], r, x, c) /\ HandlerOK(pc[p], r, x, c)
                       /\ HandOK(pc[p], r.user, c) /\ FollowingOK(pc[p], r, x, c)
                       /\ FollowsBut(Busy(pc[p], c)) /\ StoppedAreFinal
    BY InHand
  <1>2. req'[p] = r /\ instCopy'[p] = c
    BY <1>1 DEF StartLocking, StartSave, StartMark, StartMarking, StartUnsave,
                StartUnlock, StartUnlocking, NodeRead, NodeWrite, SaveInstance, locals
  <1>3. pc[p] \in AfterChecks /\ pc[p] \in NeedsInstance
    BY DEF StartLocking, StartSave, StartMark, StartMarking, StartUnsave,
           StartUnlock, StartUnlocking, NodeRead, NodeWrite, SaveInstance, AfterChecks,
           AfterLocking, NeedsInstance
  <1>4. r.op = "start" /\ r \in Requests /\ r.user \in Users
    <2>1. OpsAt(pc[p]) = {"start"} /\ pc[p] # "idle"
      BY <1>3 DEF OpsAt, AfterChecks, AfterLocking
    <2> QED
      BY <1>1, <2>1, RequestFields DEF HandlerOK
  <1>5. NodeOf(p) = r.node
    BY <1>1, <1>4 DEF NodeOf
  <1> DEFINE n == r.node
  <1>6. /\ n \in DOMAIN nodes /\ nodes[n] \in NodeRecord
        /\ n \notin rewritten => nodes[n].instance = NoInstance
        /\ \A m \in DOMAIN nodes : nodes[m].instance # c.uuid
        /\ c.node = n
    BY <1>1, <1>3 DEF StartedOK, FollowingOK, Inv, StoresOK, IsStore
  <1>7. c.uuid # NoInstance
    <2>1. c \in Instance
      BY <1>1, <1>3 DEF HandlerOK, Sound
    <2> QED
      BY <2>1, PrincipalsAssumption DEF Instance
  <1>8. n \in rewritten \/ FreeFor(n, Busy(pc[p], c))
    BY <1>1, <1>6, Nobody
  <1>8a. UNCHANGED rewritten
    <2>1. CASE StartLocking(p) \/ StartMarking(p) \/ StartUnlocking(p)
      BY <1>1, <1>4, <2>1, WritesNoMore DEF StartLocking, StartMarking, StartUnlocking
    <2> QED
      BY <2>1 DEF StartSave, StartMark, StartUnsave, StartUnlock, NodeRead, SaveInstance, faults
  <1>9. CASE StartLocking(p)
    <2>1. /\ pc[p] = "start.locking" /\ nodes' = Put(nodes, n, x) /\ Goto(p, "start.save")
          /\ UNCHANGED <<nodeCopy, instances>>
      BY <1>1, <1>5, <1>6, <1>9 DEF StartLocking, NodeWrite, locals
    <2>2. n \notin rewritten => x.instance = NoInstance
      BY <1>1, <1>6, <2>1, MarkWritten DEF StartedOK
    <2>3. FollowsBut(NoInstance) /\ (n \in rewritten \/ FreeFor(n, NoInstance))
      BY <1>1, <1>8, <2>1 DEF Busy, Between
    <2>4. FollowsBut(NoInstance)'
      BY <1>6, <1>8a, <2>1, <2>2, <2>3, WriteFree
    <2>5. FollowingOK("start.save", r, x, c)' /\ Busy("start.save", c) = NoInstance
      BY <1>6, <1>8a, <2>1, <2>2 DEF FollowingOK, AfterChecks, AfterLocking, Put, Busy, Between
    <2>6. StoppedAreFinal'
      BY <1>1, <2>1 DEF StoppedAreFinal
    <2> QED
      BY <1>1, <1>2, <2>1, <2>4, <2>5, <2>6, FollowsAt
  <1>10. CASE StartSave(p)
    <2>1. /\ pc[p] = "start.save" /\ instances' = Put(instances, c.uuid, c) /\ Goto(p, "start.mark")
          /\ UNCHANGED <<nodeCopy, nodes>>
      BY <1>1, <1>10 DEF StartSave, SaveInstance, locals
    <2>2. FollowsBut(NoInstance)
      BY <1>1, <2>1 DEF Busy, Between
    <2>3. FollowsBut(c.uuid)'
      BY <1>8a, <2>1, <2>2, BusyBegins, BusyChanges
    <2>4. Stored(c)' /\ c.running
      BY <1>1, <2>1 DEF Stored, Put, HandOK
    <2>5. FollowingOK("start.mark", r, x, c)' /\ Busy("start.mark", c) = c.uuid
      BY <1>6, <1>8a, <2>1, <2>4 DEF FollowingOK, AfterChecks, AfterLocking, Busy, Between
    <2>6. StoppedAreFinal'
      BY <1>1, <2>1 DEF StoppedAreFinal, HandOK, Put
    <2> QED
      BY <1>1, <1>2, <2>1, <2>3, <2>5, <2>6, FollowsAt
  <1>11. CASE StartMark(p) \/ StartUnlock(p)
    <2>1. UNCHANGED <<nodes, instances, rewritten>> /\ Busy(pc[p], instCopy[p]) = c.uuid
      BY <1>1, <1>11 DEF StartMark, StartUnlock, NodeRead, stores, faults, Busy, Between
    <2>2. PICK y : y = nodeCopy'[p]
      OBVIOUS
    <2>3. CASE pc[p] = "start.mark" /\ Goto(p, "start.marking") /\ MayUpdate(WorkflowUser, nodes[n])
      <3>1. LockedFor(n, r.user)
        BY <1>1, <2>3 DEF StartedOK, AfterLocking
      <3>2. IsAdmin(r.user)
        BY <1>4, <2>3, <3>1, PrincipalsAssumption
           DEF LockedFor, MayUpdate, CheckNodeLock, CanUnlockNode, IsAdmin, PrincipalGroups
      <3>3. Stored(c)' /\ c.running
        BY <1>1, <2>1, <2>3 DEF FollowingOK, Stored
      <3>4. FollowingOK("start.marking", r, y, c)' /\ Busy("start.marking", c) = c.uuid
        BY <1>6, <2>1, <3>2, <3>3 DEF FollowingOK, AfterChecks, AfterLocking, Busy, Between
      <3> QED
        BY <1>2, <2>1, <2>2, <2>3, <3>4, FollowsOn
    <2>4. CASE \E l \in {"start.unsave", "start.unlocking"} : Goto(p, l)
      <3>1. PICK l \in {"start.unsave", "start.unlocking"} : Goto(p, l)
        BY <2>4
      <3>2. FollowingOK(l, r, y, c)' /\ Busy(l, c) = c.uuid
        BY <1>6, <2>1, <3>1 DEF FollowingOK, AfterChecks, AfterLocking, Busy, Between
      <3> QED
        BY <1>2, <2>1, <2>2, <3>1, <3>2, FollowsOn
    <2>5. StartUnlock(p) => MayUnlock(r.user, nodes[n])
      BY <1>1, <1>4, <1>6, LockAllows DEF StartUnlock, NodeRead, StartedOK, AfterLocking, LockedFor
    <2> QED
      BY <1>1, <1>5, <1>6, <1>11, <2>3, <2>4, <2>5 DEF StartMark, StartUnlock, NodeRead
  <1>12. CASE StartMarking(p)
    <2>1. /\ pc[p] = "start.marking" /\ nodes' = Put(nodes, n, x) /\ Goto(p, "ok")
          /\ UNCHANGED <<nodeCopy, instances>>
      BY <1>1, <1>5, <1>6, <1>12 DEF StartMarking, NodeWrite, locals
    <2>2. /\ x.instance = c.uuid /\ x.state = c.current /\ x.locked = nodes[n].locked
          /\ x.lockedBy = nodes[n].lockedBy /\ x.unlockGroups = nodes[n].unlockGroups
      BY <1>1, <1>6, <2>1 DEF StartedOK, Marked, NodeRecord
    <2>3. LockedFor(n, r.user) /\ IsAdmin(r.user) /\ Stored(c)
      BY <1>1, <2>1 DEF StartedOK, AfterLocking, FollowingOK
    <2>4. FollowsBut(c.uuid) /\ (n \in rewritten \/ FreeFor(n, c.uuid))
      BY <1>1, <1>8, <2>1 DEF Busy, Between
    <2>5. FollowsBut(c.uuid)'
      BY <1>6, <1>8a, <2>1, <2>2, <2>4, WriteFree
    <2>6. nodes'[n] = x /\ n \in DOMAIN nodes' /\ \A m \in DOMAIN nodes' \ {n} : nodes'[m] = nodes[m] /\ m \in DOMAIN nodes
      BY <1>6, <2>1 DEF Put
    <2>7. HeldFor(n, c.uuid)'
      BY <1>4, <2>2, <2>3, <2>6 DEF HeldFor, LockedFor
    <2>8. Follows(c.uuid)'
      BY <1>6, <2>1, <2>2, <2>3, <2>6, <2>7 DEF Follows, Stored
    <2>9. c.uuid \in DOMAIN instances' /\ Running(c.uuid)' /\ instances'[c.uuid].node = n
      <3>1. c.running
        BY <1>1, <2>1, <2>3, <1>12 DEF StartMarking, FollowingOK
      <3> QED
        BY <1>6, <2>1, <2>3, <3>1 DEF Running, Stored
    <2>10. FollowsBut(NoInstance)'
      BY <1>6, <2>5, <2>6, <2>8, <2>9, BusyEnds
    <2>11. FollowingOK("ok", r, x, c)' /\ Busy("ok", c) = NoInstance
      BY DEF FollowingOK, AfterChecks, AfterLocking, Busy, Between
    <2>12. StoppedAreFinal'
      BY <1>1, <2>1 DEF StoppedAreFinal
    <2> QED
      BY <1>1, <1>2, <2>1, <2>10, <2>11, <2>12, FollowsAt
  <1>13. CASE StartUnsave(p)
    <2>1. /\ pc[p] = "start.unsave" /\ Goto(p, "start.unlock") /\ UNCHANGED <<nodes, nodeCopy>>
          /\ instances' = Remove(instances, c.uuid)
      BY <1>1, <1>13 DEF StartUnsave, locals
    <2>2. FollowsBut(c.uuid)
      BY <1>1, <2>1 DEF Busy, Between
    <2>3. FollowsBut(c.uuid)'
      BY <1>8a, <2>1, <2>2, BusyChanges
    <2>4. FollowingOK("start.unlock", r, x, c)' /\ Busy("start.unlock", c) = c.uuid
      BY <1>6, <1>8a, <2>1 DEF FollowingOK, AfterChecks, AfterLocking, Busy, Between
    <2>5. StoppedAreFinal'
      BY <1>1, <2>1 DEF StoppedAreFinal, Remove
    <2> QED
      BY <1>1, <1>2, <2>1, <2>3, <2>4, <2>5, FollowsAt
  <1>14. CASE StartUnlocking(p)
    <2>1. /\ pc[p] = "start.unlocking" /\ nodes' = Put(nodes, n, x) /\ Goto(p, "error")
          /\ UNCHANGED <<nodeCopy, instances>>
      BY <1>1, <1>5, <1>6, <1>14 DEF StartUnlocking, NodeWrite, locals
    <2>2. x.instance = nodes[n].instance /\ c.uuid \notin DOMAIN instances
      BY <1>1, <1>6, <2>1, MarkWritten DEF StartedOK
    <2>3. FollowsBut(c.uuid) /\ (n \in rewritten \/ FreeFor(n, c.uuid))
      BY <1>1, <1>8, <2>1 DEF Busy, Between
    <2>4. FollowsBut(c.uuid)'
      BY <1>6, <1>8a, <2>1, <2>2, <2>3, WriteFree
    <2>5. \A m \in DOMAIN nodes' : nodes'[m].instance # c.uuid
      BY <1>6, <1>7, <2>1, <2>2 DEF Put
    <2>6. FollowsBut(NoInstance)'
      BY <2>1, <2>2, <2>4, <2>5, BusyEnds
    <2>7. FollowingOK("error", r, x, c)' /\ Busy("error", c) = NoInstance
      BY DEF FollowingOK, AfterChecks, AfterLocking, Busy, Between
    <2>8. StoppedAreFinal'
      BY <1>1, <2>1 DEF StoppedAreFinal
    <2> QED
      BY <1>1, <1>2, <2>1, <2>6, <2>7, <2>8, FollowsAt
  <1> QED
    BY <1>9, <1>10, <1>11, <1>12, <1>13, <1>14

\* A running instance moved or cancelled: its node is still as it was.
LEMMA MovesOn ==
  ASSUME Inv, IdInv, AloneInv, StoppedAreFinal, FollowsBut(NoInstance), NEW p, Procs = {p},
         NEW c, c \in Instance, c.uuid \in DOMAIN instances, Running(c.uuid),
         c.node = instances[c.uuid].node, c.definition = instances[c.uuid].definition,
         ~c.cancelled /\ ~c.running => c.current \in c.definition.final,
         UNCHANGED <<nodes, rewritten>>, instances' = Put(instances, c.uuid, c)
  PROVE  /\ StoppedAreFinal' /\ FollowsBut(c.uuid)' /\ Stored(c)'
         /\ c.node \notin rewritten => HeldFor(c.node, c.uuid)'
         /\ OnlyMark(c)'
  <1>1. c.uuid \in DOMAIN instances' /\ instances'[c.uuid] = c
    BY DEF Put
  <1>2. StoppedAreFinal'
    BY DEF StoppedAreFinal, Put
  <1>3. FollowsBut(c.uuid)'
    BY BusyBegins, BusyChanges
  <1>4. c.node \notin rewritten => HeldFor(c.node, c.uuid)
    BY IdsAreNotNone DEF FollowsBut, Follows
  <1>5. c.node \notin rewritten => HeldFor(c.node, c.uuid)'
    BY <1>4 DEF HeldFor, LockedFor
  <1>6. OnlyMark(c)'
    BY IdsAreNotNone DEF OnlyMark, FollowsBut
  <1> QED
    BY <1>1, <1>2, <1>3, <1>5, <1>6 DEF Stored

\* The lock an administrator's start took lets the engine update the node,
\* and those who may move the instance unlock it.
LEMMA HeldAllows ==
  ASSUME Inv, Orderly, NEW n, NEW i, HeldFor(n, i)
  PROVE  /\ nodes[n] \in NodeRecord
         /\ MayUpdate(WorkflowUser, nodes[n])
         /\ \A r \in Requests : r.op \in {"transition", "cancel"} => MayUnlock(r.user, nodes[n])
         /\ \A r \in Requests : r.op = "unlock" => ~MayUnlock(r.user, nodes[n])
  <1>1. n \in DOMAIN nodes /\ nodes[n] \in NodeRecord
    BY DEF HeldFor, Inv, StoresOK, IsStore
  <1>2. PICK s \in Requests : s.op = "start" /\ IsAdmin(s.user) /\ LockedFor(n, s.user)
    BY DEF HeldFor
  <1>3. s.user \in Users
    BY RequestFields
  <1>4. MayUpdate(WorkflowUser, nodes[n])
    BY <1>1, <1>2, <1>3, LockAllows DEF LockedFor
  <1>5. ASSUME NEW r \in Requests, r.op \in {"transition", "cancel"} PROVE MayUnlock(r.user, nodes[n])
    <2>1. \/ r.user = s.user
          \/ PrincipalGroups(r.user) \cap PrincipalGroups(s.user) # {}
      BY <1>2, <1>5 DEF Orderly
    <2> QED
      BY <1>2, <1>3, <2>1, PrincipalsAssumption DEF LockedFor, MayUnlock, CanUnlockNode
  <1>6. ASSUME NEW r \in Requests, r.op = "unlock" PROVE ~MayUnlock(r.user, nodes[n])
    <2>1. /\ r.user # s.user
          /\ PrincipalGroups(r.user) \cap PrincipalGroups(s.user) = {}
      BY <1>2, <1>6 DEF Orderly
    <2> QED
      BY <1>2, <2>1 DEF LockedFor, MayUnlock, CanUnlockNode
  <1> QED
    BY <1>1, <1>4, <1>5, <1>6

\* On a rewritten node a handler may be refused halfway, and its instance is
\* then as good as any other.
LEMMA RewrittenOn ==
  ASSUME Inv, FollowInv, NEW p, Procs = {p}, NEW c, c = instCopy[p], c.node \in rewritten,
         pc[p] \in Between, Busy(pc[p], c) = c.uuid, Stored(c), OnlyMark(c),
         NEW l, Goto(p, l), UNCHANGED <<instances, rewritten, req, instCopy>>,
         UNCHANGED nodes \/ \E x : nodes' = Put(nodes, c.node, x),
         \/ l \in {"ok", "error"}
         \/ l \in {"transition.mark", "transition.marking"} /\ c.running
         \/ l \in {"release", "releasing", "clear", "clearing"} /\ ~c.running
  PROVE  FollowInv'
  <1>1. PICK r, y : r = req'[p] /\ y = nodeCopy'[p]
    OBVIOUS
  <1>2. StoppedAreFinal'
    BY DEF FollowInv, StoppedAreFinal
  <1>3. FollowsBut(c.uuid)
    BY DEF FollowInv
  <1>4. \A m \in DOMAIN nodes' \ {c.node} : m \in DOMAIN nodes /\ nodes'[m] = nodes[m]
    BY DEF Put
  <1>5. FollowsBut(c.uuid)'
    <2>1. CASE UNCHANGED nodes
      BY <1>3, <2>1, SameStores
    <2>2. CASE ~UNCHANGED nodes /\ c.node \in DOMAIN nodes
      BY <1>3, <2>2, WriteFree
    <2>3. CASE c.node \notin DOMAIN nodes
      <3>1. \A m \in DOMAIN nodes : m \in DOMAIN nodes' /\ nodes'[m] = nodes[m]
        BY <2>3 DEF Put
      <3> QED
        BY <1>3, <1>4, <3>1 DEF FollowsBut, Follows, HeldFor, LockedFor, Running
    <2> QED
      BY <2>1, <2>2, <2>3
  <1>6. Stored(c)' /\ OnlyMark(c)'
    BY <1>4 DEF Stored, OnlyMark
  <1>7. FollowingOK(l, r, y, c)'
    BY <1>6 DEF FollowingOK, AfterChecks, AfterLocking
  <1>8. CASE l \in {"ok", "error"}
    <2>1. \A m \in DOMAIN nodes' \ rewritten' : nodes'[m].instance # c.uuid
      BY <1>6 DEF OnlyMark
    <2>2. instances'[c.uuid].node \in rewritten'
      BY <1>6 DEF Stored
    <2>3. FollowsBut(NoInstance)' /\ Busy(l, c) = NoInstance
      BY <1>5, <1>8, <2>1, <2>2, BusyEnds DEF Busy, Between
    <2> QED
      BY <1>1, <1>2, <1>7, <2>3, FollowsAt
  <1>9. CASE l \in Between
    <2>1. Busy(l, c) = c.uuid
      BY <1>9 DEF Busy
    <2> QED
      BY <1>1, <1>2, <1>5, <1>7, <2>1, FollowsAt
  <1> QED
    BY <1>8, <1>9 DEF Between

LEMMA FollowsTransition ==
  ASSUME Inv, IdInv, AloneInv, StartsInv, FollowInv, Orderly, NEW p, Procs = {p},
         TransitionRequests(p)
  PROVE  FollowInv'
  <1> USE DEF At
  <1>1. PICK r, x, c : /\ r = req[p] /\ x = nodeCopy[p] /\ c = instCopy[p]
                       /\ StartedOK(pc[p], r, x, c) /\ HandlerOK(pc[p], r, x, c)
                       /\ HandOK(pc[p], r.user, c) /\ FollowingOK(pc[p], r, x, c)
                       /\ FollowsBut(Busy(pc[p], c)) /\ StoppedAreFinal
    BY InHand
  <1>2. req'[p] = r
    BY <1>1 DEF TransitionRequests, TransitionGet, TransitionGetNode, TransitionActions,
                TransitionSave, TransitionMark, TransitionMarking, NodeRead, NodeWrite,
                SaveInstance, Decide, locals
  <1>3. r.op = "transition" /\ r \in Requests
    <2>1. OpsAt(pc[p]) = {"transition"} /\ pc[p] # "idle"
      BY DEF TransitionRequests, TransitionGet, TransitionGetNode, TransitionActions,
             TransitionSave, TransitionMark, TransitionMarking, NodeRead, NodeWrite,
             SaveInstance, Decide, OpsAt
    <2> QED
      BY <1>1, <2>1 DEF HandlerOK
  <1>4. NodeOf(p) = c.node
    BY <1>1, <1>3 DEF NodeOf
  <1>5. PICK y, d : y = nodeCopy'[p] /\ d = instCopy'[p]
    OBVIOUS
  <1>6. CASE TransitionGet(p)
    <2>1. PICK l \in {"transition.node", "error"} : Goto(p, l)
      BY <1>6 DEF TransitionGet
    <2>2. UNCHANGED <<nodes, instances, rewritten>> /\ Busy(pc[p], instCopy[p]) = NoInstance
      BY <1>6 DEF TransitionGet, stores, faults, Busy, Between
    <2>3. FollowingOK(l, r, y, d)' /\ Busy(l, d) = NoInstance
      BY <2>1 DEF FollowingOK, AfterChecks, AfterLocking, Busy, Between
    <2> QED
      BY <1>2, <1>5, <2>1, <2>2, <2>3, FollowsOn
  <1>7. CASE TransitionGetNode(p)
    <2>1. UNCHANGED <<nodes, instances, rewritten>> /\ Busy(pc[p], instCopy[p]) = NoInstance
      BY <1>7 DEF TransitionGetNode, stores, faults, Busy, Between
    <2>2. CASE Goto(p, "error")
      <3>1. FollowingOK("error", r, y, d)' /\ Busy("error", d) = NoInstance
        BY DEF FollowingOK, AfterChecks, AfterLocking, Busy, Between
      <3> QED
        BY <1>2, <1>5, <2>1, <2>2, <3>1, FollowsOn
    <2>3. ASSUME NEW t \in Enabled(p), NEW l \in {"transition.actions", "transition.save"},
                 instCopy' = [instCopy EXCEPT ![p] = Advanced(@, t, req[p].user)], Goto(p, l)
          PROVE  FollowInv'
      <3>1. /\ c.uuid \in DOMAIN instances /\ c = instances[c.uuid] /\ ~c.cancelled /\ c \in Instance
        BY <1>1, <1>7 DEF TransitionGetNode, HandOK, HandlerOK, Sound, NeedsInstance
      <3>2. t \in c.definition.transitions /\ t.from = c.current
        BY <1>1 DEF Enabled
      <3>3. c.running
        BY <1>1, <3>1, <3>2 DEF StoppedAreFinal, Orderly
      <3>4. d = Advanced(c, t, r.user)
        BY <1>1, <1>5, <2>3 DEF Inv, LocalsOK
      <3>5. d.uuid = c.uuid
        BY <3>1, <3>4 DEF Advanced, Instance
      <3>6. FollowingOK(l, r, y, d)' /\ Busy(l, d) = NoInstance
        BY <2>1, <2>3, <3>1, <3>3, <3>5 DEF FollowingOK, AfterChecks, AfterLocking, Busy, Between
      <3> QED
        BY <1>2, <1>5, <2>1, <2>3, <3>6, FollowsOn
    <2> QED
      BY <1>7, <2>2, <2>3 DEF TransitionGetNode
  <1>8. CASE TransitionActions(p)
    <2>1. PICK l \in {"transition.save", "error"} : Goto(p, l)
      BY <1>8 DEF TransitionActions, Decide
    <2>2. /\ UNCHANGED <<nodes, instances, rewritten>> /\ Busy(pc[p], instCopy[p]) = NoInstance
          /\ d = c /\ instances[c.uuid].running
      BY <1>1, <1>5, <1>8 DEF TransitionActions, Decide, stores, locals, faults, Busy, Between, FollowingOK
    <2>3. FollowingOK(l, r, y, d)' /\ Busy(l, d) = NoInstance
      BY <2>1, <2>2 DEF FollowingOK, AfterChecks, AfterLocking, Busy, Between
    <2> QED
      BY <1>2, <1>5, <2>1, <2>2, <2>3, FollowsOn
  <1>9. CASE TransitionSave(p)
    <2>1. /\ pc[p] = "transition.save" /\ UNCHANGED <<nodes, rewritten>> /\ y = x /\ d = c
          /\ instances' = Put(instances, c.uuid, c)
      BY <1>1, <1>5, <1>9 DEF TransitionSave, SaveInstance, locals, faults
    <2>2. PICK l : /\ Goto(p, l) /\ l \in {"transition.mark", "release"}
                   /\ l = "transition.mark" <=> c.running
      BY <1>1, <1>9 DEF TransitionSave, SaveInstance
    <2>3. /\ c \in Instance /\ c.uuid \in DOMAIN instances /\ Running(c.uuid)
          /\ FollowsBut(NoInstance) /\ instances[c.uuid] \in Instance
      BY <1>1, <2>1 DEF HandlerOK, Sound, NeedsInstance, HandOK, FollowingOK, Running, Busy,
                        Between, Inv, StoresOK, IsStore
    <2>4. PICK t : c = Advanced(instances[c.uuid], t, r.user)
      BY <1>1, <2>1 DEF HandOK
    <2>5. PICK old : old = instances[c.uuid]
      OBVIOUS
    <2>6. /\ c.node = old.node /\ c.definition = old.definition
          /\ ~c.cancelled /\ ~c.running => c.current \in c.definition.final
      BY <2>3, <2>4, <2>5 DEF Advanced, Instance
    <2>7. /\ StoppedAreFinal' /\ FollowsBut(c.uuid)' /\ Stored(c)'
          /\ c.node \notin rewritten => HeldFor(c.node, c.uuid)'
          /\ OnlyMark(c)'
      BY <1>1, <2>1, <2>3, <2>5, <2>6, MovesOn
    <2>8. FollowingOK(l, r, x, c)' /\ Busy(l, c) = c.uuid
      BY <2>1, <2>2, <2>7 DEF FollowingOK, AfterChecks, AfterLocking, Busy, Between
    <2> QED
      BY <1>2, <1>5, <2>1, <2>2, <2>7, <2>8, FollowsAt
  <1>9a. CASE /\ c.node \in rewritten
              /\ TransitionMark(p) \/ TransitionMarking(p)
    <2>1. /\ pc[p] \in {"transition.mark", "transition.marking"}
          /\ UNCHANGED <<instances, req, instCopy>>
      BY <1>9a DEF TransitionMark, TransitionMarking, NodeRead, NodeWrite, stores, locals
    <2>2. Stored(c) /\ c.running /\ OnlyMark(c)
      BY <1>1, <2>1 DEF FollowingOK
    <2>3. UNCHANGED rewritten
      BY <1>1, <1>3, <1>9a, WritesNoMore DEF TransitionMark, TransitionMarking, NodeRead, faults
    <2>4. UNCHANGED nodes \/ \E w : nodes' = Put(nodes, c.node, w)
      BY <1>4, <1>9a DEF TransitionMark, TransitionMarking, NodeRead, NodeWrite, stores
    <2>5. \E l \in {"transition.marking", "ok", "error"} : Goto(p, l)
      BY <1>9a DEF TransitionMark, TransitionMarking, NodeRead, NodeWrite, OnFailure
    <2>6. pc[p] \in Between /\ Busy(pc[p], c) = c.uuid
      BY <2>1 DEF Busy, Between
    <2> QED
      BY <1>1, <1>9a, <2>1, <2>2, <2>3, <2>4, <2>5, <2>6, RewrittenOn
  <1>10. CASE c.node \notin rewritten /\ TransitionMark(p)
    <2>1. /\ pc[p] = "transition.mark" /\ UNCHANGED <<nodes, instances, rewritten>> /\ d = c
          /\ Busy(pc[p], instCopy[p]) = c.uuid
      BY <1>1, <1>5, <1>10 DEF TransitionMark, NodeRead, stores, faults, Busy, Between
    <2>2. Stored(c) /\ c.running /\ HeldFor(c.node, c.uuid) /\ OnlyMark(c)
      BY <1>1, <1>10, <2>1 DEF FollowingOK
    <2>3. /\ Goto(p, "transition.marking")
          /\ nodeCopy' = [nodeCopy EXCEPT ![p] = Marked(nodes[c.node], nodes[c.node].instance, c.current)]
      BY <1>1, <1>4, <1>10, <2>2, HeldAllows DEF TransitionMark, NodeRead, HeldFor
    <2>4. y = Marked(nodes[c.node], c.uuid, c.current)
      BY <1>5, <2>2, <2>3 DEF Inv, LocalsOK, HeldFor
    <2>5. (Stored(c) /\ HeldFor(c.node, c.uuid) /\ OnlyMark(c))'
      BY <2>1, <2>2 DEF Stored, HeldFor, LockedFor, OnlyMark
    <2>6. FollowingOK("transition.marking", r, y, c)' /\ Busy("transition.marking", c) = c.uuid
      BY <2>1, <2>2, <2>4, <2>5 DEF FollowingOK, AfterChecks, AfterLocking, Busy, Between
    <2> QED
      BY <1>2, <1>5, <2>1, <2>3, <2>6, FollowsOn
  <1>11. CASE c.node \notin rewritten /\ TransitionMarking(p)
    <2> DEFINE n == c.node
    <2>0. UNCHANGED rewritten
      BY <1>1, <1>3, <1>11, WritesNoMore DEF TransitionMarking
    <2>1. pc[p] = "transition.marking" /\ UNCHANGED instances /\ d = c /\ y = x
      BY <1>1, <1>5, <1>11 DEF TransitionMarking, NodeWrite, locals
    <2>2. /\ Stored(c) /\ c.running /\ HeldFor(n, c.uuid) /\ OnlyMark(c)
          /\ x = Marked(nodes[n], c.uuid, c.current) /\ FollowsBut(c.uuid)
      BY <1>1, <1>11, <2>1 DEF FollowingOK, Busy, Between
    <2>3. nodes' = Put(nodes, n, x) /\ Goto(p, "ok") /\ n \in DOMAIN nodes
      BY <1>1, <1>4, <1>11, <2>2 DEF TransitionMarking, NodeWrite, HeldFor
    <2>4. /\ x.instance = c.uuid /\ x.state = c.current /\ x.locked = nodes[n].locked
          /\ x.lockedBy = nodes[n].lockedBy /\ x.unlockGroups = nodes[n].unlockGroups
      BY <2>2, HeldAllows DEF Marked, NodeRecord
    <2>5. FreeFor(n, c.uuid)
      BY <1>11, <2>2, Nobody DEF HeldFor
    <2>6. FollowsBut(c.uuid)'
      BY <2>0, <2>1, <2>2, <2>3, <2>4, <2>5, WriteFree
    <2>7. nodes'[n] = x /\ n \in DOMAIN nodes' /\ \A m \in DOMAIN nodes' \ {n} : nodes'[m] = nodes[m] /\ m \in DOMAIN nodes
      BY <2>3 DEF Put
    <2>8. HeldFor(n, c.uuid)'
      BY <2>2, <2>4, <2>7 DEF HeldFor, LockedFor
    <2>9. Follows(c.uuid)'
      BY <2>1, <2>2, <2>4, <2>7, <2>8 DEF Follows, Stored
    <2>10. c.uuid \in DOMAIN instances' /\ Running(c.uuid)' /\ instances'[c.uuid].node = n
      BY <2>1, <2>2 DEF Running, Stored
    <2>11. FollowsBut(NoInstance)'
      BY <2>0, <2>2, <2>6, <2>7, <2>9, <2>10, BusyEnds DEF OnlyMark
    <2>12. FollowingOK("ok", r, x, c)' /\ Busy("ok", c) = NoInstance
      BY DEF FollowingOK, AfterChecks, AfterLocking, Busy, Between
    <2>13. StoppedAreFinal'
      BY <1>1, <2>1 DEF StoppedAreFinal
    <2> QED
      BY <1>2, <1>5, <2>1, <2>3, <2>11, <2>12, <2>13, FollowsAt
  <1> QED
    BY <1>6, <1>7, <1>8, <1>9, <1>9a, <1>10, <1>11 DEF TransitionRequests

LEMMA FollowsRelease ==
  ASSUME Inv, IdInv, AloneInv, StartsInv, FollowInv, Orderly, NEW p, Procs = {p},
         CancelAndRelease(p)
  PROVE  FollowInv'
  <1> USE DEF At
  <1>1. PICK r, x, c : /\ r = req[p] /\ x = nodeCopy[p] /\ c = instCopy[p]
                       /\ StartedOK(pc[p], r, x, c) /\ HandlerOK(pc[p], r, x, c)
                       /\ HandOK(pc[p], r.user, c) /\ FollowingOK(pc[p], r, x, c)
                       /\ FollowsBut(Busy(pc[p], c)) /\ StoppedAreFinal
    BY InHand
  <1>2. req'[p] = r
    BY <1>1 DEF CancelAndRelease, CancelGet, CancelSave, Release, Releasing, Clear, Clearing,
                NodeRead, NodeWrite, SaveInstance, locals
  <1>3. r.op \in {"transition", "cancel"} /\ r \in Requests
    <2>1. OpsAt(pc[p]) \subseteq {"transition", "cancel"} /\ pc[p] # "idle"
      BY DEF CancelAndRelease, CancelGet, CancelSave, Release, Releasing, Clear, Clearing,
             NodeRead, NodeWrite, SaveInstance, OpsAt
    <2> QED
      BY <1>1, <2>1 DEF HandlerOK
  <1>4. NodeOf(p) = c.node
    BY <1>1, <1>3 DEF NodeOf
  <1>5. PICK y, d : y = nodeCopy'[p] /\ d = instCopy'[p]
    OBVIOUS
  <1>6. CASE CancelGet(p)
    <2>1. PICK l \in {"cancel.save", "error"} : Goto(p, l)
      BY <1>6 DEF CancelGet
    <2>2. UNCHANGED <<nodes, instances, rewritten>> /\ Busy(pc[p], instCopy[p]) = NoInstance
      BY <1>6 DEF CancelGet, stores, faults, Busy, Between
    <2>3. FollowingOK(l, r, y, d)' /\ Busy(l, d) = NoInstance
      BY <2>1 DEF FollowingOK, AfterChecks, AfterLocking, Busy, Between
    <2> QED
      BY <1>2, <1>5, <2>1, <2>2, <2>3, FollowsOn
  <1>7. CASE CancelSave(p)
    <2>1. /\ pc[p] = "cancel.save" /\ UNCHANGED <<nodes, rewritten>> /\ y = x /\ d = c
          /\ instances' = Put(instances, c.uuid, c) /\ Goto(p, "release")
      BY <1>1, <1>5, <1>7 DEF CancelSave, SaveInstance, locals, faults
    <2>2. PICK old : old = instances[c.uuid]
      OBVIOUS
    <2>3. /\ c \in Instance /\ c.uuid \in DOMAIN instances /\ Running(c.uuid)
          /\ FollowsBut(NoInstance) /\ old \in Instance /\ c = Cancelled(old)
      BY <1>1, <2>1, <2>2 DEF HandlerOK, Sound, NeedsInstance, HandOK, Running, Busy,
                        Between, Inv, StoresOK, IsStore
    <2>4. c.node = old.node /\ c.definition = old.definition /\ c.cancelled /\ ~c.running
      BY <2>3 DEF Cancelled, Instance
    <2>5. /\ StoppedAreFinal' /\ FollowsBut(c.uuid)' /\ Stored(c)'
          /\ c.node \notin rewritten => HeldFor(c.node, c.uuid)'
          /\ OnlyMark(c)'
      BY <1>1, <2>1, <2>2, <2>3, <2>4, MovesOn
    <2>6. FollowingOK("release", r, x, c)' /\ Busy("release", c) = c.uuid
      BY <2>1, <2>4, <2>5 DEF FollowingOK, AfterChecks, AfterLocking, Busy, Between
    <2> QED
      BY <1>2, <1>5, <2>1, <2>5, <2>6, FollowsAt
  <1>7a. CASE /\ c.node \in rewritten
              /\ Release(p) \/ Releasing(p) \/ Clear(p) \/ Clearing(p)
    <2>1. /\ pc[p] \in {"release", "releasing", "clear", "clearing"}
          /\ UNCHANGED <<instances, req, instCopy>>
      BY <1>7a DEF Release, Releasing, Clear, Clearing, NodeRead, NodeWrite, stores, locals
    <2>2. Stored(c) /\ ~c.running /\ OnlyMark(c)
      BY <1>1, <2>1 DEF FollowingOK
    <2>3. UNCHANGED rewritten
      BY <1>1, <1>3, <1>7a, WritesNoMore DEF Release, Releasing, Clear, Clearing, NodeRead, faults
    <2>4. UNCHANGED nodes \/ \E w : nodes' = Put(nodes, c.node, w)
      BY <1>4, <1>7a DEF Release, Releasing, Clear, Clearing, NodeRead, NodeWrite, stores
    <2>5. \E l \in {"releasing", "clear", "clearing", "ok", "error"} : Goto(p, l)
      BY <1>7a DEF Release, Releasing, Clear, Clearing, NodeRead, NodeWrite, OnFailure
    <2>6. pc[p] \in Between /\ Busy(pc[p], c) = c.uuid
      BY <2>1 DEF Busy, Between
    <2> QED
      BY <1>1, <1>7a, <2>1, <2>2, <2>3, <2>4, <2>5, <2>6, RewrittenOn
  <1>8. CASE c.node \notin rewritten /\ Release(p)
    <2>1. /\ pc[p] = "release" /\ UNCHANGED <<nodes, instances, rewritten>> /\ d = c
          /\ Busy(pc[p], instCopy[p]) = c.uuid
      BY <1>1, <1>5, <1>8 DEF Release, NodeRead, stores, faults, Busy, Between
    <2>2. Stored(c) /\ ~c.running /\ HeldFor(c.node, c.uuid) /\ OnlyMark(c)
      BY <1>1, <1>8, <2>1 DEF FollowingOK
    <2>3. /\ Goto(p, "releasing")
          /\ nodeCopy' = [nodeCopy EXCEPT ![p] = Unlocked(nodes[c.node])]
      BY <1>1, <1>3, <1>4, <1>8, <2>2, HeldAllows DEF Release, NodeRead, HeldFor
    <2>4. y = Unlocked(nodes[c.node])
      BY <1>5, <2>3 DEF Inv, LocalsOK
    <2>5. (Stored(c) /\ HeldFor(c.node, c.uuid) /\ OnlyMark(c))'
      BY <2>1, <2>2 DEF Stored, HeldFor, LockedFor, OnlyMark
    <2>6. FollowingOK("releasing", r, y, c)' /\ Busy("releasing", c) = c.uuid
      BY <2>1, <2>2, <2>4, <2>5 DEF FollowingOK, AfterChecks, AfterLocking, Busy, Between
    <2> QED
      BY <1>2, <1>5, <2>1, <2>3, <2>6, FollowsOn
  <1>9. CASE c.node \notin rewritten /\ Releasing(p)
    <2> DEFINE n == c.node
    <2>0. UNCHANGED rewritten
      BY <1>1, <1>3, <1>9, WritesNoMore DEF Releasing
    <2>1. pc[p] = "releasing" /\ UNCHANGED instances /\ d = c /\ y = x
      BY <1>1, <1>5, <1>9 DEF Releasing, NodeWrite, locals
    <2>2. /\ Stored(c) /\ ~c.running /\ HeldFor(n, c.uuid) /\ OnlyMark(c)
          /\ x = Unlocked(nodes[n]) /\ FollowsBut(c.uuid)
      BY <1>1, <1>9, <2>1 DEF FollowingOK, Busy, Between
    <2>3. nodes' = Put(nodes, n, x) /\ Goto(p, "clear") /\ n \in DOMAIN nodes
      BY <1>1, <1>4, <1>9, <2>2 DEF Releasing, NodeWrite, HeldFor
    <2>4. x.instance = c.uuid /\ ~x.locked
      BY <2>2, HeldAllows, MarkWritten, LockedRecord DEF HeldFor
    <2>5. FreeFor(n, c.uuid)
      BY <1>9, <2>2, Nobody DEF HeldFor
    <2>6. FollowsBut(c.uuid)'
      BY <2>0, <2>1, <2>2, <2>3, <2>4, <2>5, WriteFree
    <2>7. nodes'[n] = x /\ n \in DOMAIN nodes' /\ \A m \in DOMAIN nodes' \ {n} : nodes'[m] = nodes[m] /\ m \in DOMAIN nodes
      BY <2>3 DEF Put
    <2>8. Stored(c)' /\ OnlyMark(c)'
      BY <2>0, <2>1, <2>2, <2>7 DEF Stored, OnlyMark
    <2>9. FollowingOK("clear", r, x, c)' /\ Busy("clear", c) = c.uuid
      BY <2>2, <2>4, <2>7, <2>8 DEF FollowingOK, AfterChecks, AfterLocking, Busy, Between
    <2>10. StoppedAreFinal'
      BY <1>1, <2>1 DEF StoppedAreFinal
    <2> QED
      BY <1>2, <1>5, <2>1, <2>3, <2>6, <2>9, <2>10, FollowsAt
  <1>10. CASE c.node \notin rewritten /\ Clear(p)
    <2>1. /\ pc[p] = "clear" /\ UNCHANGED <<nodes, instances, rewritten>> /\ d = c
          /\ Busy(pc[p], instCopy[p]) = c.uuid
      BY <1>1, <1>5, <1>10 DEF Clear, NodeRead, stores, faults, Busy, Between
    <2>2. /\ Stored(c) /\ ~c.running /\ OnlyMark(c)
          /\ c.node \in DOMAIN nodes /\ nodes[c.node].instance = c.uuid /\ ~nodes[c.node].locked
      BY <1>1, <1>10, <2>1 DEF FollowingOK
    <2>3. MayUpdate(WorkflowUser, nodes[c.node])
      BY <2>2, PrincipalsAssumption DEF MayUpdate, MayWrite, CheckNodeLock, IsAdmin, PrincipalGroups
    <2>4. /\ Goto(p, "clearing")
          /\ nodeCopy' = [nodeCopy EXCEPT ![p] = Marked(nodes[c.node], NoInstance, NoState)]
      BY <1>1, <1>4, <1>10, <2>2, <2>3 DEF Clear, NodeRead
    <2>5. y = Marked(nodes[c.node], NoInstance, NoState)
      BY <1>5, <2>4 DEF Inv, LocalsOK
    <2>6. (Stored(c) /\ OnlyMark(c))'
      BY <2>1, <2>2 DEF Stored, OnlyMark
    <2>7. FollowingOK("clearing", r, y, c)' /\ Busy("clearing", c) = c.uuid
      BY <2>1, <2>2, <2>5, <2>6 DEF FollowingOK, AfterChecks, AfterLocking, Busy, Between
    <2> QED
      BY <1>2, <1>5, <2>1, <2>4, <2>7, FollowsOn
  <1>11. CASE c.node \notin rewritten /\ Clearing(p)
    <2> DEFINE n == c.node
    <2>0. UNCHANGED rewritten
      BY <1>1, <1>3, <1>11, WritesNoMore DEF Clearing
    <2>1. pc[p] = "clearing" /\ UNCHANGED instances /\ d = c /\ y = x
      BY <1>1, <1>5, <1>11 DEF Clearing, NodeWrite, locals
    <2>2. /\ Stored(c) /\ ~c.running /\ OnlyMark(c) /\ n \in DOMAIN nodes
          /\ nodes[n].instance = c.uuid /\ c.uuid # NoInstance
          /\ x = Marked(nodes[n], NoInstance, NoState) /\ FollowsBut(c.uuid)
      BY <1>1, <1>11, <2>1, IdsAreNotNone DEF FollowingOK, Busy, Between, Stored
    <2>3. nodes' = Put(nodes, n, x) /\ Goto(p, "ok")
      BY <1>1, <1>4, <1>11, <2>2 DEF Clearing, NodeWrite
    <2>4. x.instance = NoInstance
      BY <2>2, MarkWritten DEF Inv, StoresOK, IsStore
    <2>5. FreeFor(n, c.uuid)
      BY <1>11, <2>2, Nobody
    <2>6. FollowsBut(c.uuid)'
      BY <2>0, <2>1, <2>2, <2>3, <2>4, <2>5, WriteFree
    <2>7. \A m \in DOMAIN nodes' \ rewritten' : nodes'[m].instance # c.uuid
      BY <2>0, <2>2, <2>3, <2>4 DEF Put, OnlyMark
    <2>8. ~Running(c.uuid)'
      BY <2>1, <2>2 DEF Running, Stored
    <2>9. FollowsBut(NoInstance)'
      BY <2>6, <2>7, <2>8, BusyEnds
    <2>10. FollowingOK("ok", r, x, c)' /\ Busy("ok", c) = NoInstance
      BY DEF FollowingOK, AfterChecks, AfterLocking, Busy, Between
    <2>11. StoppedAreFinal'
      BY <1>1, <2>1 DEF StoppedAreFinal
    <2> QED
      BY <1>2, <1>5, <2>1, <2>3, <2>9, <2>10, <2>11, FollowsAt
  <1> QED
    BY <1>6, <1>7, <1>7a, <1>8, <1>9, <1>10, <1>11 DEF CancelAndRelease

LEMMA FollowsNode ==
  ASSUME Inv, IdInv, AloneInv, StartsInv, FollowInv, Orderly, NEW p, Procs = {p},
         NodeRequests(p)
  PROVE  FollowInv'
  <1> USE DEF At
  <1>1. PICK r, x, c : /\ r = req[p] /\ x = nodeCopy[p] /\ c = instCopy[p]
                       /\ StartedOK(pc[p], r, x, c) /\ HandlerOK(pc[p], r, x, c)
                       /\ HandOK(pc[p], r.user, c) /\ FollowingOK(pc[p], r, x, c)
                       /\ FollowsBut(Busy(pc[p], c)) /\ StoppedAreFinal
    BY InHand
  <1>2. req'[p] = r /\ UNCHANGED instances /\ StoppedAreFinal'
    BY <1>1 DEF NodeRequests, EditGet, Update, Updating, Lock, Locking, Unlock, Unlocking,
                Delete, Deleting, NodeRead, NodeWrite, stores, locals, StoppedAreFinal
  <1>2a. /\ rewritten \subseteq rewritten'
         /\ pc[p] # "updating" => UNCHANGED rewritten
    <2>1. CASE Updating(p) \/ Locking(p) \/ Unlocking(p)
      <3>1. r.op \in OpsAt(pc[p]) /\ pc[p] \in {"updating", "locking", "unlocking"}
        BY <1>1, <2>1 DEF Updating, Locking, Unlocking, NodeWrite, HandlerOK
      <3>2. pc[p] # "updating" => r.op # "updateNode"
        BY <3>1 DEF OpsAt
      <3> QED
        BY <1>1, <2>1, <3>1, <3>2 DEF Updating, Locking, Unlocking, NodeWrite, Rewrites
    <2>2. CASE \/ EditGet(p) \/ Update(p) \/ Lock(p) \/ Unlock(p)
               \/ Delete(p) \/ Deleting(p)
      BY <2>2 DEF EditGet, Update, Lock, Unlock, Delete, Deleting, NodeRead, faults
    <2> QED
      BY <2>1, <2>2 DEF NodeRequests
  <1>3. /\ pc[p] \in {"updateNode", "update", "updating", "lock", "locking", "unlock",
                      "unlocking", "delete", "deleting"}
        /\ r \in Requests /\ r.op \in OpsAt(pc[p])
    BY <1>1 DEF NodeRequests, EditGet, Update, Updating, Lock, Locking, Unlock, Unlocking,
                Delete, Deleting, NodeRead, NodeWrite, HandlerOK
  <1>4. /\ r.user \in Users /\ r.op \in {"updateNode", "update", "lock", "unlock", "delete"}
        /\ r.op = "updateNode" <=> NodeOf(p) = c.node /\ r.op = "updateNode"
        /\ r.op # "updateNode" => NodeOf(p) = r.node
    BY <1>1, <1>3, RequestFields DEF OpsAt, NodeOf
  <1>5. Busy(pc[p], instCopy[p]) = NoInstance /\ FollowsBut(NoInstance)
    BY <1>1, <1>3 DEF Busy, Between
  <1>6. PICK y, d : y = nodeCopy'[p] /\ d = instCopy'[p]
    OBVIOUS
  <1>7. \A l \in {"update", "updating", "locking", "unlocking", "deleting", "ok", "error"} :
           Busy(l, d) = NoInstance
    BY DEF Busy, Between
  <1>8. ASSUME Goto(p, "error"), UNCHANGED <<nodes, rewritten>> PROVE FollowInv'
    <2>1. FollowingOK("error", r, y, d)'
      BY DEF FollowingOK, AfterChecks, AfterLocking
    <2> QED
      BY <1>2, <1>5, <1>6, <1>7, <1>8, <2>1, FollowsOn
  <1>9. ASSUME Goto(p, "ok"), FollowsBut(NoInstance)' PROVE FollowInv'
    <2>1. FollowingOK("ok", r, y, d)'
      BY DEF FollowingOK, AfterChecks, AfterLocking
    <2> QED
      BY <1>2, <1>6, <1>7, <1>9, <2>1, FollowsAt
  <1>10. CASE EditGet(p)
    <2>1. CASE MayEdit(p)
      <3>1. /\ r.inst \in DOMAIN instances /\ instances[r.inst].running
            /\ CanUserModifyInState(r.user, instances[r.inst].definition,
                  instances[r.inst].current, instances[r.inst].participants)
        BY <1>1, <2>1 DEF MayEdit, Visible, ReadInstance
      <3>2. d = instances[r.inst] /\ Goto(p, "update") /\ UNCHANGED <<nodes, rewritten>>
        BY <1>1, <1>6, <1>10, <2>1 DEF EditGet, ReadInstance, Inv, LocalsOK, stores, faults
      <3>3. Stored(d)'
        BY <1>2, <3>1, <3>2 DEF IdInv, Stored
      <3>4. FollowingOK("update", r, y, d)'
        BY <3>1, <3>2, <3>3 DEF FollowingOK, AfterChecks, AfterLocking
      <3> QED
        BY <1>2, <1>5, <1>6, <1>7, <3>2, <3>4, FollowsOn
    <2>2. CASE ~MayEdit(p)
      BY <1>8, <1>10, <2>2 DEF EditGet, stores, faults
    <2> QED
      BY <2>1, <2>2
  <1>11. CASE Update(p)
    <2> DEFINE n == NodeOf(p)
    <2>1. CASE /\ Goto(p, "updating") /\ n \in DOMAIN nodes /\ MayUpdate(Actor(p), nodes[n])
               /\ nodeCopy' = [nodeCopy EXCEPT
                     ![p] = Updated(nodes[n], Actor(p), req[p].metadata)]
      <3> DEFINE who == IF r.op = "updateNode" THEN WorkflowUser ELSE r.user
      <3>0. who = Actor(p)
        BY <1>1 DEF Actor
      <3>1. /\ y = Updated(nodes[n], who, r.metadata) /\ d = c /\ pc[p] = "update"
            /\ UNCHANGED <<nodes, rewritten>>
        BY <1>1, <1>6, <1>11, <2>1, <3>0 DEF Update, NodeRead, Inv, LocalsOK, stores, faults
      <3>2. r.op \in {"update", "updateNode"}
        BY <1>3, <3>1 DEF OpsAt
      <3>3. r.op = "update" => nodes[n].instance = NoInstance
        BY <1>1, <1>4, <2>1, PrincipalsAssumption DEF Actor, MayUpdate
      <3>4. r.op = "updateNode" =>
              /\ Stored(c)' /\ c.running
              /\ CanUserModifyInState(r.user, c.definition, c.current, c.participants)
        BY <1>1, <1>2, <3>1 DEF FollowingOK, Stored
      <3>5. FollowingOK("updating", r, y, c)'
        <4>1. CASE r.op = "update"
          <5>1. n = r.node
            BY <1>4, <4>1
          <5> QED
            BY <2>1, <3>1, <3>3, <4>1, <5>1 DEF FollowingOK, AfterChecks, AfterLocking
        <4>2. CASE r.op = "updateNode"
          <5>1. n = c.node
            BY <1>4, <4>2
          <5> QED
            BY <2>1, <3>1, <3>4, <4>2, <5>1 DEF FollowingOK, AfterChecks, AfterLocking
        <4> QED
          BY <3>2, <4>1, <4>2
      <3> QED
        BY <1>2, <1>5, <1>6, <1>7, <2>1, <3>1, <3>5, FollowsOn
    <2> QED
      BY <1>8, <1>11, <2>1 DEF Update, NodeRead, stores, faults
  <1>12. CASE Updating(p)
    <2> DEFINE n == NodeOf(p)
    <2>1. pc[p] = "updating" /\ r.op \in {"update", "updateNode"}
      BY <1>3, <1>12 DEF Updating, NodeWrite, OpsAt
    <2> DEFINE who == IF r.op = "updateNode" THEN WorkflowUser ELSE r.user
    <2>2. /\ n \in DOMAIN nodes /\ x = Updated(nodes[n], who, r.metadata)
          /\ r.op = "update" => nodes[n].instance = NoInstance
      BY <1>1, <1>4, <2>1 DEF FollowingOK
    <2>3. nodes' = Put(nodes, n, x) /\ Goto(p, "ok")
      BY <1>1, <1>12, <2>2 DEF Updating, NodeWrite
    <2>4. nodes[n] \in NodeRecord
      BY <2>2 DEF Inv, StoresOK, IsStore
    <2>5. CASE r.op = "update"
      <3>1. x.instance = nodes[n].instance
        BY <1>4, <2>2, <2>5, PrincipalsAssumption DEF Updated
      <3>2. n \in rewritten' \/ FreeFor(n, NoInstance)
        BY <1>2a, <1>5, <2>2, <2>5, Nobody
      <3> QED
        BY <1>2, <1>2a, <1>5, <1>9, <2>2, <2>3, <3>1, <3>2, WriteFree
    <2>6. CASE r.op = "updateNode" /\ OnlyContent(r.metadata)
      <3>1. /\ x.instance = nodes[n].instance /\ x.state = nodes[n].state
            /\ x.locked = nodes[n].locked /\ x.lockedBy = nodes[n].lockedBy
            /\ x.unlockGroups = nodes[n].unlockGroups
        BY <2>2, <2>6 DEF Updated, Given, OnlyContent
      <3> QED
        BY <1>2, <1>2a, <1>5, <1>9, <2>2, <2>3, <3>1, WriteSameMarks
    <2>7. CASE r.op = "updateNode" /\ ~OnlyContent(r.metadata)
      <3>1. n \in rewritten'
        BY <1>1, <1>12, <2>2, <2>7 DEF Updating, NodeWrite, Rewrites
      <3> QED
        BY <1>2, <1>2a, <1>5, <1>9, <2>2, <2>3, <3>1, WriteFree
    <2> QED
      BY <2>1, <2>5, <2>6, <2>7
  <1>13. CASE Lock(p)
    <2> DEFINE n == r.node
    <2>0. pc[p] = "lock" /\ r.op = "lock" /\ NodeOf(p) = n
      BY <1>3, <1>4, <1>13 DEF Lock, NodeRead, OpsAt
    <2>1. CASE /\ Goto(p, "locking") /\ n \in DOMAIN nodes /\ MayLock(req[p].user, nodes[n])
               /\ nodeCopy' = [nodeCopy EXCEPT ![p] = Locked(nodes[n], req[p].user, req[p].groups)]
      <3>1. y = Locked(nodes[n], r.user, r.groups) /\ UNCHANGED <<nodes, rewritten>>
        BY <1>1, <1>6, <1>13, <2>1 DEF Lock, NodeRead, Inv, LocalsOK, stores, faults
      <3>2. FollowingOK("locking", r, y, d)'
        BY <1>1, <2>1, <3>1 DEF FollowingOK, AfterChecks, AfterLocking, MayLock
      <3> QED
        BY <1>2, <1>5, <1>6, <1>7, <2>1, <3>1, <3>2, FollowsOn
    <2> QED
      BY <1>8, <1>13, <2>0, <2>1 DEF Lock, NodeRead, stores, faults
  <1>14. CASE Unlock(p)
    <2> DEFINE n == r.node
    <2>0. pc[p] = "unlock" /\ r.op = "unlock" /\ NodeOf(p) = n
      BY <1>3, <1>4, <1>14 DEF Unlock, NodeRead, OpsAt
    <2>1. CASE /\ Goto(p, "unlocking") /\ n \in DOMAIN nodes /\ MayUnlock(req[p].user, nodes[n])
               /\ nodeCopy' = [nodeCopy EXCEPT ![p] = Unlocked(nodes[n])]
      <3>1. y = Unlocked(nodes[n]) /\ UNCHANGED <<nodes, rewritten>>
        BY <1>1, <1>6, <1>14, <2>1 DEF Unlock, NodeRead, Inv, LocalsOK, stores, faults
      <3>2. FollowingOK("unlocking", r, y, d)'
        BY <1>1, <2>1, <3>1 DEF FollowingOK, AfterChecks, AfterLocking
      <3> QED
        BY <1>2, <1>5, <1>6, <1>7, <2>1, <3>1, <3>2, FollowsOn
    <2> QED
      BY <1>8, <1>14, <2>0, <2>1 DEF Unlock, NodeRead, stores, faults
  <1>15. CASE Locking(p) \/ Unlocking(p)
    <2> DEFINE n == r.node
    <2>1. NodeOf(p) = n /\ n \in DOMAIN nodes /\ nodes[n] \in NodeRecord
      BY <1>1, <1>3, <1>4, <1>15
         DEF Locking, Unlocking, NodeWrite, OpsAt, FollowingOK, Inv, StoresOK, IsStore
    <2>2. nodes' = Put(nodes, n, x) /\ Goto(p, "ok")
      BY <1>1, <1>15, <2>1 DEF Locking, Unlocking, NodeWrite
    <2>3. x.instance = nodes[n].instance
      BY <1>1, <1>15, <2>1, MarkWritten DEF Locking, Unlocking, NodeWrite, FollowingOK
    <2>4. n \in rewritten' \/ FreeFor(n, NoInstance)
      <3>1. CASE Locking(p)
        BY <1>1, <1>2a, <1>5, <3>1, Nobody DEF Locking, NodeWrite, FollowingOK
      <3>2. CASE Unlocking(p)
        <4>1. MayUnlock(r.user, nodes[n]) /\ r.op = "unlock"
          BY <1>1, <1>3, <3>2 DEF Unlocking, NodeWrite, FollowingOK, OpsAt
        <4>2. \A i : ~HeldFor(n, i)
          BY <1>3, <4>1, HeldAllows
        <4> QED
          BY <1>2a, <1>5, <4>2 DEF FreeFor, FollowsBut, Follows
      <3> QED
        BY <1>15, <3>1, <3>2
    <2> QED
      BY <1>2, <1>2a, <1>5, <1>9, <2>1, <2>2, <2>3, <2>4, WriteFree
  <1>16. CASE Delete(p)
    <2> DEFINE n == r.node
    <2>0. pc[p] = "delete" /\ r.op = "delete" /\ NodeOf(p) = n
      BY <1>3, <1>4, <1>16 DEF Delete, NodeRead, OpsAt
    <2>1. CASE /\ Goto(p, "deleting") /\ n \in DOMAIN nodes /\ MayDelete(req[p].user, nodes[n])
      <3>1. UNCHANGED <<nodes, rewritten>>
        BY <1>16 DEF Delete, NodeRead, stores, faults
      <3>2. FollowingOK("deleting", r, y, d)'
        BY <1>1, <2>1, <3>1 DEF FollowingOK, AfterChecks, AfterLocking, MayDelete
      <3> QED
        BY <1>2, <1>5, <1>6, <1>7, <2>1, <3>1, <3>2, FollowsOn
    <2> QED
      BY <1>8, <1>16, <2>0, <2>1 DEF Delete, NodeRead, stores, faults
  <1>17. CASE Deleting(p)
    <2> DEFINE n == r.node
    <2>1. pc[p] = "deleting" /\ NodeOf(p) = n
      BY <1>3, <1>4, <1>17 DEF Deleting, OpsAt
    <2>2. n \in DOMAIN nodes /\ nodes[n].instance = NoInstance
      BY <1>1, <2>1 DEF FollowingOK
    <2>3. nodes' = Remove(nodes, n) /\ Goto(p, "ok")
      BY <1>17, <2>1, <2>2 DEF Deleting
    <2>4. n \in rewritten \/ FreeFor(n, NoInstance)
      BY <1>5, <2>2, Nobody
    <2> QED
      BY <1>2, <1>2a, <1>5, <1>9, <2>1, <2>3, <2>4, RemoveFree
  <1> QED
    BY <1>10, <1>11, <1>12, <1>13, <1>14, <1>15, <1>16, <1>17 DEF NodeRequests

\* No record of an instance is deleted, and the rest touches neither nodes
\* nor instances.
LEMMA FollowsRest ==
  ASSUME Inv, FollowInv, Orderly, NEW p, Procs = {p},
         DeleteInstance(p) \/ DefinitionRequests(p) \/ WriteFails(p) \/ Issue(p) \/ Reply(p)
  PROVE  FollowInv'
  <1> USE DEF At
  <1>1. ~DeleteInstance(p)
    <2>1. OpsAt("deleteInstance") = {"deleteInstance"}
      BY DEF OpsAt
    <2> QED
      BY <2>1 DEF DeleteInstance, Inv, HandlerOK, Orderly
  <1>2. ~WriteFails(p)
    BY DEF WriteFails, Orderly, Inv, StoresOK
  <1>3. UNCHANGED <<nodes, instances, rewritten>>
    BY <1>1, <1>2 DEF DefinitionRequests, PutDefinition, PutDefinitionUpdate, PutDefinitionSave,
       DeleteDefinition, DeleteDefinitionDelete, Decide, Issue, Reply, stores, faults
  <1>4. /\ pc[p] \notin Between
        /\ \E l : /\ Goto(p, l) /\ l \notin Between /\ l \notin AfterChecks
                  /\ l \in {"idle", "ok", "error", "start", "transition", "cancel", "updateNode",
                            "deleteInstance", "update", "lock", "unlock", "delete", "putDefinition",
                            "deleteDefinition", "putDefinition.update", "putDefinition.save",
                            "deleteDefinition.delete"}
                  /\ l = "update" => req'[p].op = "update"
    <2>1. CASE DefinitionRequests(p)
      BY <2>1 DEF DefinitionRequests, PutDefinition, PutDefinitionUpdate, PutDefinitionSave,
                  DeleteDefinition, DeleteDefinitionDelete, Decide, Between, AfterChecks, AfterLocking
    <2>2. CASE Issue(p)
      <3>1. PICK s \in Requests : req' = [req EXCEPT ![p] = s] /\ Goto(p, s.op)
        BY <2>2 DEF Issue
      <3>2. s \in Request
        BY InstancesAssumption
      <3>3. s.op \in {"start", "transition", "cancel", "updateNode", "deleteInstance", "lock",
                      "unlock", "delete", "update", "putDefinition", "deleteDefinition"}
        BY <3>2 DEF Request, StartRequest, TransitionRequest, InstanceRequest, EditRequest,
                LockRequest, NodeRequest, UpdateRequest, PutDefRequest, DeleteDefRequest
      <3>4. req'[p] = s
        BY <3>1 DEF Inv, LocalsOK
      <3> QED
        BY <2>2, <3>1, <3>3, <3>4 DEF Issue, Between, AfterChecks, AfterLocking
    <2>3. CASE Reply(p)
      BY <2>3 DEF Reply, Between, AfterChecks, AfterLocking
    <2> QED
      BY <1>1, <1>2, <2>1, <2>2, <2>3
  <1>5. PICK r, x, c : r = req'[p] /\ x = nodeCopy'[p] /\ c = instCopy'[p]
    OBVIOUS
  <1>6. PICK l : /\ Goto(p, l) /\ l \notin Between /\ l \notin AfterChecks
                 /\ l \in {"idle", "ok", "error", "start", "transition", "cancel", "updateNode",
                           "deleteInstance", "update", "lock", "unlock", "delete", "putDefinition",
                           "deleteDefinition", "putDefinition.update", "putDefinition.save",
                           "deleteDefinition.delete"}
                 /\ l = "update" => r.op = "update"
    BY <1>4, <1>5
  <1>7. FollowingOK(l, r, x, c)'
    BY <1>6 DEF FollowingOK
  <1>8. Busy(l, c) = Busy(pc[p], instCopy[p])
    BY <1>4, <1>6 DEF Busy
  <1> QED
    BY <1>3, <1>5, <1>6, <1>7, <1>8, FollowsOn

LEMMA InitFollow == Init => FollowInv
  <1> SUFFICES ASSUME Init PROVE FollowInv
    OBVIOUS
  <1>1. StoppedAreFinal
    BY DEF Init, StoppedAreFinal
  <1>2. FollowsBut(NoInstance)
    BY DEF Init, FollowsBut, FreshNode
  <1>3. \A p \in Procs : /\ Busy(pc[p], instCopy[p]) = NoInstance
                         /\ FollowingOK(pc[p], req[p], nodeCopy[p], instCopy[p])
    BY DEF Init, Busy, Between, FollowingOK, AfterChecks, AfterLocking
  <1> QED
    BY <1>1, <1>2, <1>3 DEF FollowInv

LEMMA NextFollow ==
  ASSUME NEW p, Procs = {p}, Orderly
  PROVE  Inv /\ IdInv /\ AloneInv /\ StartsInv /\ FollowInv /\ [Next]_vars => FollowInv'
  <1> SUFFICES ASSUME Inv, IdInv, AloneInv, StartsInv, FollowInv, [Next]_vars PROVE FollowInv'
    OBVIOUS
  <1>1. CASE UNCHANGED vars
    BY <1>1 DEF vars, FollowInv, StoppedAreFinal, FollowsBut, Follows, HeldFor, LockedFor, Running,
                Busy, FollowingOK, Stored, OnlyMark
  <1>2. ~Crash
    BY DEF Crash, Orderly, Inv, StoresOK
  <1>3. CASE Issue(p) \/ Handle(p)
    BY <1>3, FollowsStart1, FollowsStart2, FollowsTransition, FollowsRelease, FollowsNode,
       FollowsRest DEF Handle, Start
  <1> QED
    BY <1>1, <1>2, <1>3 DEF Next

----------------------------------------------------------------------------
(* What follows for nodes and for edits                                    *)

EditStep ==
    \A n \in (DOMAIN nodes \cap DOMAIN nodes') \ rewritten : \A i \in DOMAIN instances :
       (Running(i) /\ nodes[n].instance = i /\ nodes'[n].data # nodes[n].data) =>
          \E p \in Procs :
             /\ pc[p] = "updating" /\ req[p].op = "updateNode"
             /\ CanUserModifyInState(req[p].user, instances[i].definition,
                                     instances[i].current, instances[i].participants)

\* A write of the data that was there edits nothing.
LEMMA SameData ==
  ASSUME NEW n, NEW x, nodes' = Put(nodes, n, x),
         n \in DOMAIN nodes \ rewritten => x.data = nodes[n].data
  PROVE  EditStep
  BY DEF EditStep, Put

\* Only updating writes other data, and it does so with the rights of the
\* state when a workflow is on the node.
LEMMA EditsFollow ==
  ASSUME Inv, IdInv, AloneInv, StartsInv, FollowInv, NEW p, Procs = {p}, [Next]_vars
  PROVE  EditStep
  <1> USE DEF At
  <1>1. PICK r, x, c : /\ r = req[p] /\ x = nodeCopy[p] /\ c = instCopy[p]
                       /\ StartedOK(pc[p], r, x, c) /\ HandlerOK(pc[p], r, x, c)
                       /\ HandOK(pc[p], r.user, c) /\ FollowingOK(pc[p], r, x, c)
                       /\ FollowsBut(Busy(pc[p], c)) /\ StoppedAreFinal
    BY InHand
  <1>2. \A n \in DOMAIN nodes :
           /\ nodes[n] \in NodeRecord
           /\ Unlocked(nodes[n]).data = nodes[n].data
           /\ \A who, groups : Locked(nodes[n], who, groups).data = nodes[n].data
           /\ \A i, s : Marked(nodes[n], i, s).data = nodes[n].data
    BY DEF Inv, StoresOK, IsStore, NodeRecord, Unlocked, Locked, Marked
  <1>3. CASE UNCHANGED nodes \/ Deleting(p)
    BY <1>3 DEF EditStep, Deleting, Remove
  <1>4. CASE StartLocking(p) \/ StartMarking(p) \/ StartUnlocking(p)
    <2>1. r.op = "start" /\ NodeOf(p) = r.node
      <3>1. OpsAt(pc[p]) = {"start"} /\ pc[p] # "idle"
        BY <1>4 DEF StartLocking, StartMarking, StartUnlocking, NodeWrite, OpsAt
      <3> QED
        BY <1>1, <3>1 DEF HandlerOK, NodeOf
    <2>2. r.node \in DOMAIN nodes /\ x.data = nodes[r.node].data
      BY <1>1, <1>2, <1>4 DEF StartLocking, StartMarking, StartUnlocking, NodeWrite, StartedOK,
                              AfterChecks, AfterLocking
    <2>3. nodes' = Put(nodes, r.node, x)
      BY <1>1, <1>4, <2>1, <2>2 DEF StartLocking, StartMarking, StartUnlocking, NodeWrite
    <2> QED
      BY <2>2, <2>3, SameData
  <1>5. CASE TransitionMarking(p) \/ Releasing(p) \/ Clearing(p)
    <2>1. NodeOf(p) = c.node
      <3>1. OpsAt(pc[p]) \subseteq {"transition", "cancel"} /\ pc[p] # "idle"
        BY <1>5 DEF TransitionMarking, Releasing, Clearing, NodeWrite, OpsAt
      <3> QED
        BY <1>1, <3>1 DEF HandlerOK, NodeOf
    <2>2. c.node \notin rewritten => c.node \in DOMAIN nodes /\ x.data = nodes[c.node].data
      BY <1>1, <1>2, <1>5 DEF TransitionMarking, Releasing, Clearing, NodeWrite, FollowingOK, HeldFor
    <2>3. nodes' = Put(nodes, c.node, x) \/ UNCHANGED nodes
      BY <1>1, <1>5, <2>1, <2>2 DEF TransitionMarking, Releasing, Clearing, NodeWrite
    <2> QED
      BY <1>3, <2>2, <2>3, SameData
  <1>6. CASE Locking(p) \/ Unlocking(p)
    <2>1. NodeOf(p) = r.node
      <3>1. OpsAt(pc[p]) \subseteq {"lock", "unlock"} /\ pc[p] # "idle"
        BY <1>6 DEF Locking, Unlocking, NodeWrite, OpsAt
      <3> QED
        BY <1>1, <3>1 DEF HandlerOK, NodeOf
    <2>2. r.node \in DOMAIN nodes /\ x.data = nodes[r.node].data
      BY <1>1, <1>2, <1>6 DEF Locking, Unlocking, NodeWrite, FollowingOK
    <2>3. nodes' = Put(nodes, r.node, x)
      BY <1>1, <1>6, <2>1, <2>2 DEF Locking, Unlocking, NodeWrite
    <2> QED
      BY <2>2, <2>3, SameData
  <1>7. CASE Updating(p)
    <2>1. pc[p] = "updating" /\ r.op \in {"update", "updateNode"}
      BY <1>1, <1>7 DEF Updating, NodeWrite, OpsAt, HandlerOK
    <2>2. NodeOf(p) = IF r.op = "updateNode" THEN c.node ELSE r.node
      BY <1>1, <2>1 DEF NodeOf
    <2>3. FollowsBut(NoInstance)
      BY <1>1, <2>1 DEF Busy, Between
    <2>4. ASSUME NEW n \in DOMAIN nodes \ rewritten, n \in DOMAIN nodes', NEW i \in DOMAIN instances,
                 Running(i), nodes[n].instance = i, nodes'[n].data # nodes[n].data
          PROVE  /\ r.op = "updateNode"
                 /\ CanUserModifyInState(r.user, instances[i].definition,
                                         instances[i].current, instances[i].participants)
      <3>1. n = NodeOf(p)
        BY <1>7, <2>4 DEF Updating, NodeWrite, Put
      <3>2. r.op # "update"
        BY <1>1, <2>1, <2>2, <2>4, <3>1, IdsAreNotNone DEF FollowingOK
      <3>3. /\ Stored(c) /\ c.running /\ n = c.node
            /\ CanUserModifyInState(r.user, c.definition, c.current, c.participants)
        BY <1>1, <2>1, <2>2, <3>1, <3>2 DEF FollowingOK
      <3>4. nodes[n].instance = c.uuid
        BY <2>3, <3>3, IdsAreNotNone DEF FollowsBut, Follows, HeldFor, Stored, Running
      <3> QED
        BY <2>1, <2>4, <3>2, <3>3, <3>4 DEF Stored
    <2> QED
      BY <1>1, <2>1, <2>4 DEF EditStep
  <1>8. UNCHANGED nodes \/ Deleting(p) \/ StartLocking(p) \/ StartMarking(p) \/ StartUnlocking(p)
        \/ TransitionMarking(p) \/ Releasing(p) \/ Clearing(p) \/ Locking(p) \/ Unlocking(p)
        \/ Updating(p)
    <2>1. CASE UNCHANGED vars \/ Crash
      BY <2>1 DEF vars, Crash, stores
    <2>2. CASE Start(p) \/ TransitionRequests(p) \/ CancelAndRelease(p) \/ NodeRequests(p)
      BY <2>2 DEF Start, StartCheck, StartGetNode, StartGetDefinition, StartLock, StartSave,
         StartMark, StartUnsave, StartUnlock, TransitionRequests, TransitionGet, TransitionGetNode,
         TransitionActions, TransitionSave, TransitionMark, CancelAndRelease, CancelGet, CancelSave,
         Release, Clear, NodeRequests, EditGet, Update, Lock, Unlock, Delete, NodeRead,
         SaveInstance, Decide, stores
    <2>3. CASE DeleteInstance(p) \/ DefinitionRequests(p) \/ WriteFails(p) \/ Reply(p) \/ Issue(p)
      BY <2>3 DEF DeleteInstance, DefinitionRequests, PutDefinition, PutDefinitionUpdate,
         PutDefinitionSave, DeleteDefinition, DeleteDefinitionDelete, Decide, WriteFails, Reply,
         Issue, stores
    <2> QED
      BY <2>1, <2>2, <2>3 DEF Next, Handle
  <1> QED
    BY <1>3, <1>4, <1>5, <1>6, <1>7, <1>8

\* Between orderly requests a node and its workflow agree: the node of a
\* running instance is stored, locked and marked with it and its state, and a
\* marked node has a running instance (startWorkflow, transition and
\* cancelWorkflow with the release of the node).
THEOREM NodesFollow ==
  ASSUME NEW p, Procs = {p}, Orderly
  PROVE  Spec => []NodeFollowsInstance
  <1>1. Inv /\ FollowInv => NodeFollowsInstance
    <2> SUFFICES ASSUME Inv, FollowInv, pc[p] = "idle" PROVE NodeFollowsInstance
      BY DEF NodeFollowsInstance, Quiet
    <2>1. FollowsBut(NoInstance)
      BY DEF FollowInv, Busy, Between
    <2> QED
      BY <2>1, IdsAreNotNone DEF NodeFollowsInstance, FollowsBut, Follows, HeldFor, LockedFor
  <1>2. FewFailures
    BY DEF FewFailures, Orderly
  <1> QED
    BY <1>1, <1>2, InitInv, NextInv, InitIdentity, NextIdentity, InitAlone, NextAlone, InitStarts,
       NextStarts, InitFollow, NextFollow, InitNames, NextNames, PTL DEF Spec

\* Among orderly requests the content of a node in a workflow changes only at
\* the hand of an updateNode request, by a user whom the current state lets
\* modify it (updateNode, NodeService.update).
THEOREM EditsFollowStates ==
  ASSUME NEW one, Procs = {one}, Orderly
  PROVE  Spec => EditsFollowState
  <1>1. Inv /\ IdInv /\ AloneInv /\ StartsInv /\ FollowInv /\ [Next]_vars
          => [\A n \in (DOMAIN nodes \cap DOMAIN nodes') \ rewritten : \A i \in DOMAIN instances :
                (Running(i) /\ nodes[n].instance = i /\ nodes'[n].data # nodes[n].data) =>
                   \E p \in Procs :
                      /\ pc[p] = "updating" /\ req[p].op = "updateNode"
                      /\ CanUserModifyInState(req[p].user, instances[i].definition,
                                 instances[i].current, instances[i].participants)]_vars
    BY EditsFollow DEF EditStep
  <1>2. FewFailures
    BY DEF FewFailures, Orderly
  <1>3. Init => Inv /\ IdInv /\ AloneInv /\ NamesIssued /\ StartsInv /\ FollowInv
    BY <1>2, InitInv, InitIdentity, InitAlone, InitNames, InitStarts, InitFollow
  <1>4. Inv /\ IdInv /\ AloneInv /\ NamesIssued /\ StartsInv /\ FollowInv /\ [Next]_vars
          => Inv' /\ IdInv' /\ AloneInv' /\ NamesIssued' /\ StartsInv' /\ FollowInv'
    BY <1>2, NextInv, NextIdentity, NextAlone, NextNames, NextStarts, NextFollow
  <1> QED
    BY <1>1, <1>3, <1>4, PTL DEF Spec, EditsFollowState
=============================================================================

---------------------- MODULE WorkflowInstancesProofs ----------------------
(***************************************************************************)
(* Type correctness and the safety of instance records, for any number of  *)
(* users, nodes, definitions and requests in flight, any interleaving of   *)
(* the repository accesses, failed writes and restarts.                    *)
(*                                                                         *)
(* The invariants of the stored records are not inductive by themselves: a *)
(* handler saves the record it copied several steps earlier.  Inv adds     *)
(* that every copy still to be saved is itself well formed, which no other *)
(* request can disturb, and what the checks made on a copy have shown.     *)
(***************************************************************************)
EXTENDS WorkflowInstances, SequenceTheorems, TLAPS

\* The requests that may stand at a label.
OpsAt(l) ==
    CASE l \in {"start", "start.node", "start.definition", "start.lock",
                "start.locking", "start.save", "start.mark", "start.marking",
                "start.unsave", "start.unlock", "start.unlocking"} -> {"start"}
      [] l \in {"transition", "transition.node", "transition.actions",
                "transition.save", "transition.mark",
                "transition.marking"} -> {"transition"}
      [] l \in {"cancel", "cancel.save"} -> {"cancel"}
      [] l \in {"release", "releasing", "clear", "clearing"} -> {"transition", "cancel"}
      [] l = "updateNode" -> {"updateNode"}
      [] l \in {"update", "updating"} -> {"update", "updateNode"}
      [] l = "deleteInstance" -> {"deleteInstance"}
      [] l \in {"lock", "locking"} -> {"lock"}
      [] l \in {"unlock", "unlocking"} -> {"unlock"}
      [] l \in {"delete", "deleting"} -> {"delete"}
      [] l \in {"putDefinition", "putDefinition.update",
                "putDefinition.save"} -> {"putDefinition"}
      [] l \in {"deleteDefinition", "deleteDefinition.delete"} -> {"deleteDefinition"}
      [] OTHER -> {"start", "transition", "cancel", "updateNode", "deleteInstance",
                   "update", "lock", "unlock", "delete", "putDefinition",
                   "deleteDefinition"}

Sound(inst) == inst \in Instance /\ IsPath(inst) /\ IsAuthorised(inst) /\ IsConsistent(inst)

\* One handler: its label, its request and its two local records.
HandlerOK(l, r, nc, ic) ==
    /\ l \in Labels
    /\ l # "idle" => r \in Requests /\ r.op \in OpsAt(l)
    /\ l \in WritesNode \cup {"start.definition"} => nc \in NodeRecord
    /\ l \in NeedsInstance => Sound(ic)
    /\ l \in {"update", "updating"} /\ r.op = "updateNode" => Sound(ic)
    /\ l = "transition.node" => ~ic.cancelled /\ HasPermission(r.user, ic.participants)

StoresOK ==
    /\ IsStore(nodes, Nodes, NodeRecord)
    /\ IsStore(definitions, DefIds, Definition)
    /\ IsStore(instances, InstanceIds, Instance)
    /\ \A i \in DOMAIN instances : Sound(instances[i])
    /\ issued \subseteq InstanceIds
    /\ failures \in 0..MaxFailures /\ crashes \in 0..MaxCrashes
    /\ rewritten \subseteq Nodes

LocalsOK ==
    /\ pc \in [Procs -> Labels]
    /\ DOMAIN req = Procs /\ DOMAIN nodeCopy = Procs /\ DOMAIN instCopy = Procs

Inv ==
    /\ StoresOK
    /\ LocalsOK
    /\ \A p \in Procs : HandlerOK(pc[p], req[p], nodeCopy[p], instCopy[p])

----------------------------------------------------------------------------
(* Records                                                                 *)

\* A request has the fields of its operation.
LEMMA RequestFields ==
  ASSUME NEW r \in Requests
  PROVE  /\ r.user \in Users
         /\ r.op \in Labels /\ r.op \in OpsAt(r.op)
         /\ r.op \notin WritesNode \cup NeedsInstance \cup {"start.definition", "idle"}
         /\ r.op = "start" => /\ r.node \in Nodes /\ r.def \in DefIds
                              /\ r.override \in {NoOverride} \cup SUBSET Groups
         /\ r.op = "lock" => r.groups \in SUBSET Groups
         /\ r.op \in {"update", "updateNode"} => r.metadata \in Metadata
         /\ r.op = "putDefinition" => r.def \in DefIds /\ r.body \in Definition
  <1>1. r \in Request
    BY InstancesAssumption
  <1> QED
    BY <1>1 DEF Request, StartRequest, TransitionRequest, InstanceRequest, EditRequest,
                LockRequest, NodeRequest, UpdateRequest, PutDefRequest, DeleteDefRequest,
                Labels, WritesNode, NeedsInstance, OpsAt

\* Putting a value in a collection and removing a key keep its type.
LEMMA StorePut ==
  ASSUME NEW s, NEW K, NEW V, IsStore(s, K, V), NEW k \in K, NEW v \in V
  PROVE  IsStore(Put(s, k, v), K, V)
  BY DEF IsStore, Put

LEMMA StoreRemove ==
  ASSUME NEW s, NEW K, NEW V, IsStore(s, K, V), NEW k
  PROVE  IsStore(Remove(s, k), K, V)
  BY DEF IsStore, Remove

\* Every principal has a set of groups.
LEMMA PrincipalGroupsType ==
  ASSUME NEW who \in Principals
  PROVE  PrincipalGroups(who) \subseteq Groups
  BY PrincipalsAssumption DEF Principals, PrincipalGroups

\* The records NodeService writes are node records.
LEMMA NodeRecordOps ==
  ASSUME NEW n \in NodeRecord
  PROVE  /\ Unlocked(n) \in NodeRecord
         /\ \A who \in Principals, groups \in SUBSET Groups : Locked(n, who, groups) \in NodeRecord
         /\ \A i \in InstanceIds \cup {NoInstance}, s \in StateNames \cup {NoState} :
               Marked(n, i, s) \in NodeRecord
         /\ \A who : \A m \in Metadata : Updated(n, who, m) \in NodeRecord
  <1>1. Unlocked(n) \in NodeRecord
    BY DEF NodeRecord, Unlocked
  <1>2. ASSUME NEW who \in Principals, NEW groups \in SUBSET Groups
        PROVE  Locked(n, who, groups) \in NodeRecord
    BY PrincipalGroupsType DEF NodeRecord, Locked
  <1>3. ASSUME NEW i \in InstanceIds \cup {NoInstance}, NEW s \in StateNames \cup {NoState}
        PROVE  Marked(n, i, s) \in NodeRecord
    BY DEF NodeRecord, Marked
  <1>4. ASSUME NEW who, NEW m \in Metadata PROVE Updated(n, who, m) \in NodeRecord
    BY DEF NodeRecord, Metadata, Updated, Given
  <1> QED
    BY <1>1, <1>2, <1>3, <1>4

----------------------------------------------------------------------------
(* The three ways an instance record comes about                           *)

\* A new instance is sound: its history is empty and it runs.
LEMMA NewInstanceSound ==
  ASSUME NEW i \in InstanceIds, NEW r \in Requests, r.op = "start", NEW d \in Definition
  PROVE  Sound(NewInstance(i, r, d))
  <1> DEFINE inst == NewInstance(i, r, d)
  <1>1. /\ r.user \in Users /\ r.node \in Nodes /\ r.def \in DefIds
        /\ r.override \in {NoOverride} \cup SUBSET Groups
    BY RequestFields
  <1>2. ResolveParticipants(d.participants, r.override) \in SUBSET Groups
    BY <1>1 DEF ResolveParticipants, Definition
  <1>3. inst.history = <<>> /\ inst.history \in Seq(HistoryEntry)
    BY DEF NewInstance
  <1>4. inst \in Instance
    BY <1>1, <1>2, <1>3 DEF NewInstance, Instance, Definition
  <1>5. IsPath(inst)
    BY <1>3 DEF IsPath, NewInstance
  <1>6. IsAuthorised(inst)
    BY <1>3 DEF IsAuthorised
  <1>7. IsConsistent(inst)
    BY <1>3 DEF IsConsistent, NewInstance
  <1> QED
    BY <1>4, <1>5, <1>6, <1>7 DEF Sound

\* Cancelling touches neither the walk nor its length.
LEMMA CancelledSound ==
  ASSUME NEW inst, Sound(inst)
  PROVE  Sound(Cancelled(inst))
  <1>1. Cancelled(inst) \in Instance
    BY DEF Sound, Cancelled, Instance
  <1>2. /\ Cancelled(inst).history = inst.history
        /\ Cancelled(inst).definition = inst.definition
        /\ Cancelled(inst).current = inst.current
        /\ Cancelled(inst).participants = inst.participants
        /\ Cancelled(inst).cancelled = TRUE /\ Cancelled(inst).running = FALSE
    BY DEF Sound, Cancelled, Instance
  <1>3. IsPath(Cancelled(inst))
    BY <1>2 DEF Sound, IsPath
  <1>4. IsAuthorised(Cancelled(inst))
    BY <1>2 DEF Sound, IsAuthorised
  <1>5. IsConsistent(Cancelled(inst))
    BY <1>2 DEF IsConsistent
  <1> QED
    BY <1>1, <1>3, <1>4, <1>5 DEF Sound

\* A transition of the snapshot, taken by a user it admits, keeps the record
\* sound: the walk grows by one step and `running` follows the new state.
LEMMA AdvancedSound ==
  ASSUME NEW inst, Sound(inst), ~inst.cancelled,
         NEW t \in inst.definition.transitions, t.from = inst.current,
         NEW who \in Users, HasPermission(who, inst.participants), InAllowedGroup(who, t)
  PROVE  Sound(Advanced(inst, t, who))
  <1> DEFINE e   == [from |-> inst.current, to |-> t.to, signal |-> t.signal, user |-> who]
             h   == inst.history
             new == Advanced(inst, t, who)
  <1>1. inst \in Instance /\ t \in Transition
    BY DEF Sound, Instance, Definition
  <1>2. e \in HistoryEntry /\ h \in Seq(HistoryEntry)
    BY <1>1 DEF HistoryEntry, Transition, Instance
  <1>3. /\ Append(h, e) \in Seq(HistoryEntry)
        /\ Append(h, e) # <<>>
        /\ Len(Append(h, e)) = Len(h) + 1 /\ Len(h) \in Nat
        /\ DOMAIN Append(h, e) = 1 .. Len(h) + 1 /\ DOMAIN h = 1 .. Len(h)
        /\ \A k \in 1 .. Len(h) : Append(h, e)[k] = h[k]
        /\ Append(h, e)[Len(h) + 1] = e
    <2> HIDE DEF e, h
    <2> QED
      BY <1>2, AppendProperties
  <1>4. /\ new.history = Append(h, e)
        /\ new.definition = inst.definition
        /\ new.current = t.to
        /\ new.participants = inst.participants
        /\ new.cancelled = inst.cancelled
        /\ new.running = (t.to \notin inst.definition.final)
    BY <1>1 DEF Advanced, Instance
  <1>5. new \in Instance
    <2>1. t.to \in StateNames /\ Append(h, e) \in Seq(HistoryEntry)
      BY <1>1, <1>3 DEF Transition
    <2>2. (t.to \notin inst.definition.final) \in BOOLEAN
      OBVIOUS
    <2> QED
      BY <1>1, <2>1, <2>2 DEF Instance, Advanced
  <1>6. IsPath(new)
    <2>1. ASSUME NEW k \in DOMAIN Append(h, e)
          PROVE  /\ \E u \in inst.definition.transitions :
                       /\ u.from = Append(h, e)[k].from
                       /\ u.signal = Append(h, e)[k].signal
                       /\ u.to = Append(h, e)[k].to
                 /\ Append(h, e)[k].from =
                       IF k = 1 THEN inst.definition.initial ELSE Append(h, e)[k-1].to
      <3>1. CASE k \in 1 .. Len(h)
        <4>1. Append(h, e)[k] = h[k] /\ (k # 1 => Append(h, e)[k-1] = h[k-1])
          <5> HIDE DEF e, h
          <5> QED
            BY <1>3, <3>1
        <4> HIDE DEF e
        <4> QED
          BY <1>3, <3>1, <4>1 DEF Sound, IsPath
      <3>2. CASE k = Len(h) + 1
        <4>1. Append(h, e)[k] = e
          BY <1>3, <3>2
        <4>2. e.from = t.from /\ e.signal = t.signal /\ e.to = t.to
          OBVIOUS
        <4>3. e.from = IF h = <<>> THEN inst.definition.initial ELSE h[Len(h)].to
          BY DEF Sound, IsPath
        <4>4. h = <<>> <=> k = 1
          BY <1>2, <1>3, <3>2, EmptySeq
        <4>5. k # 1 => Append(h, e)[k-1] = h[Len(h)]
          <5> HIDE DEF e, h
          <5>1. k - 1 = Len(h)
            BY <1>3, <3>2
          <5>2. k # 1 => Len(h) \in 1 .. Len(h)
            BY <1>3, <3>2
          <5> QED
            BY <1>3, <5>1, <5>2
        <4> HIDE DEF e, h
        <4> QED
          BY <4>1, <4>2, <4>3, <4>4, <4>5
      <3> HIDE DEF e, h
      <3> QED
        BY <1>3, <3>1, <3>2
    <2>2. t.to = Append(h, e)[Len(Append(h, e))].to
      BY <1>3
    <2> HIDE DEF e, h, new
    <2> QED
      BY <1>3, <1>4, <2>1, <2>2 DEF IsPath
  <1>7. IsAuthorised(new)
    <2>1. ASSUME NEW k \in DOMAIN Append(h, e)
          PROVE  /\ HasPermission(Append(h, e)[k].user, inst.participants)
                 /\ \E u \in inst.definition.transitions :
                       /\ u.from = Append(h, e)[k].from
                       /\ u.signal = Append(h, e)[k].signal
                       /\ InAllowedGroup(Append(h, e)[k].user, u)
      <3>1. CASE k \in 1 .. Len(h)
        <4>1. Append(h, e)[k] = h[k]
          <5> HIDE DEF e, h
          <5> QED
            BY <1>3, <3>1
        <4> QED
          BY <1>3, <3>1, <4>1 DEF Sound, IsAuthorised
      <3>2. CASE k = Len(h) + 1
        <4>1. Append(h, e)[k] = e
          BY <1>3, <3>2
        <4> QED
          BY <4>1
      <3> HIDE DEF e, h
      <3> QED
        BY <1>3, <3>1, <3>2
    <2> HIDE DEF e, h, new
    <2> QED
      BY <1>4, <2>1 DEF IsAuthorised
  <1>8. IsConsistent(new)
    <2> HIDE DEF new
    <2> QED
      BY <1>4 DEF IsConsistent
  <1> HIDE DEF new
  <1>9. Sound(new)
    BY <1>5, <1>6, <1>7, <1>8 DEF Sound
  <1> QED
    BY <1>9 DEF new

----------------------------------------------------------------------------
(* One handler moves                                                       *)

\* What a handler needs to stand at its next label, given where it stands.
LEMMA GoesOn ==
  ASSUME NEW l, NEW r, NEW nc, NEW ic, HandlerOK(l, r, nc, ic), l # "idle",
         NEW m \in Labels \ {"idle", "transition.node"}, OpsAt(l) \subseteq OpsAt(m),
         NEW nd, m \in WritesNode \cup {"start.definition"} => nd \in NodeRecord,
         NEW id, m \in NeedsInstance => Sound(id),
         m \in {"update", "updating"} /\ r.op = "updateNode" => Sound(id)
  PROVE  HandlerOK(m, r, nd, id)
  BY DEF HandlerOK

\* Steps of p leave the other handlers as they are.
LEMMA OneProc ==
  ASSUME Inv, NEW p \in Procs, StoresOK', NEW l, Goto(p, l),
         req' = req \/ (\E r : req' = [req EXCEPT ![p] = r]),
         nodeCopy' = nodeCopy \/ (\E n : nodeCopy' = [nodeCopy EXCEPT ![p] = n]),
         instCopy' = instCopy \/ (\E i : instCopy' = [instCopy EXCEPT ![p] = i]),
         HandlerOK(l, req'[p], nodeCopy'[p], instCopy'[p])
  PROVE  Inv'
  <1>1. pc' \in [Procs -> Labels] /\ pc'[p] = l
    BY DEF Inv, LocalsOK, Goto, HandlerOK
  <1>2. DOMAIN req' = Procs /\ DOMAIN nodeCopy' = Procs /\ DOMAIN instCopy' = Procs
    BY DEF Inv, LocalsOK
  <1>3. \A q \in Procs \ {p} :
           pc'[q] = pc[q] /\ req'[q] = req[q] /\ nodeCopy'[q] = nodeCopy[q]
             /\ instCopy'[q] = instCopy[q]
    BY DEF Inv, LocalsOK, Goto
  <1>4. \A q \in Procs : HandlerOK(pc'[q], req'[q], nodeCopy'[q], instCopy'[q])
    BY <1>1, <1>3 DEF Inv
  <1> QED
    BY <1>1, <1>2, <1>4 DEF Inv, LocalsOK

\* The collections and the counters unchanged are still well formed.
LEMMA StoresKept ==
  ASSUME Inv, UNCHANGED <<stores, issued, faults>>
  PROVE  StoresOK'
  BY DEF Inv, StoresOK, stores, faults, IsStore

\* A node operation that reads leaves the handler with a record to write, or
\* refuses.
LEMMA ReadsNode ==
  ASSUME Inv, NEW p \in Procs, NEW then, NEW refused,
         UNCHANGED <<stores, issued, req, instCopy, faults>>,
         \/ \E n \in NodeRecord :
               nodeCopy' = [nodeCopy EXCEPT ![p] = n] /\ Goto(p, then)
         \/ UNCHANGED nodeCopy /\ Goto(p, refused),
         \A n \in NodeRecord : HandlerOK(then, req[p], n, instCopy[p]),
         HandlerOK(refused, req[p], nodeCopy[p], instCopy[p])
  PROVE  Inv'
  <1>1. StoresOK'
    BY StoresKept
  <1>2. CASE UNCHANGED nodeCopy /\ Goto(p, refused)
    BY <1>1, <1>2, OneProc
  <1>3. CASE \E n \in NodeRecord :
               nodeCopy' = [nodeCopy EXCEPT ![p] = n] /\ Goto(p, then)
    <2>1. PICK n \in NodeRecord :
               nodeCopy' = [nodeCopy EXCEPT ![p] = n] /\ Goto(p, then)
      BY <1>3
    <2>2. nodeCopy'[p] = n
      BY <2>1 DEF Inv, LocalsOK
    <2> QED
      BY <1>1, <2>1, <2>2, OneProc
  <1> QED
    BY <1>2, <1>3

\* A node operation that writes stores a node record, or fails.
LEMMA WritesNodeBack ==
  ASSUME Inv, NEW p \in Procs, NEW at \in WritesNode, NEW then, NodeWrite(p, at, then),
         HandlerOK(then, req[p], nodeCopy[p], instCopy[p]),
         HandlerOK(OnFailure(at), req[p], nodeCopy[p], instCopy[p])
  PROVE  Inv'
  <1>1. nodeCopy[p] \in NodeRecord
    BY DEF Inv, HandlerOK, NodeWrite, At
  <1>2. CASE NodeOf(p) \in DOMAIN nodes
    <2>1. nodes' = Put(nodes, NodeOf(p), nodeCopy[p]) /\ Goto(p, then)
      BY <1>2 DEF NodeWrite
    <2>2. NodeOf(p) \in Nodes
      BY <1>2 DEF Inv, StoresOK, IsStore
    <2>3. IsStore(nodes, Nodes, NodeRecord)'
      BY <1>1, <2>1, <2>2, StorePut DEF Inv, StoresOK
    <2>4. rewritten' \subseteq Nodes
      BY <1>2, <2>2 DEF Inv, StoresOK, NodeWrite
    <2>5. StoresOK'
      BY <2>3, <2>4 DEF Inv, StoresOK, NodeWrite
    <2> QED
      BY <2>1, <2>5, OneProc DEF NodeWrite, locals
  <1>3. CASE NodeOf(p) \notin DOMAIN nodes
    <2>1. UNCHANGED <<stores, issued, faults>> /\ Goto(p, OnFailure(at))
      BY <1>3 DEF NodeWrite, stores, faults
    <2> QED
      BY <2>1, StoresKept, OneProc DEF NodeWrite, locals
  <1> QED
    BY <1>2, <1>3

\* Saving a sound instance keeps the collection sound.
LEMMA Saves ==
  ASSUME Inv, NEW p \in Procs, NEW at \in NeedsInstance, NEW then,
         SaveInstance(p, at, then), HandlerOK(then, req[p], nodeCopy[p], instCopy[p])
  PROVE  Inv'
  <1>1. Sound(instCopy[p]) /\ instCopy[p] \in Instance /\ instCopy[p].uuid \in InstanceIds
    BY DEF Inv, HandlerOK, SaveInstance, At, Sound, Instance
  <1>2. instances' = Put(instances, instCopy[p].uuid, instCopy[p])
    BY DEF SaveInstance
  <1>3. IsStore(instances, InstanceIds, Instance)'
    BY <1>1, <1>2, StorePut DEF Inv, StoresOK
  <1>4. \A i \in DOMAIN instances' : Sound(instances'[i])
    BY <1>1, <1>2 DEF Inv, StoresOK, Put
  <1>5. StoresOK'
    BY <1>3, <1>4 DEF Inv, StoresOK, SaveInstance, faults
  <1> QED
    BY <1>5, OneProc DEF SaveInstance, locals

\* So does removing one.
LEMMA RemovesInstance ==
  ASSUME Inv, NEW k, instances' = Remove(instances, k),
         UNCHANGED <<nodes, definitions, issued, faults>>
  PROVE  StoresOK'
  <1>1. IsStore(instances, InstanceIds, Instance)'
    BY StoreRemove DEF Inv, StoresOK
  <1>2. \A i \in DOMAIN instances' : Sound(instances'[i])
    BY DEF Inv, StoresOK, Remove
  <1> QED
    BY <1>1, <1>2 DEF Inv, StoresOK, faults

\* A step that only decides.
LEMMA Decides ==
  ASSUME Inv, NEW p \in Procs, NEW l, Goto(p, l), UNCHANGED <<stores, issued, locals, faults>>,
         HandlerOK(l, req[p], nodeCopy[p], instCopy[p])
  PROVE  Inv'
  BY StoresKept, OneProc DEF locals

\* A handler that has refused or finished holds nothing that matters.
LEMMA Ends ==
  ASSUME NEW l, NEW r, NEW nc, NEW ic, HandlerOK(l, r, nc, ic), l # "idle",
         NEW m \in {"ok", "error"}, NEW nd, NEW id
  PROVE  HandlerOK(m, r, nd, id)
  BY DEF HandlerOK, Labels, WritesNode, NeedsInstance, OpsAt

----------------------------------------------------------------------------
(* The handlers                                                            *)

\* startWorkflow.
LEMMA StartInv ==
  ASSUME Inv, NEW p \in Procs, Start(p)
  PROVE  Inv'
  <1> DEFINE OK == HandlerOK(pc[p], req[p], nodeCopy[p], instCopy[p])
  <1> USE DEF At
  <1>1. OK
    BY DEF Inv
  <1>2. CASE StartCheck(p)
    <2>1. HandlerOK("start.node", req[p], nodeCopy[p], instCopy[p])
      BY <1>1, <1>2 DEF StartCheck, HandlerOK, Labels, WritesNode, NeedsInstance, OpsAt
    <2>2. HandlerOK("error", req[p], nodeCopy[p], instCopy[p])
      BY <1>1, <1>2, Ends DEF StartCheck
    <2>3. /\ Goto(p, "error") \/ Goto(p, "start.node")
          /\ UNCHANGED <<stores, issued, locals, faults>>
      BY <1>2 DEF StartCheck
    <2> QED
      BY <2>1, <2>2, <2>3, Decides
  <1>3. CASE StartGetNode(p)
    <2>1. \A n \in NodeRecord : HandlerOK("start.definition", req[p], n, instCopy[p])
      BY <1>1, <1>3 DEF StartGetNode, NodeRead, HandlerOK, Labels, WritesNode, NeedsInstance, OpsAt
    <2>2. HandlerOK("error", req[p], nodeCopy[p], instCopy[p])
      BY <1>1, <1>3, Ends DEF StartGetNode, NodeRead
    <2>3. NodeOf(p) \in DOMAIN nodes => nodes[NodeOf(p)] \in NodeRecord
      BY DEF Inv, StoresOK, IsStore
    <2> QED
      BY <1>3, <2>1, <2>2, <2>3, ReadsNode DEF StartGetNode, NodeRead
  <1>4. CASE StartGetDefinition(p)
    <2>1. req[p] \in Requests /\ req[p].op = "start"
      BY <1>1, <1>4 DEF StartGetDefinition, HandlerOK, OpsAt
    <2>2. CASE MayStart(p) /\ StartGetDefinition(p)
      <3>1. PICK i \in InstanceIds :
              /\ issued' = issued \cup {i}
              /\ instCopy' = [instCopy EXCEPT ![p] =
                                NewInstance(i, req[p], definitions[req[p].def])]
        BY <2>2 DEF StartGetDefinition
      <3>2. definitions[req[p].def] \in Definition
        BY <2>2 DEF MayStart, Inv, StoresOK, IsStore
      <3>3. Sound(instCopy'[p])
        BY <2>1, <3>1, <3>2, NewInstanceSound DEF Inv, LocalsOK
      <3>4. HandlerOK("start.lock", req[p], nodeCopy[p], instCopy'[p])
        BY <2>1, <3>3 DEF HandlerOK, Labels, WritesNode, NeedsInstance, OpsAt
      <3>5. Goto(p, "start.lock") /\ UNCHANGED <<stores, req, nodeCopy, faults>>
        BY <2>2 DEF StartGetDefinition
      <3>6. StoresOK'
        BY <3>1, <3>5 DEF Inv, StoresOK, IsStore, stores, faults
      <3> QED
        BY <3>1, <3>4, <3>5, <3>6, OneProc
    <2>3. CASE ~MayStart(p)
      <3>1. HandlerOK("error", req[p], nodeCopy[p], instCopy[p])
        BY <1>1, <1>4, Ends DEF StartGetDefinition
      <3> QED
        BY <1>4, <2>3, <3>1, Decides DEF StartGetDefinition, locals
    <2> QED
      BY <1>4, <2>2, <2>3
  <1>5. CASE StartLock(p)
    <2>1. req[p] \in Requests /\ req[p].op = "start" /\ Sound(instCopy[p])
      BY <1>1, <1>5 DEF StartLock, NodeRead, HandlerOK, OpsAt, NeedsInstance
    <2>2. \A n \in NodeRecord : HandlerOK("start.locking", req[p], n, instCopy[p])
      BY <2>1 DEF HandlerOK, Labels, WritesNode, NeedsInstance, OpsAt
    <2>3. HandlerOK("error", req[p], nodeCopy[p], instCopy[p])
      BY <1>1, <1>5, Ends DEF StartLock, NodeRead
    <2>4. NodeOf(p) \in DOMAIN nodes => Locked(nodes[NodeOf(p)], req[p].user, {}) \in NodeRecord
      BY <2>1, RequestFields, NodeRecordOps DEF Inv, StoresOK, IsStore, Principals
    <2> QED
      BY <1>5, <2>2, <2>3, <2>4, ReadsNode DEF StartLock, NodeRead
  <1>6. CASE StartLocking(p)
    <2>1. req[p] \in Requests /\ req[p].op = "start" /\ Sound(instCopy[p])
      BY <1>1, <1>6 DEF StartLocking, NodeWrite, HandlerOK, OpsAt, NeedsInstance
    <2>2. HandlerOK("start.save", req[p], nodeCopy[p], instCopy[p])
      BY <2>1 DEF HandlerOK, Labels, WritesNode, NeedsInstance, OpsAt
    <2>3. HandlerOK(OnFailure("start.locking"), req[p], nodeCopy[p], instCopy[p])
      BY <1>1, <1>6, Ends DEF StartLocking, NodeWrite, OnFailure
    <2>4. "start.locking" \in WritesNode
      BY DEF WritesNode
    <2> QED
      BY <1>6, <2>2, <2>3, <2>4, WritesNodeBack DEF StartLocking
  <1>7. CASE StartSave(p)
    <2>1. "start.save" \in NeedsInstance
      BY DEF NeedsInstance
    <2>2. HandlerOK("start.mark", req[p], nodeCopy[p], instCopy[p])
      BY <1>1, <1>7 DEF StartSave, SaveInstance, HandlerOK, Labels, WritesNode, NeedsInstance, OpsAt
    <2> QED
      BY <1>7, <2>1, <2>2, Saves DEF StartSave
  <1>8. CASE StartMark(p)
    <2>1. req[p] \in Requests /\ req[p].op = "start" /\ Sound(instCopy[p])
      BY <1>1, <1>8 DEF StartMark, NodeRead, HandlerOK, OpsAt, NeedsInstance
    <2>2. \A n \in NodeRecord : HandlerOK("start.marking", req[p], n, instCopy[p])
      BY <2>1 DEF HandlerOK, Labels, WritesNode, NeedsInstance, OpsAt
    <2>3. HandlerOK("start.unsave", req[p], nodeCopy[p], instCopy[p])
      BY <2>1 DEF HandlerOK, Labels, WritesNode, NeedsInstance, OpsAt
    <2>4. NodeOf(p) \in DOMAIN nodes =>
            Marked(nodes[NodeOf(p)], instCopy[p].uuid, instCopy[p].current) \in NodeRecord
      BY <2>1, NodeRecordOps DEF Inv, StoresOK, IsStore, Sound, Instance
    <2> QED
      BY <1>8, <2>2, <2>3, <2>4, ReadsNode DEF StartMark, NodeRead
  <1>9. CASE StartMarking(p)
    <2>1. req[p] \in Requests /\ req[p].op = "start" /\ Sound(instCopy[p])
      BY <1>1, <1>9 DEF StartMarking, NodeWrite, HandlerOK, OpsAt, NeedsInstance
    <2>2. HandlerOK("ok", req[p], nodeCopy[p], instCopy[p])
      BY <1>1, <1>9, Ends DEF StartMarking, NodeWrite
    <2>3. HandlerOK(OnFailure("start.marking"), req[p], nodeCopy[p], instCopy[p])
      BY <2>1 DEF OnFailure, HandlerOK, Labels, WritesNode, NeedsInstance, OpsAt
    <2>4. "start.marking" \in WritesNode
      BY DEF WritesNode
    <2> QED
      BY <1>9, <2>2, <2>3, <2>4, WritesNodeBack DEF StartMarking
  <1>10. CASE StartUnsave(p)
    <2>1. HandlerOK("start.unlock", req[p], nodeCopy[p], instCopy[p])
      BY <1>1, <1>10 DEF StartUnsave, HandlerOK, Labels, WritesNode, NeedsInstance, OpsAt
    <2>2. StoresOK'
      BY <1>10, RemovesInstance DEF StartUnsave
    <2> QED
      BY <1>10, <2>1, <2>2, OneProc DEF StartUnsave, locals
  <1>11. CASE StartUnlock(p)
    <2>1. req[p] \in Requests /\ req[p].op = "start" /\ Sound(instCopy[p])
      BY <1>1, <1>11 DEF StartUnlock, NodeRead, HandlerOK, OpsAt, NeedsInstance
    <2>2. \A n \in NodeRecord : HandlerOK("start.unlocking", req[p], n, instCopy[p])
      BY <2>1 DEF HandlerOK, Labels, WritesNode, NeedsInstance, OpsAt
    <2>3. HandlerOK("error", req[p], nodeCopy[p], instCopy[p])
      BY <1>1, <1>11, Ends DEF StartUnlock, NodeRead
    <2>4. NodeOf(p) \in DOMAIN nodes => Unlocked(nodes[NodeOf(p)]) \in NodeRecord
      BY NodeRecordOps DEF Inv, StoresOK, IsStore
    <2> QED
      BY <1>11, <2>2, <2>3, <2>4, ReadsNode DEF StartUnlock, NodeRead
  <1>12. CASE StartUnlocking(p)
    <2>1. HandlerOK("error", req[p], nodeCopy[p], instCopy[p])
      BY <1>1, <1>12, Ends DEF StartUnlocking, NodeWrite
    <2>2. OnFailure("start.unlocking") = "error" /\ "start.unlocking" \in WritesNode
      BY DEF OnFailure, WritesNode
    <2> QED
      BY <1>12, <2>1, <2>2, WritesNodeBack DEF StartUnlocking
  <1> QED
    BY <1>2, <1>3, <1>4, <1>5, <1>6, <1>7, <1>8, <1>9, <1>10, <1>11, <1>12 DEF Start

\* transition.
LEMMA TransitionInv ==
  ASSUME Inv, NEW p \in Procs, TransitionRequests(p)
  PROVE  Inv'
  <1> DEFINE OK == HandlerOK(pc[p], req[p], nodeCopy[p], instCopy[p])
  <1> USE DEF At
  <1>1. OK
    BY DEF Inv
  <1>2. CASE TransitionGet(p)
    <2>1. req[p] \in Requests /\ req[p].op = "transition"
      BY <1>1, <1>2 DEF TransitionGet, HandlerOK, OpsAt
    <2>2. CASE MayTransition(p) /\ TransitionGet(p)
      <3>1. /\ instCopy' = [instCopy EXCEPT ![p] = ReadInstance(p)]
            /\ instCopy'[p] = instances[req[p].inst]
            /\ Goto(p, "transition.node")
            /\ UNCHANGED <<stores, issued, req, nodeCopy, faults>>
        BY <2>2 DEF TransitionGet, ReadInstance, Inv, LocalsOK
      <3>2. /\ req[p].inst \in DOMAIN instances
            /\ ~instances[req[p].inst].cancelled
            /\ HasPermission(req[p].user, instances[req[p].inst].participants)
        BY <2>2 DEF MayTransition, Visible, ReadInstance
      <3>3. Sound(instCopy'[p])
        BY <3>1, <3>2 DEF Inv, StoresOK
      <3>4. HandlerOK("transition.node", req[p], nodeCopy[p], instCopy'[p])
        BY <2>1, <3>1, <3>2, <3>3 DEF HandlerOK, Labels, WritesNode, NeedsInstance, OpsAt
      <3> QED
        BY <3>1, <3>4, StoresKept, OneProc
    <2>3. CASE ~MayTransition(p)
      <3>1. HandlerOK("error", req[p], nodeCopy[p], instCopy[p])
        BY <1>1, <1>2, Ends DEF TransitionGet
      <3> QED
        BY <1>2, <2>3, <3>1, Decides DEF TransitionGet, locals
    <2> QED
      BY <1>2, <2>2, <2>3
  <1>3. CASE TransitionGetNode(p)
    <2>1. /\ req[p] \in Requests /\ req[p].op = "transition"
          /\ Sound(instCopy[p]) /\ ~instCopy[p].cancelled
          /\ HasPermission(req[p].user, instCopy[p].participants)
      BY <1>1, <1>3 DEF TransitionGetNode, HandlerOK, OpsAt, NeedsInstance
    <2>2. ASSUME NEW t \in Enabled(p), NEW l \in {"transition.actions", "transition.save"},
                 instCopy' = [instCopy EXCEPT ![p] = Advanced(instCopy[p], t, req[p].user)],
                 Goto(p, l)
          PROVE  Inv'
      <3>1. instCopy'[p] = Advanced(instCopy[p], t, req[p].user)
        BY <2>2 DEF Inv, LocalsOK
      <3>2. /\ t \in instCopy[p].definition.transitions /\ t.from = instCopy[p].current
            /\ InAllowedGroup(req[p].user, t) /\ req[p].user \in Users
        BY <2>1, RequestFields DEF Enabled
      <3>3. Sound(instCopy'[p])
        BY <2>1, <3>1, <3>2, AdvancedSound
      <3>4. HandlerOK(l, req[p], nodeCopy[p], instCopy'[p])
        BY <2>1, <3>3 DEF HandlerOK, Labels, WritesNode, NeedsInstance, OpsAt
      <3>5. UNCHANGED <<stores, issued, req, nodeCopy, faults>>
        BY <1>3 DEF TransitionGetNode
      <3> QED
        BY <2>2, <3>4, <3>5, StoresKept, OneProc
    <2>3. CASE UNCHANGED instCopy /\ Goto(p, "error")
      <3>1. HandlerOK("error", req[p], nodeCopy[p], instCopy[p])
        BY <1>1, <1>3, Ends DEF TransitionGetNode
      <3> QED
        BY <1>3, <2>3, <3>1, Decides DEF TransitionGetNode, locals
    <2> QED
      BY <1>3, <2>2, <2>3 DEF TransitionGetNode
  <1>4. CASE TransitionActions(p)
    <2>1. HandlerOK("transition.save", req[p], nodeCopy[p], instCopy[p])
      BY <1>1, <1>4 DEF TransitionActions, Decide, HandlerOK, Labels, WritesNode, NeedsInstance, OpsAt
    <2>2. HandlerOK("error", req[p], nodeCopy[p], instCopy[p])
      BY <1>1, <1>4, Ends DEF TransitionActions, Decide
    <2> QED
      BY <1>4, <2>1, <2>2, Decides DEF TransitionActions, Decide
  <1>5. CASE TransitionSave(p)
    <2>1. "transition.save" \in NeedsInstance
      BY DEF NeedsInstance
    <2>2. HandlerOK(IF instCopy[p].running THEN "transition.mark" ELSE "release",
                    req[p], nodeCopy[p], instCopy[p])
      BY <1>1, <1>5 DEF TransitionSave, SaveInstance, HandlerOK, Labels, WritesNode, NeedsInstance, OpsAt
    <2> QED
      BY <1>5, <2>1, <2>2, Saves DEF TransitionSave
  <1>6. CASE TransitionMark(p)
    <2>1. req[p] \in Requests /\ req[p].op = "transition" /\ Sound(instCopy[p])
      BY <1>1, <1>6 DEF TransitionMark, NodeRead, HandlerOK, OpsAt, NeedsInstance
    <2>2. \A n \in NodeRecord : HandlerOK("transition.marking", req[p], n, instCopy[p])
      BY <2>1 DEF HandlerOK, Labels, WritesNode, NeedsInstance, OpsAt
    <2>3. HandlerOK("error", req[p], nodeCopy[p], instCopy[p])
      BY <1>1, <1>6, Ends DEF TransitionMark, NodeRead
    <2>4. NodeOf(p) \in DOMAIN nodes =>
            Marked(nodes[NodeOf(p)], nodes[NodeOf(p)].instance, instCopy[p].current) \in NodeRecord
      <3>1. NodeOf(p) \in DOMAIN nodes =>
              /\ nodes[NodeOf(p)] \in NodeRecord
              /\ nodes[NodeOf(p)].instance \in InstanceIds \cup {NoInstance}
        BY DEF Inv, StoresOK, IsStore, NodeRecord
      <3> QED
        BY <2>1, <3>1, NodeRecordOps DEF Sound, Instance
    <2> QED
      BY <1>6, <2>2, <2>3, <2>4, ReadsNode DEF TransitionMark, NodeRead
  <1>7. CASE TransitionMarking(p)
    <2>1. /\ HandlerOK("ok", req[p], nodeCopy[p], instCopy[p])
          /\ HandlerOK("error", req[p], nodeCopy[p], instCopy[p])
      BY <1>1, <1>7, Ends DEF TransitionMarking, NodeWrite
    <2>2. OnFailure("transition.marking") = "error" /\ "transition.marking" \in WritesNode
      BY DEF OnFailure, WritesNode
    <2> QED
      BY <1>7, <2>1, <2>2, WritesNodeBack DEF TransitionMarking
  <1> QED
    BY <1>2, <1>3, <1>4, <1>5, <1>6, <1>7 DEF TransitionRequests

\* cancelWorkflow, and the release of the node.
LEMMA CancelAndReleaseInv ==
  ASSUME Inv, NEW p \in Procs, CancelAndRelease(p)
  PROVE  Inv'
  <1> DEFINE OK == HandlerOK(pc[p], req[p], nodeCopy[p], instCopy[p])
  <1> USE DEF At
  <1>1. OK
    BY DEF Inv
  <1>2. CASE CancelGet(p)
    <2>1. req[p] \in Requests /\ req[p].op = "cancel"
      BY <1>1, <1>2 DEF CancelGet, HandlerOK, OpsAt
    <2>2. CASE MayCancel(p) /\ CancelGet(p)
      <3>1. /\ instCopy' = [instCopy EXCEPT ![p] = Cancelled(ReadInstance(p))]
            /\ instCopy'[p] = Cancelled(instances[req[p].inst])
            /\ Goto(p, "cancel.save")
            /\ UNCHANGED <<stores, issued, req, nodeCopy, faults>>
        BY <2>2 DEF CancelGet, ReadInstance, Inv, LocalsOK
      <3>2. req[p].inst \in DOMAIN instances
        BY <2>2 DEF MayCancel, Visible
      <3>3. Sound(instCopy'[p])
        BY <3>1, <3>2, CancelledSound DEF Inv, StoresOK
      <3>4. HandlerOK("cancel.save", req[p], nodeCopy[p], instCopy'[p])
        BY <2>1, <3>3 DEF HandlerOK, Labels, WritesNode, NeedsInstance, OpsAt
      <3> QED
        BY <3>1, <3>4, StoresKept, OneProc
    <2>3. CASE ~MayCancel(p)
      <3>1. HandlerOK("error", req[p], nodeCopy[p], instCopy[p])
        BY <1>1, <1>2, Ends DEF CancelGet
      <3> QED
        BY <1>2, <2>3, <3>1, Decides DEF CancelGet, locals
    <2> QED
      BY <1>2, <2>2, <2>3
  <1>3. CASE CancelSave(p)
    <2>1. "cancel.save" \in NeedsInstance
      BY DEF NeedsInstance
    <2>2. HandlerOK("release", req[p], nodeCopy[p], instCopy[p])
      BY <1>1, <1>3 DEF CancelSave, SaveInstance, HandlerOK, Labels, WritesNode, NeedsInstance, OpsAt
    <2> QED
      BY <1>3, <2>1, <2>2, Saves DEF CancelSave
  <1>4. CASE Release(p)
    <2>1. req[p] \in Requests /\ req[p].op \in {"transition", "cancel"} /\ Sound(instCopy[p])
      BY <1>1, <1>4 DEF Release, NodeRead, HandlerOK, OpsAt, NeedsInstance
    <2>2. \A n \in NodeRecord : HandlerOK("releasing", req[p], n, instCopy[p])
      BY <1>1, <1>4, <2>1 DEF Release, NodeRead, HandlerOK, Labels, WritesNode, NeedsInstance, OpsAt
    <2>3. HandlerOK("error", req[p], nodeCopy[p], instCopy[p])
      BY <1>1, <1>4, Ends DEF Release, NodeRead
    <2>4. NodeOf(p) \in DOMAIN nodes => Unlocked(nodes[NodeOf(p)]) \in NodeRecord
      BY <2>1, NodeRecordOps DEF Inv, StoresOK, IsStore
    <2> QED
      BY <1>4, <2>2, <2>3, <2>4, ReadsNode DEF Release, NodeRead
  <1>5. CASE Releasing(p)
    <2>1. /\ HandlerOK("clear", req[p], nodeCopy[p], instCopy[p])
          /\ HandlerOK("error", req[p], nodeCopy[p], instCopy[p])
      BY <1>1, <1>5 DEF Releasing, NodeWrite, HandlerOK, Labels, WritesNode, NeedsInstance, OpsAt
    <2>2. OnFailure("releasing") = "error" /\ "releasing" \in WritesNode
      BY DEF OnFailure, WritesNode
    <2> QED
      BY <1>5, <2>1, <2>2, WritesNodeBack DEF Releasing
  <1>6. CASE Clear(p)
    <2>1. req[p] \in Requests /\ req[p].op \in {"transition", "cancel"} /\ Sound(instCopy[p])
      BY <1>1, <1>6 DEF Clear, NodeRead, HandlerOK, OpsAt, NeedsInstance
    <2>2. \A n \in NodeRecord : HandlerOK("clearing", req[p], n, instCopy[p])
      BY <1>1, <1>6, <2>1 DEF Clear, NodeRead, HandlerOK, Labels, WritesNode, NeedsInstance, OpsAt
    <2>3. HandlerOK("error", req[p], nodeCopy[p], instCopy[p])
      BY <1>1, <1>6, Ends DEF Clear, NodeRead
    <2>4. NodeOf(p) \in DOMAIN nodes => Marked(nodes[NodeOf(p)], NoInstance, NoState) \in NodeRecord
      BY <2>1, NodeRecordOps DEF Inv, StoresOK, IsStore
    <2> QED
      BY <1>6, <2>2, <2>3, <2>4, ReadsNode DEF Clear, NodeRead
  <1>7. CASE Clearing(p)
    <2>1. /\ HandlerOK("ok", req[p], nodeCopy[p], instCopy[p])
          /\ HandlerOK("error", req[p], nodeCopy[p], instCopy[p])
      BY <1>1, <1>7, Ends DEF Clearing, NodeWrite
    <2>2. OnFailure("clearing") = "error" /\ "clearing" \in WritesNode
      BY DEF OnFailure, WritesNode
    <2> QED
      BY <1>7, <2>1, <2>2, WritesNodeBack DEF Clearing
  <1> QED
    BY <1>2, <1>3, <1>4, <1>5, <1>6, <1>7 DEF CancelAndRelease

\* updateNode, and the operations of NodeService called directly.
LEMMA NodeRequestsInv ==
  ASSUME Inv, NEW p \in Procs, NodeRequests(p)
  PROVE  Inv'
  <1> DEFINE OK == HandlerOK(pc[p], req[p], nodeCopy[p], instCopy[p])
  <1> USE DEF At
  <1>1. OK
    BY DEF Inv
  <1>2. CASE EditGet(p)
    <2>1. req[p] \in Requests /\ req[p].op = "updateNode"
      BY <1>1, <1>2 DEF EditGet, HandlerOK, OpsAt
    <2>2. CASE MayEdit(p) /\ EditGet(p)
      <3>1. /\ instCopy' = [instCopy EXCEPT ![p] = ReadInstance(p)]
            /\ instCopy'[p] = instances[req[p].inst]
            /\ Goto(p, "update")
            /\ UNCHANGED <<stores, issued, req, nodeCopy, faults>>
        BY <2>2 DEF EditGet, ReadInstance, Inv, LocalsOK
      <3>2. req[p].inst \in DOMAIN instances
        BY <2>2 DEF MayEdit, Visible
      <3>3. Sound(instCopy'[p])
        BY <3>1, <3>2 DEF Inv, StoresOK
      <3>4. HandlerOK("update", req[p], nodeCopy[p], instCopy'[p])
        BY <2>1, <3>3 DEF HandlerOK, Labels, WritesNode, NeedsInstance, OpsAt
      <3> QED
        BY <3>1, <3>4, StoresKept, OneProc
    <2>3. CASE ~MayEdit(p)
      <3>1. HandlerOK("error", req[p], nodeCopy[p], instCopy[p])
        BY <1>1, <1>2, Ends DEF EditGet
      <3> QED
        BY <1>2, <2>3, <3>1, Decides DEF EditGet, locals
    <2> QED
      BY <1>2, <2>2, <2>3
  <1>3. CASE Update(p)
    <2>1. req[p] \in Requests /\ req[p].op \in {"update", "updateNode"}
      BY <1>1, <1>3 DEF Update, NodeRead, HandlerOK, OpsAt, NeedsInstance
    <2>2. \A n \in NodeRecord : HandlerOK("updating", req[p], n, instCopy[p])
      BY <1>1, <1>3, <2>1 DEF Update, NodeRead, HandlerOK, Labels, WritesNode, NeedsInstance, OpsAt
    <2>3. HandlerOK("error", req[p], nodeCopy[p], instCopy[p])
      BY <1>1, <1>3, Ends DEF Update, NodeRead
    <2>4. NodeOf(p) \in DOMAIN nodes => Updated(nodes[NodeOf(p)], Actor(p), req[p].metadata) \in NodeRecord
      BY <2>1, RequestFields, NodeRecordOps DEF Inv, StoresOK, IsStore
    <2> QED
      BY <1>3, <2>2, <2>3, <2>4, ReadsNode DEF Update, NodeRead
  <1>4. CASE Updating(p)
    <2>1. /\ HandlerOK("ok", req[p], nodeCopy[p], instCopy[p])
          /\ HandlerOK("error", req[p], nodeCopy[p], instCopy[p])
      BY <1>1, <1>4, Ends DEF Updating, NodeWrite
    <2>2. OnFailure("updating") = "error" /\ "updating" \in WritesNode
      BY DEF OnFailure, WritesNode
    <2> QED
      BY <1>4, <2>1, <2>2, WritesNodeBack DEF Updating
  <1>5. CASE Lock(p)
    <2>1. req[p] \in Requests /\ req[p].op = "lock"
      BY <1>1, <1>5 DEF Lock, NodeRead, HandlerOK, OpsAt, NeedsInstance
    <2>2. \A n \in NodeRecord : HandlerOK("locking", req[p], n, instCopy[p])
      BY <1>1, <1>5, <2>1 DEF Lock, NodeRead, HandlerOK, Labels, WritesNode, NeedsInstance, OpsAt
    <2>3. HandlerOK("error", req[p], nodeCopy[p], instCopy[p])
      BY <1>1, <1>5, Ends DEF Lock, NodeRead
    <2>4. NodeOf(p) \in DOMAIN nodes => Locked(nodes[NodeOf(p)], req[p].user, req[p].groups) \in NodeRecord
      BY <2>1, RequestFields, NodeRecordOps DEF Inv, StoresOK, IsStore, Principals
    <2> QED
      BY <1>5, <2>2, <2>3, <2>4, ReadsNode DEF Lock, NodeRead
  <1>6. CASE Locking(p)
    <2>1. /\ HandlerOK("ok", req[p], nodeCopy[p], instCopy[p])
          /\ HandlerOK("error", req[p], nodeCopy[p], instCopy[p])
      BY <1>1, <1>6, Ends DEF Locking, NodeWrite
    <2>2. OnFailure("locking") = "error" /\ "locking" \in WritesNode
      BY DEF OnFailure, WritesNode
    <2> QED
      BY <1>6, <2>1, <2>2, WritesNodeBack DEF Locking
  <1>7. CASE Unlock(p)
    <2>1. req[p] \in Requests /\ req[p].op = "unlock"
      BY <1>1, <1>7 DEF Unlock, NodeRead, HandlerOK, OpsAt, NeedsInstance
    <2>2. \A n \in NodeRecord : HandlerOK("unlocking", req[p], n, instCopy[p])
      BY <1>1, <1>7, <2>1 DEF Unlock, NodeRead, HandlerOK, Labels, WritesNode, NeedsInstance, OpsAt
    <2>3. HandlerOK("error", req[p], nodeCopy[p], instCopy[p])
      BY <1>1, <1>7, Ends DEF Unlock, NodeRead
    <2>4. NodeOf(p) \in DOMAIN nodes => Unlocked(nodes[NodeOf(p)]) \in NodeRecord
      BY <2>1, NodeRecordOps DEF Inv, StoresOK, IsStore
    <2> QED
      BY <1>7, <2>2, <2>3, <2>4, ReadsNode DEF Unlock, NodeRead
  <1>8. CASE Unlocking(p)
    <2>1. /\ HandlerOK("ok", req[p], nodeCopy[p], instCopy[p])
          /\ HandlerOK("error", req[p], nodeCopy[p], instCopy[p])
      BY <1>1, <1>8, Ends DEF Unlocking, NodeWrite
    <2>2. OnFailure("unlocking") = "error" /\ "unlocking" \in WritesNode
      BY DEF OnFailure, WritesNode
    <2> QED
      BY <1>8, <2>1, <2>2, WritesNodeBack DEF Unlocking
  <1>9. CASE Delete(p)
    <2>1. req[p] \in Requests /\ req[p].op = "delete"
      BY <1>1, <1>9 DEF Delete, NodeRead, HandlerOK, OpsAt, NeedsInstance
    <2>2. \A n \in NodeRecord : HandlerOK("deleting", req[p], n, instCopy[p])
      BY <1>1, <1>9, <2>1 DEF Delete, NodeRead, HandlerOK, Labels, WritesNode, NeedsInstance, OpsAt
    <2>3. HandlerOK("error", req[p], nodeCopy[p], instCopy[p])
      BY <1>1, <1>9, Ends DEF Delete, NodeRead
    <2>4. NodeOf(p) \in DOMAIN nodes => nodes[NodeOf(p)] \in NodeRecord
      BY <2>1, RequestFields DEF Inv, StoresOK, IsStore
    <2> QED
      BY <1>9, <2>2, <2>3, <2>4, ReadsNode DEF Delete, NodeRead
  <1>10. CASE Deleting(p)
    <2>1. /\ HandlerOK("ok", req[p], nodeCopy[p], instCopy[p])
          /\ HandlerOK("error", req[p], nodeCopy[p], instCopy[p])
      BY <1>1, <1>10, Ends DEF Deleting
    <2>2. IsStore(nodes, Nodes, NodeRecord)'
      BY <1>10, StoreRemove DEF Deleting, Inv, StoresOK
    <2>3. StoresOK'
      BY <1>10, <2>2 DEF Deleting, Inv, StoresOK, faults
    <2> QED
      BY <1>10, <2>1, <2>3, OneProc DEF Deleting, locals
  <1> QED
    BY <1>2, <1>3, <1>4, <1>5, <1>6, <1>7, <1>8, <1>9, <1>10 DEF NodeRequests

\* deleteWorkflowInstance.
LEMMA DeleteInstanceInv ==
  ASSUME Inv, NEW p \in Procs, DeleteInstance(p)
  PROVE  Inv'
  <1>1. /\ HandlerOK("ok", req[p], nodeCopy[p], instCopy[p])
        /\ HandlerOK("error", req[p], nodeCopy[p], instCopy[p])
    BY Ends DEF DeleteInstance, At, Inv
  <1>2. CASE instances' = Remove(instances, req[p].inst) /\ Goto(p, "ok")
    BY <1>1, <1>2, RemovesInstance, OneProc DEF DeleteInstance, locals
  <1>3. CASE UNCHANGED instances /\ Goto(p, "error")
    BY <1>1, <1>3, Decides DEF DeleteInstance, stores
  <1> QED
    BY <1>2, <1>3 DEF DeleteInstance

\* createOrReplaceWorkflow and deleteWorkflow.
LEMMA DefinitionRequestsInv ==
  ASSUME Inv, NEW p \in Procs, DefinitionRequests(p)
  PROVE  Inv'
  <1> DEFINE OK == HandlerOK(pc[p], req[p], nodeCopy[p], instCopy[p])
  <1> USE DEF At
  <1>1. OK
    BY DEF Inv
  <1>2. CASE PutDefinition(p)
    <2>1. HandlerOK("error", req[p], nodeCopy[p], instCopy[p])
      BY <1>1, <1>2, Ends DEF PutDefinition, Decide
    <2>2. /\ HandlerOK("putDefinition.update", req[p], nodeCopy[p], instCopy[p])
          /\ HandlerOK("putDefinition.save", req[p], nodeCopy[p], instCopy[p])
      BY <1>1, <1>2 DEF PutDefinition, Decide, HandlerOK, Labels, WritesNode, NeedsInstance, OpsAt
    <2> QED
      BY <1>2, <2>1, <2>2, Decides DEF PutDefinition, Decide
  <1>3. CASE PutDefinitionUpdate(p)
    <2>1. HandlerOK("error", req[p], nodeCopy[p], instCopy[p])
      BY <1>1, <1>3, Ends DEF PutDefinitionUpdate, Decide
    <2>2. HandlerOK("putDefinition.save", req[p], nodeCopy[p], instCopy[p])
      BY <1>1, <1>3 DEF PutDefinitionUpdate, Decide, HandlerOK, Labels, WritesNode, NeedsInstance, OpsAt
    <2> QED
      BY <1>3, <2>1, <2>2, Decides DEF PutDefinitionUpdate, Decide
  <1>4. CASE PutDefinitionSave(p)
    <2>1. req[p] \in Requests /\ req[p].op = "putDefinition"
      BY <1>1, <1>4 DEF PutDefinitionSave, HandlerOK, OpsAt
    <2>2. IsStore(definitions, DefIds, Definition)'
      BY <1>4, <2>1, RequestFields, StorePut DEF PutDefinitionSave, Inv, StoresOK
    <2>3. StoresOK'
      BY <1>4, <2>2 DEF PutDefinitionSave, Inv, StoresOK, faults
    <2>4. HandlerOK("ok", req[p], nodeCopy[p], instCopy[p])
      BY <1>1, <1>4, Ends DEF PutDefinitionSave
    <2> QED
      BY <1>4, <2>3, <2>4, OneProc DEF PutDefinitionSave, locals
  <1>5. CASE DeleteDefinition(p)
    <2>1. HandlerOK("error", req[p], nodeCopy[p], instCopy[p])
      BY <1>1, <1>5, Ends DEF DeleteDefinition, Decide
    <2>2. HandlerOK("deleteDefinition.delete", req[p], nodeCopy[p], instCopy[p])
      BY <1>1, <1>5 DEF DeleteDefinition, Decide, HandlerOK, Labels, WritesNode, NeedsInstance, OpsAt
    <2> QED
      BY <1>5, <2>1, <2>2, Decides DEF DeleteDefinition, Decide
  <1>6. CASE DeleteDefinitionDelete(p)
    <2>1. /\ HandlerOK("ok", req[p], nodeCopy[p], instCopy[p])
          /\ HandlerOK("error", req[p], nodeCopy[p], instCopy[p])
      BY <1>1, <1>6, Ends DEF DeleteDefinitionDelete
    <2>2. IsStore(definitions, DefIds, Definition)'
      BY <1>6, StoreRemove DEF DeleteDefinitionDelete, Inv, StoresOK
    <2>3. StoresOK'
      BY <1>6, <2>2 DEF DeleteDefinitionDelete, Inv, StoresOK, faults
    <2> QED
      BY <1>6, <2>1, <2>3, OneProc DEF DeleteDefinitionDelete, locals
  <1> QED
    BY <1>2, <1>3, <1>4, <1>5, <1>6 DEF DefinitionRequests

\* A write that fails stores nothing and sends the handler to its error path,
\* whose needs its label already met.
LEMMA WriteFailsInv ==
  ASSUME Inv, NEW p \in Procs, WriteFails(p)
  PROVE  Inv'
  <1>1. HandlerOK(pc[p], req[p], nodeCopy[p], instCopy[p])
    BY DEF Inv
  <1>2. HandlerOK(OnFailure(pc[p]), req[p], nodeCopy[p], instCopy[p])
    <2>1. CASE pc[p] \in {"start.save", "start.unsave", "start.marking"}
      BY <1>1, <2>1 DEF OnFailure, HandlerOK, Labels, WritesNode, NeedsInstance, OpsAt
    <2>2. CASE pc[p] \notin {"start.save", "start.unsave", "start.marking"}
      <3>1. OnFailure(pc[p]) = "error" /\ pc[p] # "idle"
        BY <2>2 DEF OnFailure, WriteFails, Writes
      <3> QED
        BY <1>1, <3>1, Ends
    <2> QED
      BY <2>1, <2>2
  <1>3. StoresOK'
    BY InstancesAssumption DEF WriteFails, Inv, StoresOK, IsStore, stores
  <1> QED
    BY <1>2, <1>3, OneProc DEF WriteFails, locals

\* A request arrives, and is answered.
LEMMA IssueInv ==
  ASSUME Inv, NEW p \in Procs, Issue(p)
  PROVE  Inv'
  <1>1. PICK r \in Requests : req' = [req EXCEPT ![p] = r] /\ Goto(p, r.op)
    BY DEF Issue
  <1>2. req'[p] = r
    BY <1>1 DEF Inv, LocalsOK
  <1>3. HandlerOK(r.op, r, nodeCopy[p], instCopy[p])
    <2>1. /\ r.op \in Labels /\ r.op \in OpsAt(r.op)
          /\ r.op \notin WritesNode \cup NeedsInstance \cup {"start.definition", "idle"}
      BY RequestFields
    <2> QED
      BY <2>1 DEF HandlerOK, NeedsInstance, OpsAt
  <1> QED
    BY <1>1, <1>2, <1>3, StoresKept, OneProc DEF Issue

LEMMA ReplyInv ==
  ASSUME Inv, NEW p \in Procs, Reply(p)
  PROVE  Inv'
  <1>1. HandlerOK("idle", req'[p], nodeCopy'[p], instCopy'[p])
    BY DEF HandlerOK, Labels, WritesNode, NeedsInstance
  <1> QED
    BY <1>1, StoresKept, OneProc DEF Reply

\* A restart forgets every handler.
LEMMA CrashInv ==
  ASSUME Inv, Crash
  PROVE  Inv'
  <1>1. StoresOK'
    BY InstancesAssumption DEF Crash, Inv, StoresOK, IsStore, stores
  <1>2. \A p \in Procs : HandlerOK(pc'[p], req'[p], nodeCopy'[p], instCopy'[p])
    BY DEF Crash, HandlerOK, Labels, WritesNode, NeedsInstance
  <1>3. LocalsOK'
    BY DEF Crash, LocalsOK, Labels
  <1> QED
    BY <1>1, <1>2, <1>3 DEF Inv

----------------------------------------------------------------------------
(* The invariant, and what it says of the system                           *)

\* The server starts with nodes that are in no workflow, definitions the
\* schema accepts, and no request.
LEMMA InitInv == Init => Inv
  <1> SUFFICES ASSUME Init PROVE Inv
    OBVIOUS
  <1>1. IsStore(nodes, Nodes, NodeRecord)
    <2>1. \A d \in Data : FreshNode(d) \in NodeRecord
      BY DEF FreshNode, NodeRecord
    <2> QED
      BY <2>1 DEF Init, IsStore
  <1>2. IsStore(definitions, DefIds, Definition)
    BY InstancesAssumption DEF Init
  <1>3. IsStore(instances, InstanceIds, Instance) /\ DOMAIN instances = {}
    BY DEF Init, IsStore
  <1>4. StoresOK
    BY <1>1, <1>2, <1>3, InstancesAssumption DEF Init, StoresOK
  <1>5. LocalsOK
    BY DEF Init, LocalsOK, Labels
  <1>6. \A p \in Procs : HandlerOK(pc[p], req[p], nodeCopy[p], instCopy[p])
    BY DEF Init, HandlerOK, Labels, WritesNode, NeedsInstance
  <1> QED
    BY <1>4, <1>5, <1>6 DEF Inv

\* Every step of every request, every failed write and every restart keeps Inv.
LEMMA NextInv == Inv /\ [Next]_vars => Inv'
  <1> SUFFICES ASSUME Inv, [Next]_vars PROVE Inv'
    OBVIOUS
  <1>1. CASE UNCHANGED vars
    BY <1>1 DEF vars, stores, faults, Inv, StoresOK, LocalsOK, IsStore
  <1>2. CASE Crash
    BY <1>2, CrashInv
  <1>3. ASSUME NEW p \in Procs, Issue(p) \/ Handle(p) PROVE Inv'
    BY <1>3, IssueInv, StartInv, TransitionInv, CancelAndReleaseInv, NodeRequestsInv,
       DeleteInstanceInv, DefinitionRequestsInv, WriteFailsInv, ReplyInv DEF Handle
  <1> QED
    BY <1>1, <1>2, <1>3 DEF Next

\* What Inv says about types is TypeOK.
LEMMA InvTypes == Inv => TypeOK
  <1> SUFFICES ASSUME Inv PROVE TypeOK
    OBVIOUS
  <1>1. ASSUME NEW p \in Procs
        PROVE  /\ pc[p] # "idle" => req[p] \in Requests
               /\ pc[p] \in WritesNode \cup {"start.definition"} => nodeCopy[p] \in NodeRecord
               /\ pc[p] \in NeedsInstance => instCopy[p] \in Instance
               /\ pc[p] \in {"update", "updating"} /\ req[p].op = "updateNode"
                     => instCopy[p] \in Instance
    BY DEF Inv, HandlerOK, Sound
  <1> QED
    BY <1>1 DEF Inv, StoresOK, LocalsOK, TypeOK

\* Every collection and every handler's local record keeps its type, whatever
\* the interleaving, the failures and the restarts.
THEOREM Types == Spec => []TypeOK
  BY InitInv, NextInv, InvTypes, PTL DEF Spec

\* The history of every stored instance is a walk of its own snapshot, from
\* the initial state to the current one (transition saves a copy read before
\* several awaits).
THEOREM HistoriesArePaths == Spec => []HistoryIsPath
  <1>1. Inv => HistoryIsPath
    BY DEF Inv, StoresOK, Sound, HistoryIsPath
  <1> QED
    BY <1>1, InitInv, NextInv, PTL DEF Spec

\* Every recorded transition was made by a participant whom its
\* groupsAllowed admits.
THEOREM HistoriesAreAuthorised == Spec => []HistoryAuthorised
  <1>1. Inv => HistoryAuthorised
    BY DEF Inv, StoresOK, Sound, HistoryAuthorised
  <1> QED
    BY <1>1, InitInv, NextInv, PTL DEF Spec

\* A cancelled instance does not run, and one that has moved runs exactly
\* when its state is not final, whichever stale copy was saved last.
THEOREM RunningAgrees == Spec => []RunningIsConsistent
  <1>1. Inv => RunningIsConsistent
    BY DEF Inv, StoresOK, Sound, RunningIsConsistent
  <1> QED
    BY <1>1, InitInv, NextInv, PTL DEF Spec

----------------------------------------------------------------------------
(* What an instance was started with never changes.  A save replaces a     *)
(* whole record by a copy, so this rests on all the records in existence,  *)
(* stored or held by a handler: two with one uuid have one identity,       *)
(* because a uuid is generated once and every later record of it comes     *)
(* from an earlier one.                                                    *)

Held == {p \in Procs : pc[p] \in NeedsInstance}
Records == {instances[i] : i \in DOMAIN instances} \cup {instCopy[p] : p \in Held}

IdInv ==
    /\ \A i \in DOMAIN instances : instances[i].uuid = i
    /\ \A x \in Records : x.uuid \in issued
    /\ \A x, y \in Records : x.uuid = y.uuid => Identity(x) = Identity(y)

IdentityStep ==
    \A i \in DOMAIN instances \cap DOMAIN instances' :
       Identity(instances'[i]) = Identity(instances[i])

\* No handler comes to hold a record it did not hold.
CopiesKept ==
    \A q \in Procs : pc'[q] \in NeedsInstance =>
       pc[q] \in NeedsInstance /\ instCopy'[q] = instCopy[q]

----------------------------------------------------------------------------
(* A step whose records all come from earlier ones                         *)

LEMMA FromEarlier ==
  ASSUME IdInv, issued' = issued, \A i \in DOMAIN instances' : instances'[i].uuid = i,
         \A x \in Records' : \E y \in Records : Identity(x) = Identity(y)
  PROVE  IdInv' /\ IdentityStep
  <1>1. \A x, y : Identity(x) = Identity(y) => x.uuid = y.uuid
    BY DEF Identity
  <1>2. \A x \in Records' : x.uuid \in issued'
    BY <1>1 DEF IdInv
  <1>3. ASSUME NEW x \in Records', NEW y \in Records', x.uuid = y.uuid
        PROVE  Identity(x) = Identity(y)
    <2>1. PICK u \in Records : Identity(x) = Identity(u)
      OBVIOUS
    <2>2. PICK v \in Records : Identity(y) = Identity(v)
      OBVIOUS
    <2>3. u.uuid = v.uuid
      BY <1>1, <1>3, <2>1, <2>2
    <2> QED
      BY <2>1, <2>2, <2>3 DEF IdInv
  <1>4. ASSUME NEW i \in DOMAIN instances, i \in DOMAIN instances'
        PROVE  Identity(instances'[i]) = Identity(instances[i])
    <2>1. PICK y \in Records : Identity(instances'[i]) = Identity(y)
      BY <1>4 DEF Records
    <2>2. y.uuid = i /\ instances[i].uuid = i /\ instances[i] \in Records
      BY <1>1, <1>4, <2>1 DEF IdInv, Records
    <2> QED
      BY <2>1, <2>2 DEF IdInv
  <1> QED
    BY <1>2, <1>3, <1>4 DEF IdInv, IdentityStep

\* The collection keeps the records it has, or takes one that was held.
LEMMA StoredFromEarlier ==
  ASSUME IdInv, issued' = issued, CopiesKept,
         \A i \in DOMAIN instances' :
            \/ i \in DOMAIN instances /\ instances'[i] = instances[i]
            \/ \E p \in Held : i = instCopy[p].uuid /\ instances'[i] = instCopy[p]
  PROVE  IdInv' /\ IdentityStep
  <1>1. \A i \in DOMAIN instances' : instances'[i].uuid = i
    BY DEF IdInv
  <1>2. \A x \in Records' : x \in Records
    BY DEF Records, Held, CopiesKept
  <1> QED
    BY <1>1, <1>2, FromEarlier

LEMMA NothingStored ==
  ASSUME IdInv, UNCHANGED <<instances, issued>>, CopiesKept
  PROVE  IdInv' /\ IdentityStep
  BY StoredFromEarlier

\* One handler takes a copy of a record it can see.
LEMMA CopyTaken ==
  ASSUME Inv, IdInv, NEW p \in Procs, UNCHANGED <<instances, issued>>, NEW l, Goto(p, l),
         NEW x, instCopy' = [instCopy EXCEPT ![p] = x],
         \E y \in Records : Identity(x) = Identity(y)
  PROVE  IdInv' /\ IdentityStep
  <1>1. \A q \in Procs \ {p} : pc'[q] = pc[q] /\ instCopy'[q] = instCopy[q]
    BY DEF Goto, Inv, LocalsOK
  <1>2. instCopy'[p] = x
    BY DEF Inv, LocalsOK
  <1>3. \A i \in DOMAIN instances' : instances'[i].uuid = i
    BY DEF IdInv
  <1>4. ASSUME NEW z \in Records' PROVE \E y \in Records : Identity(z) = Identity(y)
    <2>1. CASE z \in {instances'[i] : i \in DOMAIN instances'}
      BY <2>1 DEF Records
    <2>2. CASE z \in {instCopy'[q] : q \in Held'}
      <3>1. PICK q \in Held' : z = instCopy'[q]
        BY <2>2
      <3>2. CASE q = p
        BY <1>2, <3>1, <3>2
      <3>3. CASE q # p
        BY <1>1, <3>1, <3>3 DEF Records, Held
      <3> QED
        BY <3>2, <3>3
    <2> QED
      BY <1>4, <2>1, <2>2 DEF Records
  <1> QED
    BY <1>3, <1>4, FromEarlier

\* A step of p that leaves the copies alone.
LEMMA GoesWithoutCopy ==
  ASSUME Inv, NEW p \in Procs, NEW l, Goto(p, l), UNCHANGED instCopy,
         l \in NeedsInstance => pc[p] \in NeedsInstance
  PROVE  CopiesKept
  BY DEF Goto, Inv, LocalsOK, CopiesKept

----------------------------------------------------------------------------
(* The handlers                                                            *)

\* A node operation touches no instance record.
LEMMA NodeReadKeeps ==
  ASSUME Inv, IdInv, NEW p \in Procs, UNCHANGED <<instances, issued, instCopy>>,
         NEW l, NEW m, Goto(p, l) \/ Goto(p, m),
         l \in NeedsInstance => pc[p] \in NeedsInstance,
         m \in NeedsInstance => pc[p] \in NeedsInstance
  PROVE  IdInv' /\ IdentityStep
  BY GoesWithoutCopy, NothingStored

\* A save stores the record the handler holds.
LEMMA SaveKeeps ==
  ASSUME Inv, IdInv, NEW p \in Procs, NEW at \in NeedsInstance, NEW then, SaveInstance(p, at, then)
  PROVE  IdInv' /\ IdentityStep
  <1>1. p \in Held
    BY DEF SaveInstance, At, Held
  <1>2. CopiesKept
    BY <1>1, GoesWithoutCopy DEF SaveInstance, locals, Held
  <1>3. \A i \in DOMAIN instances' :
            \/ i \in DOMAIN instances /\ instances'[i] = instances[i]
            \/ i = instCopy[p].uuid /\ instances'[i] = instCopy[p]
    BY DEF SaveInstance, Put
  <1> QED
    BY <1>1, <1>2, <1>3, StoredFromEarlier DEF SaveInstance

\* A removal stores nothing.
LEMMA RemoveKeeps ==
  ASSUME Inv, IdInv, NEW p \in Procs, NEW k, NEW l, instances' = Remove(instances, k),
         UNCHANGED <<issued, instCopy>>, Goto(p, l), l \in NeedsInstance => pc[p] \in NeedsInstance
  PROVE  IdInv' /\ IdentityStep
  <1>1. \A i \in DOMAIN instances' : i \in DOMAIN instances /\ instances'[i] = instances[i]
    BY DEF Remove
  <1> QED
    BY <1>1, GoesWithoutCopy, StoredFromEarlier

\* Cancelling and moving leave the identity of a record alone.
LEMMA SameIdentity ==
  ASSUME NEW inst \in Instance, NEW t, NEW who
  PROVE  /\ Identity(Cancelled(inst)) = Identity(inst)
         /\ Identity(Advanced(inst, t, who)) = Identity(inst)
  BY DEF Instance, Identity, Cancelled, Advanced

\* A new instance has a uuid no record has.
LEMMA NewInstanceKeeps ==
  ASSUME Inv, IdInv, NEW p \in Procs, NEW i \in InstanceIds \ issued, NEW d,
         issued' = issued \cup {i}, UNCHANGED instances, Goto(p, "start.lock"),
         instCopy' = [instCopy EXCEPT ![p] = NewInstance(i, req[p], d)]
  PROVE  IdInv' /\ IdentityStep
  <1> DEFINE new == NewInstance(i, req[p], d)
  <1>1. new.uuid = i
    BY DEF NewInstance
  <1>2. instCopy'[p] = new
    BY DEF Inv, LocalsOK
  <1>3. \A q \in Procs \ {p} : pc'[q] = pc[q] /\ instCopy'[q] = instCopy[q]
    BY DEF Goto, Inv, LocalsOK
  <1> HIDE DEF new
  <1>4. \A x \in Records' : x = new \/ x \in Records
    BY <1>2, <1>3 DEF Records, Held
  <1>5. \A x \in Records : x.uuid # i
    BY DEF IdInv
  <1> QED
    BY <1>1, <1>4, <1>5 DEF IdInv, IdentityStep

LEMMA StartKeeps ==
  ASSUME Inv, IdInv, NEW p \in Procs, Start(p)
  PROVE  IdInv' /\ IdentityStep
  <1> USE DEF At
  <1>1. CASE StartCheck(p) \/ StartGetNode(p)
    BY <1>1, NodeReadKeeps DEF StartCheck, StartGetNode, NodeRead, stores, locals, NeedsInstance
  <1>2. CASE StartGetDefinition(p)
    <2>1. CASE MayStart(p) /\ StartGetDefinition(p)
      BY <2>1, NewInstanceKeeps DEF StartGetDefinition, stores
    <2>2. CASE ~MayStart(p) /\ StartGetDefinition(p)
      BY <2>2, NodeReadKeeps DEF StartGetDefinition, stores, NeedsInstance
    <2> QED
      BY <1>2, <2>1, <2>2
  <1>3. CASE StartLock(p) \/ StartMark(p) \/ StartUnlock(p)
    <2>1. pc[p] \in NeedsInstance
      BY <1>3 DEF StartLock, StartMark, StartUnlock, NodeRead, NeedsInstance
    <2> QED
      BY <1>3, <2>1, NodeReadKeeps DEF StartLock, StartMark, StartUnlock, NodeRead, stores
  <1>4. CASE StartLocking(p) \/ StartMarking(p) \/ StartUnlocking(p)
    <2>1. pc[p] \in NeedsInstance
      BY <1>4 DEF StartLocking, StartMarking, StartUnlocking, NodeWrite, NeedsInstance
    <2> QED
      BY <1>4, <2>1, NodeReadKeeps
         DEF StartLocking, StartMarking, StartUnlocking, NodeWrite, locals
  <1>5. CASE StartSave(p)
    BY <1>5, SaveKeeps DEF StartSave, NeedsInstance
  <1>6. CASE StartUnsave(p)
    <2>1. pc[p] \in NeedsInstance
      BY <1>6 DEF StartUnsave, NeedsInstance
    <2> QED
      BY <1>6, <2>1, RemoveKeeps DEF StartUnsave, locals
  <1> QED
    BY <1>1, <1>2, <1>3, <1>4, <1>5, <1>6 DEF Start

LEMMA TransitionKeeps ==
  ASSUME Inv, IdInv, NEW p \in Procs, TransitionRequests(p)
  PROVE  IdInv' /\ IdentityStep
  <1> USE DEF At
  <1>1. CASE TransitionGet(p)
    <2>1. CASE MayTransition(p) /\ TransitionGet(p)
      <3>1. instances[req[p].inst] \in Records
        BY <2>1 DEF MayTransition, Visible, Records
      <3> QED
        BY <2>1, <3>1, CopyTaken DEF TransitionGet, ReadInstance, stores
    <2>2. CASE ~MayTransition(p) /\ TransitionGet(p)
      BY <2>2, NodeReadKeeps DEF TransitionGet, stores, NeedsInstance
    <2> QED
      BY <1>1, <2>1, <2>2
  <1>2. CASE TransitionGetNode(p)
    <2>1. pc[p] \in NeedsInstance /\ instCopy[p] \in Instance /\ instCopy[p] \in Records
      BY <1>2 DEF TransitionGetNode, NeedsInstance, Inv, HandlerOK, Sound, Records, Held
    <2>2. ASSUME NEW t \in Enabled(p), NEW l, Goto(p, l),
                 instCopy' = [instCopy EXCEPT ![p] = Advanced(instCopy[p], t, req[p].user)]
          PROVE  IdInv' /\ IdentityStep
      <3>1. UNCHANGED <<instances, issued>>
        BY <1>2 DEF TransitionGetNode, stores
      <3>2. \E y \in Records : Identity(Advanced(instCopy[p], t, req[p].user)) = Identity(y)
        BY <2>1, SameIdentity
      <3> QED
        BY <2>2, <3>1, <3>2, CopyTaken
    <2>3. CASE UNCHANGED instCopy /\ Goto(p, "error")
      BY <1>2, <2>1, <2>3, NodeReadKeeps DEF TransitionGetNode, stores
    <2> QED
      BY <1>2, <2>2, <2>3 DEF TransitionGetNode
  <1>3. CASE TransitionActions(p)
    <2>1. pc[p] \in NeedsInstance
      BY <1>3 DEF TransitionActions, Decide, NeedsInstance
    <2> QED
      BY <1>3, <2>1, NodeReadKeeps DEF TransitionActions, Decide, stores, locals
  <1>4. CASE TransitionSave(p)
    BY <1>4, SaveKeeps DEF TransitionSave, NeedsInstance
  <1>5. CASE TransitionMark(p) \/ TransitionMarking(p)
    <2>1. pc[p] \in NeedsInstance
      BY <1>5 DEF TransitionMark, TransitionMarking, NodeRead, NodeWrite, NeedsInstance
    <2> QED
      BY <1>5, <2>1, NodeReadKeeps
         DEF TransitionMark, TransitionMarking, NodeRead, NodeWrite, stores, locals
  <1> QED
    BY <1>1, <1>2, <1>3, <1>4, <1>5 DEF TransitionRequests

LEMMA CancelAndReleaseKeeps ==
  ASSUME Inv, IdInv, NEW p \in Procs, CancelAndRelease(p)
  PROVE  IdInv' /\ IdentityStep
  <1> USE DEF At
  <1>1. CASE CancelGet(p)
    <2>1. CASE MayCancel(p) /\ CancelGet(p)
      <3>1. instances[req[p].inst] \in Records /\ instances[req[p].inst] \in Instance
        BY <2>1 DEF MayCancel, Visible, Records, Inv, StoresOK, IsStore
      <3>2. \E y \in Records : Identity(Cancelled(instances[req[p].inst])) = Identity(y)
        BY <3>1, SameIdentity
      <3> QED
        BY <2>1, <3>2, CopyTaken DEF CancelGet, ReadInstance, stores
    <2>2. CASE ~MayCancel(p) /\ CancelGet(p)
      BY <2>2, NodeReadKeeps DEF CancelGet, stores, NeedsInstance
    <2> QED
      BY <1>1, <2>1, <2>2
  <1>2. CASE CancelSave(p)
    BY <1>2, SaveKeeps DEF CancelSave, NeedsInstance
  <1>3. CASE Release(p) \/ Clear(p)
    <2>1. pc[p] \in NeedsInstance
      BY <1>3 DEF Release, Clear, NodeRead, NeedsInstance
    <2> QED
      BY <1>3, <2>1, NodeReadKeeps DEF Release, Clear, NodeRead, stores
  <1>4. CASE Releasing(p) \/ Clearing(p)
    <2>1. pc[p] \in NeedsInstance
      BY <1>4 DEF Releasing, Clearing, NodeWrite, NeedsInstance
    <2> QED
      BY <1>4, <2>1, NodeReadKeeps DEF Releasing, Clearing, NodeWrite, locals
  <1> QED
    BY <1>1, <1>2, <1>3, <1>4 DEF CancelAndRelease

LEMMA NodeRequestsKeep ==
  ASSUME Inv, IdInv, NEW p \in Procs, NodeRequests(p)
  PROVE  IdInv' /\ IdentityStep
  <1> USE DEF At
  <1>1. CASE EditGet(p)
    <2>1. CASE MayEdit(p) /\ EditGet(p)
      <3>1. instances[req[p].inst] \in Records
        BY <2>1 DEF MayEdit, Visible, Records
      <3> QED
        BY <2>1, <3>1, CopyTaken DEF EditGet, ReadInstance, stores
    <2>2. CASE ~MayEdit(p) /\ EditGet(p)
      BY <2>2, NodeReadKeeps DEF EditGet, stores, NeedsInstance
    <2> QED
      BY <1>1, <2>1, <2>2
  <1>2. CASE Update(p) \/ Lock(p) \/ Unlock(p) \/ Delete(p)
    <2>1. {"updating", "locking", "unlocking", "deleting", "error"} \cap NeedsInstance = {}
      BY DEF NeedsInstance
    <2> QED
      BY <1>2, <2>1, NodeReadKeeps DEF Update, Lock, Unlock, Delete, NodeRead, stores
  <1>3. CASE Updating(p) \/ Locking(p) \/ Unlocking(p) \/ Deleting(p)
    <2>1. {"ok", "error"} \cap NeedsInstance = {}
      BY DEF NeedsInstance
    <2>2. \A at \in {"updating", "locking", "unlocking"} : OnFailure(at) = "error"
      BY DEF OnFailure
    <2> QED
      BY <1>3, <2>1, <2>2, NodeReadKeeps
         DEF Updating, Locking, Unlocking, Deleting, NodeWrite, locals
  <1> QED
    BY <1>1, <1>2, <1>3 DEF NodeRequests

LEMMA OthersKeep ==
  ASSUME Inv, IdInv, NEW p \in Procs,
         DeleteInstance(p) \/ DefinitionRequests(p) \/ WriteFails(p) \/ Issue(p) \/ Reply(p)
  PROVE  IdInv' /\ IdentityStep
  <1> USE DEF At
  <1>1. CASE DeleteInstance(p)
    <2>1. {"ok", "error"} \cap NeedsInstance = {}
      BY DEF NeedsInstance
    <2> QED
      BY <1>1, <2>1, RemoveKeeps, NodeReadKeeps DEF DeleteInstance, locals
  <1>2. CASE DefinitionRequests(p)
    <2>1. {"ok", "error", "putDefinition.update", "putDefinition.save",
           "deleteDefinition.delete"} \cap NeedsInstance = {}
      BY DEF NeedsInstance
    <2> QED
      BY <1>2, <2>1, NodeReadKeeps
         DEF DefinitionRequests, PutDefinition, PutDefinitionUpdate, PutDefinitionSave,
             DeleteDefinition, DeleteDefinitionDelete, Decide, stores, locals
  <1>3. CASE WriteFails(p)
    <2>1. OnFailure(pc[p]) \in NeedsInstance => pc[p] \in NeedsInstance
      BY DEF OnFailure, NeedsInstance
    <2> QED
      BY <1>3, <2>1, NodeReadKeeps DEF WriteFails, stores, locals
  <1>4. CASE Issue(p)
    <2>1. PICK r \in Requests : Goto(p, r.op)
      BY <1>4 DEF Issue
    <2>2. r.op \notin NeedsInstance
      BY RequestFields
    <2> QED
      BY <1>4, <2>1, <2>2, NodeReadKeeps DEF Issue, stores
  <1>5. CASE Reply(p)
    <2>1. "idle" \notin NeedsInstance
      BY DEF NeedsInstance
    <2>2. CopiesKept
      BY <1>5, <2>1 DEF Reply, Goto, Inv, LocalsOK, CopiesKept
    <2> QED
      BY <1>5, <2>2, NothingStored DEF Reply, stores
  <1> QED
    BY <1>1, <1>2, <1>3, <1>4, <1>5

----------------------------------------------------------------------------
LEMMA InitIdentity == Init => IdInv
  BY DEF Init, IdInv, Records, Held, NeedsInstance

LEMMA NextIdentity == Inv /\ IdInv /\ [Next]_vars => IdInv' /\ IdentityStep
  <1> SUFFICES ASSUME Inv, IdInv, [Next]_vars PROVE IdInv' /\ IdentityStep
    OBVIOUS
  <1>1. CASE UNCHANGED vars
    <2>1. CopiesKept
      BY <1>1 DEF vars, CopiesKept
    <2> QED
      BY <1>1, <2>1, NothingStored DEF vars
  <1>2. CASE Crash
    <2>1. CopiesKept
      BY <1>2 DEF Crash, CopiesKept, NeedsInstance
    <2> QED
      BY <1>2, <2>1, NothingStored DEF Crash, stores
  <1>3. ASSUME NEW p \in Procs, Issue(p) \/ Handle(p) PROVE IdInv' /\ IdentityStep
    BY <1>3, StartKeeps, TransitionKeeps, CancelAndReleaseKeeps, NodeRequestsKeep, OthersKeep
       DEF Handle
  <1> QED
    BY <1>1, <1>2, <1>3 DEF Next

\* While an instance is stored, its uuid, node, definition, snapshot,
\* participants and owner stay as they were at the start, however handlers
\* interleave, fail or are lost (saves of whole records by transition and
\* cancelWorkflow).
THEOREM IdentityStaysFixed == Spec => IdentityIsFixed
  <1>1. Inv /\ IdInv /\ [Next]_vars
          => [\A i \in DOMAIN instances \cap DOMAIN instances' :
                Identity(instances'[i]) = Identity(instances[i])]_vars
    BY NextIdentity DEF IdentityStep
  <1> QED
    BY <1>1, InitInv, NextInv, InitIdentity, NextIdentity, PTL DEF Spec, IdentityIsFixed
=============================================================================

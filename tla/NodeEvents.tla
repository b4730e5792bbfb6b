----------------------------- MODULE NodeEvents -----------------------------
(***************************************************************************)
(* What follows a change of a node: NodeService publishes an event, the    *)
(* bus delivers it later, and its handlers go on by themselves.  The       *)
(* ParentFolderUpdateHandler reads the folder the node is in and writes it *)
(* back with a new time; the AuditLoggingService appends the event to the  *)
(* log of changes.  Nobody waits for either.                               *)
(*                                                                         *)
(* One access to the repository is one step.  Time is the number of        *)
(* changes so far; `modified' is kept for folders only, and a title stands *)
(* for all that users write in a record.                                   *)
(***************************************************************************)
EXTENDS Naturals, Sequences, FiniteSets, SequencesExt

CONSTANTS
    EventNodes,    \* uuids, the root folder's excepted
    EventFolders,  \* those of folders
    TopFolder,     \* Nodes.ROOT_FOLDER_UUID: built in, no record
    EventTree,     \* the nodes at the start: uuid -> [parent, title]
    Creations,     \* what users ask: the nodes created, [node, parent]
    Changes,       \* ... and changed, [node, change]
    NewTitle,
    MimetypeOf,    \* uuid -> the mimetype of its node
    OctetStream,   \* "application/octet-stream"
    Editors,
    MaxUpdates,    \* bound: changes in all
    MaxLosses,     \* bound: writes that fail, and restarts
    Gone, NoEdit

FolderUuids == EventFolders \cup {TopFolder}
NodeTitles == {NewTitle} \cup {EventTree[n].title : n \in DOMAIN EventTree}
            \cup {r.change.to : r \in {r \in Changes : r.change.op = "rename"}}
\* A record, as far as it matters here.
NodeStates == [parent : FolderUuids, title : NodeTitles, modified : Nat]

ASSUME EventAssumption ==
    /\ EventFolders \subseteq EventNodes /\ TopFolder \notin EventNodes
    /\ DOMAIN EventTree \subseteq EventNodes /\ \A n \in DOMAIN EventTree : EventTree[n].parent \in FolderUuids
    /\ \A r \in Creations : r.node \in EventNodes
    /\ \A r \in Changes : /\ r.node \in EventNodes
                          /\ r.change.op = "move" => r.change.to \in FolderUuids
    /\ Gone # NoEdit /\ Gone \notin NodeStates /\ {Gone, NoEdit} \cap NodeTitles = {}
    /\ MaxUpdates \in Nat /\ OctetStream \notin {MimetypeOf[f] : f \in EventFolders}

VARIABLES
    kept,      \* uuid -> [parent, title, modified], or Gone
    upserts,   \* whether the repository's update adds a record that is not there
    bus,       \* the events published and not yet delivered, in order
    touches,   \* the handlers of folders at work: [event, left, at, copy]
    log,       \* [event, stream]: the mimetype the stream is filed under
    edits,     \* editor -> its update or deletion: [node, change, at, copy]
    now,       \* the changes so far
    losses,    \* the faults so far
    changed,   \* history: folder -> the time of the last change in it
    told,      \* history: uuid -> the last title reported as saved, or Gone
    mixed,     \* history: nodes of which a copy was written over a later change
    astray,    \* history: folders that lost a node to a copy of before its move,
               \* or were changed by an event that did not name them
    missed     \* history: the events a handler or the log lost

eventsVars == <<kept, upserts, bus, touches, log, edits, now, losses,
                changed, told, mixed, astray, missed>>

In(uuid) == uuid \in {n \in EventNodes : kept[n] # Gone}
\* The folders an event is about.
Parents(event) == ToSet(event.parents)

\* A change is made at the next moment; it is one in each of the folders.
ChangeIn(folders) ==
    /\ now < MaxUpdates /\ now' = now + 1
    /\ changed' = [f \in EventFolders |-> IF f \in folders THEN now + 1 ELSE changed[f]]
Event(kind, uuid, parents) == [kind |-> kind, node |-> uuid, parents |-> parents, at |-> now + 1]
Announce(event) == bus' = Append(bus, event)

\* For the properties: a record is written over with a copy read before its
\* last change, or is written while others hold a copy of it.
Overlap(uuid, editors, handlers) ==
    IF \/ \E e \in editors : edits[e] # NoEdit /\ edits[e].node = uuid /\ edits[e].at = "write"
       \/ \E t \in handlers : t.at = "write" /\ Head(t.left) = uuid
    THEN {uuid} ELSE {}
\* The folder a node is in.
Around(uuid) == IF In(uuid) THEN {kept[uuid].parent} ELSE {}
\* The copy is of before a move: what names its folder misses the node's.
Astray(uuid, copy, folders) == IF In(uuid) /\ kept[uuid].parent = copy.parent THEN {} ELSE folders

----------------------------------------------------------------------------

(* What users ask of NodeService. *)

CreateNode(uuid, parent) ==
    /\ kept[uuid] = Gone /\ told[uuid] = NoEdit
    /\ parent \in {TopFolder} \cup {f \in EventFolders : In(f)}
    /\ ChangeIn({parent})
    /\ kept' = [kept EXCEPT ![uuid] = [parent |-> parent, title |-> NewTitle, modified |-> now + 1]]
    /\ told' = [told EXCEPT ![uuid] = NewTitle]
    /\ Announce(Event("created", uuid, <<parent>>))
    /\ UNCHANGED <<upserts, touches, log, edits, losses, mixed, astray, missed>>

\* update and delete read the node first.
BeginEdit(e, uuid, change) ==
    /\ edits[e] = NoEdit /\ In(uuid)
    /\ now + Cardinality({d \in Editors : edits[d] # NoEdit}) < MaxUpdates
    /\ edits' = [edits EXCEPT ![e] = [node |-> uuid, change |-> change, at |-> "write", copy |-> kept[uuid]]]
    /\ UNCHANGED <<kept, upserts, bus, touches, log, now, losses, changed, told, mixed, astray, missed>>

\* The record a handler writes: its copy, at the time of writing.
Edited(copy, change) ==
    [parent |-> IF change.op = "move" THEN change.to ELSE copy.parent,
     title |-> IF change.op = "rename" THEN change.to ELSE copy.title, modified |-> now + 1]
\* The folders the event names: an update that names none is looked up later.
Named(copy, change) == IF change.op = "move" /\ change.to # copy.parent THEN <<copy.parent, change.to>> ELSE <<>>

\* repository.update
Updatable(uuid) == In(uuid) \/ upserts
EditOver(e) == edits' = [edits EXCEPT ![e] = NoEdit]
UpdateNode(e) ==
    /\ edits[e] # NoEdit /\ edits[e].change.op \in {"rename", "move"}
    /\ LET q == edits[e]
           record == Edited(q.copy, q.change)
           folders == Around(q.node) \cup {record.parent} IN
         IF Updatable(q.node)
         THEN /\ ChangeIn(folders)
              /\ kept' = [kept EXCEPT ![q.node] = record]
              /\ told' = [told EXCEPT ![q.node] = record.title]
              /\ mixed' = mixed \cup Overlap(q.node, Editors \ {e}, touches)
              /\ astray' = astray \cup Astray(q.node, q.copy, folders)
              /\ Announce(Event("updated", q.node, Named(q.copy, q.change)))
         ELSE UNCHANGED <<kept, now, changed, told, mixed, astray, bus>>
    /\ EditOver(e)
    /\ UNCHANGED <<upserts, touches, log, losses, missed>>

\* A folder goes with its children: here, when it has none (see FolderTree).
\* The event carries the record as it was read.
DeleteNode(e) ==
    /\ edits[e] # NoEdit /\ edits[e].change.op = "delete"
    /\ LET q == edits[e] IN
         IF In(q.node)
         THEN /\ \A k \in EventNodes : In(k) => kept[k].parent # q.node
              /\ ChangeIn({kept[q.node].parent})
              /\ kept' = [kept EXCEPT ![q.node] = Gone]
              /\ told' = [told EXCEPT ![q.node] = Gone]
              /\ mixed' = mixed \cup Overlap(q.node, Editors \ {e}, touches)
              /\ astray' = astray \cup Astray(q.node, q.copy, {kept[q.node].parent})
              /\ Announce(Event("deleted", q.node, <<q.copy.parent>>))
         ELSE UNCHANGED <<kept, now, changed, told, mixed, astray, bus>>
    /\ EditOver(e)
    /\ UNCHANGED <<upserts, touches, log, losses, missed>>

----------------------------------------------------------------------------

(* The bus and its two handlers. *)

\* Variant: the mimetype of creations only.
StreamOfCreated(event) == IF event.kind = "created" THEN MimetypeOf[event.node] ELSE OctetStream
\* The changes of an update seldom name the mimetype.
Stream(event) == IF event.kind = "updated" THEN OctetStream ELSE MimetypeOf[event.node]
Lose(events) == losses < MaxLosses /\ losses' = losses + 1 /\ missed' = missed \cup events

Touch(event) == [event |-> event, left |-> event.parents, copy |-> Gone,
                 at |-> IF event.parents = <<>> THEN "whose" ELSE "read"]
\* When the append ends makes no difference here (see EventStores).
Deliver ==
    /\ bus # <<>>
    /\ bus' = Tail(bus)
    /\ touches' = touches \cup {Touch(Head(bus))}
    /\ \/ log' = log \cup {[event |-> Head(bus), stream |-> Stream(Head(bus))]} /\ UNCHANGED <<losses, missed>>
       \/ Lose({Head(bus)}) /\ UNCHANGED log
    /\ UNCHANGED <<kept, upserts, edits, now, changed, told, mixed, astray>>

Becomes(t, u) == touches' = (touches \ {t}) \cup {u}
\* The next folder, or the end.
NextFolder(t) == IF Len(t.left) = 1 THEN touches' = touches \ {t}
              ELSE Becomes(t, [t EXCEPT !.left = Tail(@), !.at = "read", !.copy = Gone])
\* Of an update: the folder the node is in by now.
FindFolder(t) ==
    /\ t.at = "whose"
    /\ IF In(t.event.node) THEN Becomes(t, [t EXCEPT !.left = <<kept[t.event.node].parent>>, !.at = "read"])
       ELSE touches' = touches \ {t}
    /\ UNCHANGED <<kept, upserts, bus, log, edits, now, losses, changed, told, mixed, astray, missed>>
\* Variant: with the time of the event.
StampedAsPublished(t, record) == [record EXCEPT !.modified = t.event.at]
\* The copy is stamped when it is read.
Stamped(t, record) == [record EXCEPT !.modified = now]
ReadFolder(t) ==
    /\ t.at = "read"
    /\ LET f == Head(t.left) IN
         IF f = TopFolder \/ ~In(f) THEN NextFolder(t)
         ELSE Becomes(t, [t EXCEPT !.at = "write", !.copy = Stamped(t, kept[f])])
    /\ UNCHANGED <<kept, upserts, bus, log, edits, now, losses, changed, told, mixed, astray, missed>>
Touchable(f) == Updatable(f)
\* The whole record is written; it is no change, and no event follows.
WriteFolder(t) ==
    /\ t.at = "write"
    /\ LET f == Head(t.left) IN
         /\ IF Touchable(f)
            THEN /\ kept' = [kept EXCEPT ![f] = t.copy]
                 /\ mixed' = mixed \cup Overlap(f, Editors, touches \ {t})
                 /\ astray' = astray \cup Astray(f, t.copy, Around(f))
            ELSE UNCHANGED <<kept, mixed, astray>>
         /\ NextFolder(t)
    /\ UNCHANGED <<upserts, bus, log, edits, now, losses, changed, told, missed>>

\* The write fails: an entry in the server's log, and the next folder.
TouchFails(t) ==
    /\ t.at = "write"
    /\ Lose({t.event}) /\ NextFolder(t)
    /\ UNCHANGED <<kept, upserts, bus, log, edits, now, changed, told, mixed, astray>>

----------------------------------------------------------------------------

(* A restart, and the reading of the log. *)

\* The process stops, and with it the bus and every handler.
RestartAll ==
    /\ Lose(ToSet(bus) \cup {t.event : t \in touches})
    /\ bus' = <<>> /\ touches' = {}
    /\ edits' = [e \in Editors |-> NoEdit]
    /\ UNCHANGED <<kept, upserts, log, now, changed, told, mixed, astray>>

\* getDeleted
ListedAsDeleted(mimetype) ==
    {r.event.node : r \in {r \in log : r.stream = mimetype /\ r.event.kind = "deleted"}}

----------------------------------------------------------------------------

NodeEventsInit ==
    /\ kept = [n \in EventNodes |-> IF n \in DOMAIN EventTree
                  THEN [parent |-> EventTree[n].parent, title |-> EventTree[n].title, modified |-> 0] ELSE Gone]
    /\ upserts \in BOOLEAN
    /\ bus = <<>> /\ touches = {} /\ log = {}
    /\ edits = [e \in Editors |-> NoEdit]
    /\ now = 0 /\ losses = 0
    /\ changed = [f \in EventFolders |-> 0]
    /\ told = [n \in EventNodes |-> IF n \in DOMAIN EventTree THEN EventTree[n].title ELSE NoEdit]
    /\ mixed = {} /\ astray = {} /\ missed = {}

NodeEventsNext ==
    \/ \E r \in Creations : CreateNode(r.node, r.parent)
    \/ \E e \in Editors :
         \/ \E r \in Changes : BeginEdit(e, r.node, r.change)
         \/ UpdateNode(e) \/ DeleteNode(e)
    \/ Deliver
    \/ \E t \in touches : FindFolder(t) \/ ReadFolder(t) \/ WriteFolder(t) \/ TouchFails(t)
    \/ RestartAll

NodeEventsSpec == NodeEventsInit /\ [][NodeEventsNext]_eventsVars

----------------------------------------------------------------------------

AllHandled == bus = <<>> /\ touches = {}

\* When all handlers are done, a folder is as new as the last change in it:
\* unless the handler of a change in it was lost, or copies of it, or of a
\* node in it, were written over one another.
FoldersAreTouched ==
    AllHandled => \A f \in EventFolders :
      \/ ~In(f) \/ f \in mixed \cup astray
      \/ \E event \in missed : event.parents = <<>> \/ f \in Parents(event)
      \/ kept[f].modified >= changed[f]

\* Once the log is written, the nodes listed as deleted are those a user
\* deleted, each under its mimetype, except for events that were lost.
DeletedAreListed ==
    AllHandled => \A n \in EventNodes :
      \/ \E event \in missed : event.kind = "deleted" /\ event.node = n
      \/ n \in mixed /\ upserts
      \/ n \in ListedAsDeleted(MimetypeOf[n]) <=> told[n] = Gone
=============================================================================

------------------------------ MODULE RagIndex ------------------------------
(***************************************************************************)
(* RAGService keeps an index of nodes for search by meaning.  For each     *)
(* event of a node a handler reads what it needs of the node, asks the     *)
(* provider for an embedding and stores it with the text it was made of.   *)
(* The bus starts the handlers in the order of the events and nobody waits *)
(* for them: those of one node may finish in another order.                *)
(*                                                                         *)
(* A text is the version of the metadata and that of the file's bytes it   *)
(* was made of.  A folder's has no bytes, nor has that of a file whose     *)
(* record says that it is empty: an update that names no size sets it to   *)
(* zero (node_service.ts:712-721), whatever bytes are stored.              *)
(***************************************************************************)
EXTENDS Naturals, FiniteSets

CONSTANTS
    RagNodes, RagFolders,   \* uuids, those of folders
    MaxRagEvents,           \* bound
    NotThere, NotIndexed, NoBytes

\* A node that is not there is no version of one.
ASSUME RagAssumption == NotThere \notin [meta : Nat, bytes : Nat \cup {NoBytes}, sized : BOOLEAN]

VARIABLES
    docs,      \* uuid -> [meta, bytes, sized]: the versions stored, and whether
               \* the record has a size above zero; or NotThere
    index,     \* uuid -> the text of its embedding, or NotIndexed
    indexers,  \* the handlers at work: [event, uuid, at, meta, bytes, sized]
    ragEvents, \* events so far
    last,      \* history: uuid -> the event of the last change
    stored,    \* history: uuid -> the event of the last embedding stored
    written    \* history: the files whose bytes were written after their last event

ragVars == <<docs, index, indexers, ragEvents, last, stored, written>>

DocText(meta, bytes) == [meta |-> meta, bytes |-> bytes]
FirstBytes(uuid) == IF uuid \in RagFolders THEN NoBytes ELSE 0

Sizes(uuid) == IF uuid \in RagFolders THEN {FALSE} ELSE BOOLEAN
Indexable(doc) == DocText(doc.meta, IF doc.sized THEN doc.bytes ELSE NoBytes)

\* A change publishes an event, whose handler starts.
PublishDoc(uuid, doc, at) ==
    /\ ragEvents < MaxRagEvents /\ ragEvents' = ragEvents + 1
    /\ docs' = [docs EXCEPT ![uuid] = doc]
    /\ last' = [last EXCEPT ![uuid] = ragEvents + 1]
    /\ written' = written \ {uuid}
    /\ indexers' = indexers \cup
         {[event |-> ragEvents + 1, uuid |-> uuid, at |-> at, bytes |-> NoBytes,
           meta |-> IF doc = NotThere THEN 0 ELSE doc.meta,
           sized |-> IF doc = NotThere THEN FALSE ELSE doc.sized]}
    /\ UNCHANGED stored

\* The handler of a creation uses the metadata of the event.
CreateDoc(uuid) ==
    /\ docs[uuid] = NotThere /\ last[uuid] = 0
    /\ \E sized \in Sizes(uuid) :
         PublishDoc(uuid, [meta |-> 0, bytes |-> FirstBytes(uuid), sized |-> sized], "export")
    /\ UNCHANGED index
\* updateFile writes the bytes, and then updates the record, which may be refused.
WriteBytes(uuid) ==
    /\ docs[uuid] # NotThere /\ uuid \notin RagFolders
    /\ docs[uuid].bytes < MaxRagEvents
    /\ docs' = [docs EXCEPT ![uuid].bytes = @ + 1]
    /\ written' = written \cup {uuid}
    /\ UNCHANGED <<index, indexers, ragEvents, last, stored>>
\* An update, with a size or without.
UpdateDoc(uuid) ==
    /\ docs[uuid] # NotThere
    /\ \E sized \in Sizes(uuid) :
         PublishDoc(uuid, [meta |-> docs[uuid].meta + 1, bytes |-> docs[uuid].bytes,
                           sized |-> sized], "get")
    /\ UNCHANGED index
\* The embedding is part of the node's record and goes with it.
DeleteDoc(uuid) ==
    /\ docs[uuid] # NotThere
    /\ PublishDoc(uuid, NotThere, "delete")
    /\ index' = [index EXCEPT ![uuid] = NotIndexed]

----------------------------------------------------------------------------

IndexerStep(x, y) == indexers' = (indexers \ {x}) \cup {y}
GiveUp(x) == indexers' = indexers \ {x}

\* #handleNodeUpdated reads the node as it is now, unless it cannot.
GetDoc(x) ==
    /\ x.at = "get"
    /\ \/ GiveUp(x)
       \/ /\ docs[x.uuid] # NotThere
          /\ IndexerStep(x, [x EXCEPT !.at = "export", !.meta = docs[x.uuid].meta,
                                     !.sized = docs[x.uuid].sized])
    /\ UNCHANGED <<docs, index, ragEvents, last, stored, written>>

\* Variant: the bytes of creations only.
BytesOnceOnly(x) == IF docs[x.uuid] = NotThere \/ x.meta > 0 THEN NoBytes ELSE docs[x.uuid].bytes
\* A file with a size is exported, and its text recognised: without them the
\* metadata alone are indexed.
Bytes(x) == IF docs[x.uuid] = NotThere THEN NoBytes ELSE docs[x.uuid].bytes
Export(x) ==
    /\ x.at = "export"
    /\ \/ x.sized /\ IndexerStep(x, [x EXCEPT !.at = "store", !.bytes = Bytes(x)])
       \/ ~x.sized /\ IndexerStep(x, [x EXCEPT !.at = "store", !.bytes = NoBytes])
       \/ \* export or OCR fails
          x.sized /\ IndexerStep(x, [x EXCEPT !.at = "fallback", !.bytes = NoBytes])
    /\ UNCHANGED <<docs, index, ragEvents, last, stored, written>>

\* embed and upsertEmbedding; the latter changes nothing without the node.
Store(x) ==
    /\ x.at \in {"store", "fallback"}
    /\ GiveUp(x)
    /\ IF docs[x.uuid] = NotThere THEN UNCHANGED <<index, stored>>
       ELSE /\ index' = [index EXCEPT ![x.uuid] = DocText(x.meta, x.bytes)]
            /\ stored' = [stored EXCEPT ![x.uuid] = IF x.at = "store" THEN x.event ELSE 0]
    /\ UNCHANGED <<docs, ragEvents, last, written>>

\* The provider or the repository fails: the node stays as it was indexed.
FailToStore(x) ==
    /\ x.at \in {"store", "fallback"} /\ GiveUp(x)
    /\ UNCHANGED <<docs, index, ragEvents, last, stored, written>>

DeleteIndexed(x) ==
    /\ x.at = "delete" /\ GiveUp(x)
    /\ index' = [index EXCEPT ![x.uuid] = NotIndexed]
    /\ UNCHANGED <<docs, ragEvents, last, stored, written>>

----------------------------------------------------------------------------

RagInit ==
    /\ docs = [u \in RagNodes |-> NotThere] /\ index = [u \in RagNodes |-> NotIndexed]
    /\ indexers = {} /\ ragEvents = 0
    /\ last = [u \in RagNodes |-> 0] /\ stored = [u \in RagNodes |-> 0]
    /\ written = {}

RagNext ==
    \/ \E u \in RagNodes : CreateDoc(u) \/ WriteBytes(u) \/ UpdateDoc(u) \/ DeleteDoc(u)
    \/ \E x \in indexers : GetDoc(x) \/ Export(x) \/ Store(x) \/ FailToStore(x) \/ DeleteIndexed(x)

RagSpec == RagInit /\ [][RagNext]_ragVars

----------------------------------------------------------------------------

(* Properties. *)

\* Whatever the handlers of a node do and in whatever order they finish: a
\* deleted node is not found by its meaning, even by way of a handler that
\* ends after the deletion (rag_service.ts:174-176, 224-236), and an
\* embedding that was stored last for the node's last change was made of the
\* node's metadata and, where they have a size, its bytes, whatever older
\* handlers read meanwhile (147-197).  Bytes that were written since, by an
\* updateFile that has not updated the record or was refused, are excepted.
IndexFollowsNodes ==
    \A u \in RagNodes :
      IF docs[u] = NotThere THEN index[u] = NotIndexed
      ELSE stored[u] = last[u] /\ u \notin written => index[u] = Indexable(docs[u])
=============================================================================

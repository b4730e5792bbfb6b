-------------------------- MODULE FollowersProofs --------------------------
(***************************************************************************)
(* What follows a change of a node, for any number of nodes, events and    *)
(* handlers: the index of meanings (RagIndex), the parent folders and the  *)
(* log of changes (NodeEvents), and the features that changes run          *)
(* (FeaturesEngine).  Nobody waits for a handler, so what is wanted in the *)
(* end is in the invariants an account of who still has it to do.          *)
(*                                                                         *)
(* The index: what a handler will store is already in its hands.           *)
(* HeldIsCurrent says that the handler of a node's last change, and no     *)
(* other, holds the node as it is, which no change can break, for a change *)
(* makes a newer handler the last.                                         *)
(*                                                                         *)
(* Folders: Covered(f) says that a folder is new, or that an event on the  *)
(* bus names it, or that a handler will touch it, with a copy that is new  *)
(* enough.  Steps that take this away leave an excuse, Excused(f).         *)
(* The log: DeletionKnown(n) counts the deletions still on the bus with    *)
(* those in the log, and has nobody hold a copy of what was deleted.       *)
(*                                                                         *)
(* Features: OnTrack(j) says that what a handler has run and what it has   *)
(* left of its list are together what its event calls for.                 *)
(***************************************************************************)
EXTENDS NodeEvents, RagIndex, FeaturesEngine, FiniteSetTheorems, SequenceTheorems, TLAPS

----------------------------------------------------------------------------

(* The index of meanings. *)

Docs == [meta : Nat, bytes : Nat \cup {NoBytes}, sized : BOOLEAN]
Texts == [meta : Nat, bytes : Nat \cup {NoBytes}]
Steps == {"get", "export", "store", "fallback", "delete"}
Indexers == [event : Nat \ {0}, uuid : RagNodes, at : Steps, meta : Nat, bytes : Nat \cup {NoBytes},
             sized : BOOLEAN]

RagTypes ==
    /\ docs \in [RagNodes -> Docs \cup {NotThere}]
    /\ \A u \in RagNodes \ RagFolders : docs[u] # NotThere => docs[u].bytes \in Nat
    /\ index \in [RagNodes -> Texts \cup {NotIndexed}]
    /\ indexers \subseteq Indexers
    /\ ragEvents \in Nat
    /\ last \in [RagNodes -> Nat]
    /\ stored \in [RagNodes -> Nat]

\* No event is newer than the count of them; a node that is there has one, and
\* one that was deleted had one and is not created again.
Numbered ==
    /\ \A u \in RagNodes :
          /\ last[u] <= ragEvents /\ stored[u] <= ragEvents
          /\ docs[u] # NotThere => last[u] # 0
    /\ \A x \in indexers :
          /\ x.event <= ragEvents
          /\ x.at = "delete" => docs[x.uuid] = NotThere /\ last[x.uuid] # 0

\* What the handler of the last change of a node holds is the node.
HeldIsCurrent ==
    \A x \in indexers :
        (docs[x.uuid] # NotThere /\ x.event = last[x.uuid]) =>
            /\ x.at \in {"export", "store"} => x.meta = docs[x.uuid].meta
            /\ x.at = "export" => x.sized = docs[x.uuid].sized
            /\ x.at = "store" /\ x.uuid \notin written => x.bytes = Indexable(docs[x.uuid]).bytes

RagInv == RagTypes /\ Numbered /\ HeldIsCurrent /\ IndexFollowsNodes

----------------------------------------------------------------------------

\* What is indexed of a document is a text of its metadata.
LEMMA IndexableIs ==
  \A d \in Docs : /\ Indexable(d) \in Texts /\ Indexable(d).meta = d.meta
                 /\ Indexable(d) = DocText(d.meta, Indexable(d).bytes)
  BY DEF Docs, Texts, DocText, Indexable

LEMMA RagInitial == RagInit => RagInv
  BY DEF RagInit, RagInv, RagTypes, Numbered, HeldIsCurrent, IndexFollowsNodes

\* A change numbers itself above all that was, so that no handler before it is
\* the last; the one it starts holds the metadata of the change, if any.
LEMMA PublishKeeps ==
  ASSUME RagInv, NEW u \in RagNodes, NEW doc \in Docs \cup {NotThere}, NEW at \in {"get", "export", "delete"},
         u \notin RagFolders /\ doc # NotThere => doc.bytes \in Nat,
         at = "delete" => doc = NotThere,
         \A x \in indexers : x.uuid = u => x.at # "delete",
         PublishDoc(u, doc, at),
         index' = IF doc = NotThere THEN [index EXCEPT ![u] = NotIndexed] ELSE index
  PROVE  RagInv'
<1> DEFINE n == [event |-> ragEvents + 1, uuid |-> u, at |-> at,
                 bytes |-> NoBytes,
                 meta |-> IF doc = NotThere THEN 0 ELSE doc.meta,
                 sized |-> IF doc = NotThere THEN FALSE ELSE doc.sized]
<1> USE DEF RagInv
<1>1. n \in Indexers
  <2>1. (IF doc = NotThere THEN FALSE ELSE doc.sized) \in BOOLEAN
    BY DEF Docs
  <2>2. (IF doc = NotThere THEN 0 ELSE doc.meta) \in Nat /\ ragEvents + 1 \in Nat \ {0}
    BY DEF Docs, RagTypes
  <2> QED
    BY <2>1, <2>2, Zenon DEF Indexers, Steps
<1>2. indexers' = indexers \cup {n} /\ last' = [last EXCEPT ![u] = ragEvents + 1]
      /\ docs' = [docs EXCEPT ![u] = doc] /\ ragEvents' = ragEvents + 1 /\ stored' = stored
      /\ written' = written \ {u}
  BY DEF PublishDoc
<1> HIDE DEF n
<1>3. RagTypes'
  BY <1>1, <1>2 DEF RagTypes
<1>4. Numbered'
  <2>1. \A v \in RagNodes : last'[v] <= ragEvents' /\ stored'[v] <= ragEvents'
                            /\ (docs'[v] # NotThere => last'[v] # 0)
    BY <1>2 DEF RagTypes, Numbered
  <2>2. ASSUME NEW x \in indexers
        PROVE  x.event <= ragEvents' /\ (x.at = "delete" => docs'[x.uuid] = NotThere /\ last'[x.uuid] # 0)
    BY <1>2 DEF RagTypes, Numbered, Indexers
  <2>3. n.event <= ragEvents' /\ (n.at = "delete" => docs'[n.uuid] = NotThere /\ last'[n.uuid] # 0)
    BY <1>2 DEF n, RagTypes
  <2> QED
    BY <1>2, <2>1, <2>2, <2>3 DEF Numbered
<1>5. HeldIsCurrent'
  <2>1. ASSUME NEW x \in indexers, docs'[x.uuid] # NotThere, x.event = last'[x.uuid]
        PROVE  /\ x.at \in {"export", "store"} => x.meta = docs'[x.uuid].meta
               /\ x.at = "export" => x.sized = docs'[x.uuid].sized
               /\ x.at = "store" /\ x.uuid \notin written' => x.bytes = Indexable(docs'[x.uuid]).bytes
    <3>1. x.uuid \in RagNodes /\ x.event \in Nat /\ x.event <= ragEvents
      BY DEF RagTypes, Numbered, Indexers
    <3>2. x.uuid # u
      BY <1>2, <2>1, <3>1 DEF RagTypes
    <3> QED
      BY <1>2, <2>1, <3>1, <3>2 DEF RagTypes, HeldIsCurrent
  <2>2. docs'[n.uuid] # NotThere =>
           n.at # "store" /\ n.meta = docs'[n.uuid].meta /\ n.sized = docs'[n.uuid].sized
    BY <1>2 DEF n, RagTypes
  <2> QED
    BY <1>2, <2>1, <2>2 DEF HeldIsCurrent
<1>6. IndexFollowsNodes'
  BY <1>2 DEF RagTypes, Numbered, IndexFollowsNodes
<1> QED
  BY <1>3, <1>4, <1>5, <1>6

\* A handler that goes on, or ends, touches no node; what it carries on must
\* be as HeldIsCurrent says.
LEMMA HandlerKeeps ==
  ASSUME RagInv, NEW x \in indexers, NEW y \in Indexers,
         y.event = x.event, y.uuid = x.uuid, y.at # "delete",
         (docs[x.uuid] # NotThere /\ x.event = last[x.uuid]) =>
            /\ y.at \in {"export", "store"} => y.meta = docs[x.uuid].meta
            /\ y.at = "export" => y.sized = docs[x.uuid].sized
            /\ y.at = "store" /\ x.uuid \notin written => y.bytes = Indexable(docs[x.uuid]).bytes,
         indexers' \subseteq (indexers \ {x}) \cup {y},
         UNCHANGED <<docs, index, ragEvents, last, stored, written>>
  PROVE  RagInv'
<1> USE DEF RagInv
<1>1. RagTypes'
  BY DEF RagTypes
<1>2. Numbered'
  BY DEF Numbered
<1>3. HeldIsCurrent'
  BY DEF HeldIsCurrent
<1>4. IndexFollowsNodes'
  BY DEF IndexFollowsNodes
<1> QED
  BY <1>1, <1>2, <1>3, <1>4

\* An embedding is stored, of a node that is there: with the text of the last
\* change it is the node; without the bytes it is nobody's last.
LEMMA StoreKeeps ==
  ASSUME RagInv, NEW x \in indexers, Store(x) PROVE RagInv'
<1> USE DEF RagInv, Store
<1>1. x \in Indexers /\ indexers' = indexers \ {x} /\ UNCHANGED <<docs, ragEvents, last, written>>
  BY DEF RagTypes, GiveUp
<1>2. DocText(x.meta, x.bytes) \in Texts
  BY <1>1 DEF Indexers, Texts, DocText
<1>3. CASE docs[x.uuid] = NotThere
  <2>1. UNCHANGED <<index, stored>>
    BY <1>3
  <2> QED
    BY <1>1, <2>1 DEF RagTypes, Numbered, HeldIsCurrent, IndexFollowsNodes
<1>4. CASE docs[x.uuid] # NotThere
  <2>1. /\ index' = [index EXCEPT ![x.uuid] = DocText(x.meta, x.bytes)]
        /\ stored' = [stored EXCEPT ![x.uuid] = IF x.at = "store" THEN x.event ELSE 0]
    BY <1>4
  <2>2. RagTypes'
    BY <1>1, <1>2, <2>1 DEF RagTypes, Indexers
  <2>3. Numbered'
    BY <1>1, <2>1 DEF RagTypes, Numbered, Indexers
  <2>4. HeldIsCurrent'
    BY <1>1 DEF HeldIsCurrent
  <2>5. IndexFollowsNodes'
    <3> SUFFICES ASSUME NEW u \in RagNodes
                 PROVE  IF docs[u] = NotThere THEN index'[u] = NotIndexed
                        ELSE stored'[u] = last[u] /\ u \notin written => index'[u] = Indexable(docs[u])
      BY <1>1 DEF IndexFollowsNodes
    <3>1. CASE u # x.uuid
      BY <2>1, <3>1 DEF RagTypes, IndexFollowsNodes
    <3>2. CASE u = x.uuid
      <4>1. docs[u] \in Docs /\ index'[u] = DocText(x.meta, x.bytes)
        BY <1>4, <2>1, <3>2 DEF RagTypes
      <4>2. ASSUME stored'[u] = last[u]
            PROVE  x.at = "store" /\ x.event = last[u]
        BY <1>4, <2>1, <3>2, <4>2 DEF RagTypes, Numbered
      <4>3. ASSUME stored'[u] = last[u], u \notin written
            PROVE  DocText(x.meta, x.bytes) = Indexable(docs[u])
        <5>1. x.meta = docs[u].meta /\ x.bytes = Indexable(docs[u]).bytes
          BY <1>4, <3>2, <4>2, <4>3 DEF HeldIsCurrent
        <5> QED
          BY <4>1, <5>1, IndexableIs
      <4> QED
        BY <1>4, <3>2, <4>1, <4>3
    <3> QED
      BY <3>1, <3>2
  <2> QED
    BY <2>2, <2>3, <2>4, <2>5
<1> QED
  BY <1>3, <1>4

LEMMA RagStep == RagInv /\ [RagNext]_ragVars => RagInv'
<1> SUFFICES ASSUME RagInv, [RagNext]_ragVars PROVE RagInv'
  OBVIOUS
<1>1. ASSUME NEW u \in RagNodes, CreateDoc(u) PROVE RagInv'
  <2>1. PICK sized \in Sizes(u) :
           PublishDoc(u, [meta |-> 0, bytes |-> FirstBytes(u), sized |-> sized], "export")
    BY <1>1 DEF CreateDoc
  <2> DEFINE doc == [meta |-> 0, bytes |-> FirstBytes(u), sized |-> sized]
  <2>2. doc \in Docs /\ (u \notin RagFolders => doc.bytes \in Nat)
    BY DEF Sizes, FirstBytes, Docs
  <2>3. \A x \in indexers : x.uuid = u => x.at # "delete"
    BY <1>1 DEF CreateDoc, RagInv, Numbered
  <2>4. PublishDoc(u, doc, "export") /\ index' = index /\ docs[u] = NotThere
    BY <1>1, <2>1 DEF CreateDoc
  <2>5. index' = IF doc = NotThere THEN [index EXCEPT ![u] = NotIndexed] ELSE index
    BY <2>4 DEF RagInv, RagTypes, IndexFollowsNodes
  <2> HIDE DEF doc
  <2> QED
    BY <2>2, <2>3, <2>4, <2>5, PublishKeeps
<1>2. ASSUME NEW u \in RagNodes, UpdateDoc(u) PROVE RagInv'
  <2>1. docs[u] \in Docs /\ (u \notin RagFolders => docs[u].bytes \in Nat) /\ index' = index
    BY <1>2 DEF UpdateDoc, RagInv, RagTypes
  <2>2. PICK sized \in Sizes(u) :
           PublishDoc(u, [meta |-> docs[u].meta + 1, bytes |-> docs[u].bytes, sized |-> sized], "get")
    BY <1>2 DEF UpdateDoc
  <2> DEFINE doc == [meta |-> docs[u].meta + 1, bytes |-> docs[u].bytes, sized |-> sized]
  <2>3. doc \in Docs /\ (u \notin RagFolders => doc.bytes \in Nat)
    <3>1. docs[u].meta + 1 \in Nat /\ docs[u].bytes \in Nat \cup {NoBytes}
      BY <2>1 DEF Docs
    <3>2. sized \in BOOLEAN
      BY Zenon DEF Sizes
    <3>3. doc \in Docs
      BY <3>1, <3>2, Zenon DEF Docs
    <3> QED
      BY <2>1, <3>3
  <2>4. \A x \in indexers : x.uuid = u => x.at # "delete"
    BY <1>2 DEF UpdateDoc, RagInv, Numbered
  <2>5. doc # NotThere
    BY <2>3, RagAssumption DEF Docs
  <2>6. PublishDoc(u, doc, "get")
    BY <2>2
  <2> HIDE DEF doc
  <2> QED
    BY <2>1, <2>3, <2>4, <2>5, <2>6, PublishKeeps
<1>12. ASSUME NEW u \in RagNodes, WriteBytes(u) PROVE RagInv'
  <2>1. docs[u] \in Docs /\ docs[u] # NotThere /\ u \notin RagFolders /\ docs[u].bytes \in Nat
    BY <1>12 DEF WriteBytes, RagInv, RagTypes
  <2>2. PICK doc : doc = [docs[u] EXCEPT !.bytes = @ + 1]
    OBVIOUS
  <2>3. doc \in Docs /\ doc.bytes \in Nat /\ doc.meta = docs[u].meta /\ doc.sized = docs[u].sized /\ doc # NotThere
    BY <2>1, <2>2, RagAssumption DEF Docs
  <2>4. /\ docs' = [docs EXCEPT ![u] = doc] /\ written' = written \cup {u}
        /\ UNCHANGED <<index, indexers, ragEvents, last, stored>>
    <3>1. docs' = [docs EXCEPT ![u].bytes = @ + 1]
      BY <1>12 DEF WriteBytes
    <3> QED
      BY <1>12, <2>2, <3>1 DEF WriteBytes
  <2>5. RagTypes'
    BY <2>1, <2>3, <2>4 DEF RagInv, RagTypes
  <2>6. Numbered'
    BY <2>1, <2>4 DEF RagInv, RagTypes, Numbered, Indexers
  <2>7. HeldIsCurrent'
    <3> SUFFICES ASSUME NEW x \in indexers, docs'[x.uuid] # NotThere, x.event = last[x.uuid]
                 PROVE  /\ x.at \in {"export", "store"} => x.meta = docs'[x.uuid].meta
                        /\ x.at = "export" => x.sized = docs'[x.uuid].sized
                        /\ x.at = "store" /\ x.uuid \notin written' => x.bytes = Indexable(docs'[x.uuid]).bytes
      BY <2>4 DEF HeldIsCurrent
    <3>1. x.uuid \in RagNodes /\ docs \in [RagNodes -> Docs \cup {NotThere}]
      BY DEF RagInv, RagTypes, Indexers
    <3>2. CASE x.uuid = u
      BY <2>1, <2>3, <2>4, <3>1, <3>2 DEF RagInv, HeldIsCurrent
    <3>3. CASE x.uuid # u
      BY <2>4, <3>1, <3>3 DEF RagInv, HeldIsCurrent
    <3> QED
      BY <3>2, <3>3
  <2>8. IndexFollowsNodes'
    BY <2>1, <2>3, <2>4 DEF RagInv, RagTypes, IndexFollowsNodes
  <2> QED
    BY <2>5, <2>6, <2>7, <2>8 DEF RagInv
<1>3. ASSUME NEW u \in RagNodes, DeleteDoc(u) PROVE RagInv'
  <2>1. \A x \in indexers : x.uuid = u => x.at # "delete"
    BY <1>3 DEF DeleteDoc, RagInv, Numbered
  <2> QED
    BY <1>3, <2>1, PublishKeeps DEF DeleteDoc
<1>4. ASSUME NEW x \in indexers, GetDoc(x) PROVE RagInv'
  <2>1. x \in Indexers
    BY DEF RagInv, RagTypes
  <2>2. CASE GiveUp(x)
    BY <1>4, <2>1, <2>2, HandlerKeeps DEF GetDoc, GiveUp
  <2>3. CASE ~GiveUp(x)
    <3> DEFINE y == [x EXCEPT !.at = "export", !.meta = docs[x.uuid].meta, !.sized = docs[x.uuid].sized]
    <3>0. docs[x.uuid] \in Docs /\ indexers' = (indexers \ {x}) \cup {y}
      BY <1>4, <2>1, <2>3 DEF GetDoc, IndexerStep, RagInv, RagTypes, Indexers
    <3>1. y \in Indexers
      BY <2>1, <3>0 DEF Indexers, Steps, Docs
    <3>2. /\ y.event = x.event /\ y.uuid = x.uuid /\ y.at = "export" /\ y.meta = docs[x.uuid].meta
          /\ y.sized = docs[x.uuid].sized
      BY <2>1 DEF Indexers
    <3>3. indexers' = (indexers \ {x}) \cup {y} /\ UNCHANGED <<docs, index, ragEvents, last, stored, written>>
      BY <1>4, <3>0 DEF GetDoc
    <3> HIDE DEF y
    <3> QED
      BY <3>1, <3>2, <3>3, HandlerKeeps
  <2> QED
    BY <2>2, <2>3
<1>5. ASSUME NEW x \in indexers, Export(x) PROVE RagInv'
  <2>1. x \in Indexers /\ x.at = "export"
    BY <1>5 DEF RagInv, RagTypes, Export
  <2>2. PICK y \in Indexers : /\ y.event = x.event /\ y.uuid = x.uuid /\ y.meta = x.meta
                             /\ \/ y.at = "store" /\ y.bytes = IF x.sized THEN Bytes(x) ELSE NoBytes
                                \/ y.at = "fallback"
                             /\ indexers' = (indexers \ {x}) \cup {y}
    <3>1. Bytes(x) \in Nat \cup {NoBytes}
      BY <2>1 DEF Bytes, Indexers, Docs, RagInv, RagTypes
    <3>2. CASE x.sized /\ IndexerStep(x, [x EXCEPT !.at = "store", !.bytes = Bytes(x)])
      BY <2>1, <3>1, <3>2 DEF IndexerStep, Indexers, Steps
    <3>4. CASE ~x.sized /\ IndexerStep(x, [x EXCEPT !.at = "store", !.bytes = NoBytes])
      BY <2>1, <3>4 DEF IndexerStep, Indexers, Steps
    <3>3. CASE IndexerStep(x, [x EXCEPT !.at = "fallback", !.bytes = NoBytes])
      BY <2>1, <3>3 DEF IndexerStep, Indexers, Steps
    <3> QED
      BY <1>5, <3>2, <3>3, <3>4 DEF Export
  <2>3. UNCHANGED <<docs, index, ragEvents, last, stored, written>>
    BY <1>5 DEF Export
  <2>4. (docs[x.uuid] # NotThere /\ x.event = last[x.uuid]) =>
           y.meta = docs[x.uuid].meta /\ (y.at = "store" => y.bytes = Indexable(docs[x.uuid]).bytes)
    BY <2>1, <2>2 DEF Bytes, RagInv, HeldIsCurrent, Indexable, DocText
  <2> QED
    BY <2>2, <2>3, <2>4, HandlerKeeps
<1>6. ASSUME NEW x \in indexers, FailToStore(x) PROVE RagInv'
  <2>1. x \in Indexers /\ x.at # "delete"
    BY <1>6 DEF RagInv, RagTypes, FailToStore
  <2>2. indexers' \subseteq (indexers \ {x}) \cup {x} /\ UNCHANGED <<docs, index, ragEvents, last, stored, written>>
    BY <1>6 DEF FailToStore, GiveUp
  <2> QED
    BY <2>1, <2>2, HandlerKeeps DEF RagInv, HeldIsCurrent
<1>7. ASSUME NEW x \in indexers, DeleteIndexed(x) PROVE RagInv'
  <2>1. /\ docs[x.uuid] = NotThere /\ indexers' = indexers \ {x}
        /\ index' = [index EXCEPT ![x.uuid] = NotIndexed] /\ UNCHANGED <<docs, ragEvents, last, stored, written>>
    BY <1>7 DEF DeleteIndexed, GiveUp, RagInv, Numbered
  <2> QED
    BY <2>1 DEF RagInv, RagTypes, Numbered, HeldIsCurrent, IndexFollowsNodes
<1>8. CASE UNCHANGED ragVars
  BY <1>8 DEF ragVars, RagInv, RagTypes, Numbered, HeldIsCurrent, IndexFollowsNodes
<1> QED
  BY <1>1, <1>12, <1>2, <1>3, <1>4, <1>5, <1>6, <1>7, <1>8, StoreKeeps DEF RagNext

\* However the handlers of the events of nodes overtake one another, an
\* embedding stored last for the last change is the node's, and a deleted node
\* is not found (RAGService's three handlers).
THEOREM IndexFollows == RagSpec => []IndexFollowsNodes
<1>1. RagInv => IndexFollowsNodes
  BY DEF RagInv
<1> QED
  BY RagInitial, RagStep, <1>1, PTL DEF RagSpec

----------------------------------------------------------------------------

(* Folders and the log. *)

Kinds == {"created", "updated", "deleted"}
Happenings == [kind : Kinds, node : EventNodes, parents : Seq(FolderUuids), at : Nat]
Touches == [event : Happenings, left : Seq(FolderUuids), at : {"whose", "read", "write"},
            copy : NodeStates \cup {Gone}]
Edits == [node : EventNodes, change : {r.change : r \in Changes}, at : {"write"}, copy : NodeStates]

EventTypes ==
    /\ kept \in [EventNodes -> NodeStates \cup {Gone}]
    /\ bus \in Seq(Happenings) /\ touches \subseteq Touches
    /\ edits \in [Editors -> Edits \cup {NoEdit}]
    /\ now \in Nat /\ changed \in [EventFolders -> Nat] /\ \A f \in EventFolders : changed[f] <= now
    /\ told = [n \in EventNodes |-> told[n]]

\* What a handler has still to touch is what its event named, or the folder
\* its node was found in; what it is to write is there.
TouchOK(t) ==
    /\ t.at = "whose" => t.event.parents = <<>>
    /\ t.at # "whose" => Len(t.left) >= 1
    /\ t.event.parents # <<>> => \A i \in 1..Len(t.left) : t.left[i] \in Parents(t.event)
    /\ t.at = "write" => t.copy # Gone /\ t.left[1] \in EventFolders
Found == \A t \in touches : TouchOK(t) /\ (t.at = "write" => In(t.left[1]) \/ t.left[1] \in mixed)

\* An event, or the handler of one, after which a folder is new.
Names(event, f, k) ==
    \/ \E i \in 1..Len(event.parents) : event.parents[i] = f
    \/ event.parents = <<>> /\ k[event.node] # Gone /\ k[event.node].parent = f
WillTouch(t, f, k, time) ==
    \/ t.at = "whose" /\ k[t.event.node] # Gone /\ k[t.event.node].parent = f
    \/ t.at = "read" /\ \E i \in 1..Len(t.left) : t.left[i] = f
    \/ t.at = "write" /\ \E i \in 2..Len(t.left) : t.left[i] = f
    \/ t.at = "write" /\ t.left[1] = f /\ t.copy.modified >= time
Covered(f) ==
    \/ \E i \in 1..Len(bus) : Names(bus[i], f, kept)
    \/ \E t \in touches : WillTouch(t, f, kept, changed[f])
    \/ kept[f].modified >= changed[f] /\ \A t \in touches : ~(t.at = "write" /\ t.left[1] = f)
Excused(f) ==
    \/ ~In(f) \/ f \in mixed \cup astray
    \/ \E event \in missed : event.parents = <<>> \/ f \in Parents(event)

\* What was deleted is gone for those who hold no copy of it.
Listing(n) ==
    \/ n \in ListedAsDeleted(MimetypeOf[n])
    \/ \E i \in 1..Len(bus) : bus[i].kind = "deleted" /\ bus[i].node = n
DeletedIsGone(n) ==
    told[n] = Gone =>
      /\ ~In(n)
      /\ \A e \in Editors : edits[e] # NoEdit /\ edits[e].node = n => n \in mixed
DeletionKnown(n) ==
    \/ \E event \in missed : event.kind = "deleted" /\ event.node = n
    \/ n \in mixed /\ upserts
    \/ DeletedIsGone(n) /\ (Listing(n) <=> told[n] = Gone)

EventInv ==
    /\ EventTypes /\ Found
    /\ \A f \in EventFolders : Excused(f) \/ Covered(f)
    /\ \A n \in EventNodes : DeletionKnown(n)

----------------------------------------------------------------------------

\* The handler goes on to the next folder: those left are the same but one.
LEMMA NextOne ==
  ASSUME EventTypes, Found, NEW t \in touches, t.at # "whose", NextFolder(t)
  PROVE  /\ touches' \subseteq Touches
         /\ \A u \in touches' : u \in touches \ {t} \/ (TouchOK(u) /\ u.at = "read")
         /\ touches \ {t} \subseteq touches'
         /\ \A f : (\E i \in 2..Len(t.left) : t.left[i] = f)
                     => \E u \in touches' : u.at = "read" /\ \E i \in 1..Len(u.left) : u.left[i] = f
  <1>1. touches \subseteq Touches /\ t \in Touches /\ TouchOK(t) /\ t.left \in Seq(FolderUuids) /\ Len(t.left) >= 1
    BY DEF EventTypes, Found, TouchOK, Touches
  <1>2. CASE Len(t.left) = 1
    <2>1. touches' = touches \ {t}
      BY <1>2 DEF NextFolder
    <2>2. 2..Len(t.left) = {}
      BY <1>2
    <2>3. ASSUME NEW f, \E i \in 2..Len(t.left) : t.left[i] = f PROVE FALSE
      BY <2>2, <2>3
    <2> QED
      BY <1>1, <2>1, <2>3
  <1>3. CASE Len(t.left) # 1
    <2>1. PICK u : u = [t EXCEPT !.left = Tail(t.left), !.at = "read", !.copy = Gone]
      OBVIOUS
    <2>2. /\ u \in Touches /\ u.left = Tail(t.left) /\ u.at = "read" /\ u.event = t.event
      <3>1. /\ DOMAIN u = {"event", "left", "at", "copy"} /\ u = [x \in DOMAIN u |-> u[x]]
            /\ u.event = t.event /\ u.left = Tail(t.left) /\ u.at = "read" /\ u.copy = Gone
        BY <1>1, <2>1 DEF Touches
      <3>2. u.event \in Happenings /\ u.left \in Seq(FolderUuids)
        BY <1>1, <3>1 DEF Touches
      <3>3. u = [event |-> u.event, left |-> u.left, at |-> u.at, copy |-> u.copy]
        BY <3>1
      <3> QED
        BY <3>1, <3>2, <3>3 DEF Touches
    <2>3. touches' = (touches \ {t}) \cup {u}
      BY <1>3, <2>1 DEF NextFolder, Becomes
    <2>4. /\ Len(u.left) = Len(t.left) - 1 /\ Len(u.left) >= 1
          /\ \A i \in 1..Len(u.left) : u.left[i] = t.left[i + 1]
      <3>1. PICK s \in Seq(FolderUuids) : s = t.left /\ Len(s) >= 1 /\ Len(s) # 1
        BY <1>1, <1>3
      <3>2. Len(s) \in Nat /\ Len(Tail(s)) = Len(s) - 1 /\ \A i \in 1..Len(Tail(s)) : Tail(s)[i] = s[i + 1]
        BY <3>1
      <3>3. PICK rest : rest = Tail(s)
        OBVIOUS
      <3>4. u.left = rest /\ t.left = s
        BY <2>2, <3>1, <3>3
      <3>5. Len(rest) = Len(s) - 1 /\ \A i \in 1..Len(rest) : rest[i] = s[i + 1]
        BY <3>2, <3>3, Zenon
      <3>6. Len(s) - 1 >= 1
        <4>1. \A n \in Nat : n >= 1 /\ n # 1 => n - 1 >= 1
          OBVIOUS
        <4> QED
          BY <3>1, <3>2, <4>1, Zenon
      <3>7. Len(rest) >= 1
        BY <3>5, <3>6, Zenon
      <3> QED
        BY <3>4, <3>5, <3>7, Zenon
    <2>5. TouchOK(u)
      BY <1>1, <2>2, <2>4 DEF TouchOK
    <2>6. ASSUME NEW f, NEW i \in 2..Len(t.left), t.left[i] = f
          PROVE  u.at = "read" /\ \E j \in 1..Len(u.left) : u.left[j] = f
      <3>1. i - 1 \in 1..Len(u.left) /\ u.left[i - 1] = f
        BY <1>1, <2>4, <2>6
      <3> QED
        BY <2>2, <3>1
    <2>7. \A f : (\E i \in 2..Len(t.left) : t.left[i] = f)
                   => \E w \in touches' : w.at = "read" /\ \E i \in 1..Len(w.left) : w.left[i] = f
      BY <2>3, <2>6
    <2> QED
      BY <1>1, <2>2, <2>3, <2>5, <2>7
  <1> QED
    BY <1>2, <1>3

\* An event published is the last on the bus.
LEMMA Announced ==
  ASSUME EventTypes, NEW event, event \in Happenings, Announce(event)
  PROVE  /\ bus' \in Seq(Happenings) /\ Len(bus') = Len(bus) + 1 /\ bus'[Len(bus) + 1] = event
         /\ \A i \in 1..Len(bus) : i \in 1..Len(bus') /\ bus'[i] = bus[i]
         /\ Len(bus) + 1 \in 1..Len(bus')
         /\ \A i \in 1..Len(bus') : i \in 1..Len(bus) \/ bus'[i] = event
  BY DEF EventTypes, Announce

LEMMA CreateKeeps ==
  ASSUME EventInv, NEW r \in Creations, CreateNode(r.node, r.parent)
  PROVE  EventInv'
  <1> USE EventAssumption
  <1> DEFINE n == r.node
             event == [kind |-> "created", node |-> n, parents |-> <<r.parent>>, at |-> now + 1]
             rec == [parent |-> r.parent, title |-> NewTitle, modified |-> now + 1]
  <1>1. EventTypes /\ Found /\ n \in EventNodes
    BY DEF EventInv
  <1>2. /\ kept[n] = Gone /\ told[n] = NoEdit /\ r.parent \in FolderUuids /\ r.parent # n
        /\ now' = now + 1 /\ changed' = [f \in EventFolders |-> IF f \in {r.parent} THEN now + 1 ELSE changed[f]]
        /\ kept' = [kept EXCEPT ![n] = rec] /\ told' = [told EXCEPT ![n] = NewTitle] /\ Announce(event)
        /\ UNCHANGED <<upserts, touches, log, edits, losses, mixed, astray, missed>>
    BY <1>1 DEF CreateNode, ChangeIn, Event, In, FolderUuids
  <1>3. rec \in NodeStates /\ event \in Happenings /\ event.parents[1] = r.parent /\ Len(event.parents) = 1
    BY <1>1, <1>2 DEF NodeStates, NodeTitles, Happenings, Kinds, EventTypes
  <1> HIDE DEF rec
  <1>4. /\ bus' \in Seq(Happenings) /\ Len(bus') = Len(bus) + 1 /\ bus'[Len(bus) + 1] = event
        /\ \A i \in 1..Len(bus) : i \in 1..Len(bus') /\ bus'[i] = bus[i]
        /\ Len(bus) + 1 \in 1..Len(bus')
        /\ \A i \in 1..Len(bus') : i \in 1..Len(bus) \/ bus'[i] = event
    BY <1>1, <1>2, <1>3, Announced
  <1>5. EventTypes'
    BY <1>1, <1>2, <1>3, <1>4 DEF EventTypes
  <1>6. /\ \A m \in EventNodes \ {n} : kept'[m] = kept[m] /\ told'[m] = told[m]
        /\ kept'[n] = rec /\ kept'[n] # Gone
    BY <1>1, <1>2, <1>3 DEF EventTypes
  <1>7. \A m \in EventNodes : In(m) => kept'[m] = kept[m] /\ In(m)'
    BY <1>2, <1>6 DEF In
  <1>8. Found'
    BY <1>1, <1>2, <1>7 DEF Found, TouchOK, In, Parents
  <1>9. ASSUME NEW f \in EventFolders PROVE Excused(f)' \/ Covered(f)'
    <2>1. CASE f = n
      <3>1. changed'[f] <= now + 1 /\ kept'[f].modified = now + 1
        BY <1>1, <1>2, <1>6, <2>1 DEF EventTypes, rec
      <3>2. \A t \in touches : t.at = "write" /\ t.left[1] = f => f \in mixed
        BY <1>1, <1>2, <2>1 DEF Found, In
      <3>3. CASE f \in mixed
        BY <1>2, <3>3 DEF Excused
      <3>4. CASE f \notin mixed
        <4>1. now \in Nat /\ changed'[f] \in Nat
          BY <1>1, <1>5 DEF EventTypes
        <4> QED
          BY <1>2, <3>1, <3>2, <3>4, <4>1 DEF Covered
      <3> QED
        BY <3>3, <3>4
    <2>2. CASE f = r.parent
      <3>1. Names(event, f, kept')
        BY <1>3, <2>2 DEF Names
      <3> QED
        BY <1>4, <3>1 DEF Covered
    <2>3. CASE f # n /\ f # r.parent
      <3>1. kept'[f] = kept[f] /\ changed'[f] = changed[f] /\ f \in EventNodes
        BY <1>2, <1>6, <2>3
      <3>2. CASE Excused(f)
        BY <1>2, <3>1, <3>2 DEF Excused, In, Parents
      <3>3. CASE Covered(f)
        <4>1. \A x : Names(x, f, kept) /\ x.node \in EventNodes => Names(x, f, kept')
          BY <1>2, <1>6 DEF Names
        <4>2. \A i \in 1..Len(bus) : bus[i].node \in EventNodes
          <5>1. \A i \in 1..Len(bus) : bus[i] \in Happenings
            BY <1>1 DEF EventTypes
          <5> QED
            BY <5>1 DEF Happenings
        <4>3. \A t \in touches : t.event.node \in EventNodes
          BY <1>1 DEF EventTypes, Touches, Happenings
        <4>4. \A t \in touches : WillTouch(t, f, kept, changed[f]) => WillTouch(t, f, kept', changed[f])
          BY <1>2, <1>6, <4>3 DEF WillTouch
        <4> QED
          BY <1>2, <1>4, <3>1, <3>3, <4>1, <4>2, <4>4 DEF Covered
      <3> QED
        BY <3>2, <3>3, <1>1 DEF EventInv
    <2> QED
      BY <2>1, <2>2, <2>3
  <1>10. ASSUME NEW m \in EventNodes PROVE DeletionKnown(m)'
    <2>1. DeletionKnown(m) /\ DOMAIN kept = EventNodes
      BY <1>1 DEF EventInv, EventTypes
    <2>2. Listing(m)' <=> Listing(m)
      BY <1>2, <1>4 DEF Listing, ListedAsDeleted
    <2>3. CASE m = n
      BY <1>1, <1>2, <1>6, <2>1, <2>2, <2>3 DEF DeletionKnown, DeletedIsGone, NodeTitles, EventTypes
    <2>4. CASE m # n
      <3>1. In(m)' <=> In(m)
        BY <1>6, <2>4 DEF In
      <3>2. told'[m] = told[m]
        BY <1>6, <2>4
      <3> QED
        BY <1>2, <2>1, <2>2, <3>1, <3>2 DEF DeletionKnown, DeletedIsGone
    <2> QED
      BY <2>3, <2>4
  <1> QED
    BY <1>5, <1>8, <1>9, <1>10 DEF EventInv

\* What a change leaves of the events and handlers that will touch a folder.
LEMMA StillCovered ==
  ASSUME EventTypes, NEW f \in EventFolders, NEW k, NEW time, NEW n,
         \A m \in EventNodes \ {n} : k[m] = kept[m],
         kept[n] # Gone /\ kept[n].parent = f => k[n] # Gone /\ k[n].parent = f,
         time = changed[f]
  PROVE  /\ \A i \in 1..Len(bus) : Names(bus[i], f, kept) => Names(bus[i], f, k)
         /\ \A t \in touches : WillTouch(t, f, kept, changed[f]) => WillTouch(t, f, k, time)
  <1>1. \A x : Names(x, f, kept) /\ x.node \in EventNodes => Names(x, f, k)
    BY DEF Names
  <1>2. \A i \in 1..Len(bus) : bus[i] \in Happenings
    BY DEF EventTypes
  <1>3. \A i \in 1..Len(bus) : bus[i].node \in EventNodes
    BY <1>2 DEF Happenings
  <1>4. \A t \in touches : t.event.node \in EventNodes
    BY DEF EventTypes, Touches, Happenings
  <1>5. \A t \in touches : WillTouch(t, f, kept, changed[f]) => WillTouch(t, f, k, time)
    BY <1>4 DEF WillTouch
  <1> QED
    BY <1>1, <1>3, <1>5

LEMMA UpdateNodeKeeps ==
  ASSUME EventInv, NEW e \in Editors, UpdateNode(e)
  PROVE  EventInv'
  <1> USE EventAssumption
  <1>1. EventTypes /\ Found /\ edits[e] \in Edits
    BY DEF EventInv, EventTypes, UpdateNode
  <1>2. PICK n \in EventNodes, change \in {r.change : r \in Changes}, copy \in NodeStates :
          edits[e] = [node |-> n, change |-> change, at |-> "write", copy |-> copy]
    BY <1>1 DEF Edits
  <1>3. change.op \in {"rename", "move"} /\ UNCHANGED <<upserts, touches, log, losses, missed>>
        /\ edits' = [edits EXCEPT ![e] = NoEdit]
    BY <1>2 DEF UpdateNode, EditOver
  <1>4. CASE ~Updatable(n)
    <2>1. UNCHANGED <<kept, now, changed, told, mixed, astray, bus>>
      BY <1>2, <1>4 DEF UpdateNode
    <2>2. edits' \in [Editors -> Edits \cup {NoEdit}] /\ \A d \in Editors : edits'[d] = edits[d] \/ edits'[d] = NoEdit
      BY <1>1, <1>3 DEF EventTypes
    <2>3. EventTypes' /\ Found'
      BY <1>1, <1>3, <2>1, <2>2 DEF EventTypes, Found, TouchOK, In, Parents
    <2>4. ASSUME NEW f \in EventFolders PROVE Excused(f)' \/ Covered(f)'
      BY <1>3, <2>1 DEF EventInv, Excused, Covered, In, Parents
    <2>5. ASSUME NEW m \in EventNodes PROVE DeletionKnown(m)'
      BY <1>3, <2>1, <2>2 DEF EventInv, DeletionKnown, DeletedIsGone, Listing, ListedAsDeleted, In
    <2> QED
      BY <2>3, <2>4, <2>5 DEF EventInv
  <1>5. CASE Updatable(n)
    <2>1. PICK rec : rec = Edited(copy, change)
      OBVIOUS
    <2>2. PICK folders : folders = IF In(n) THEN {kept[n].parent, rec.parent} ELSE {rec.parent}
      OBVIOUS
    <2>3. PICK event : event = [kind |-> "updated", node |-> n, parents |-> Named(copy, change), at |-> now + 1]
      OBVIOUS
    <2>4. /\ now' = now + 1
          /\ changed' = [f \in EventFolders |-> IF f \in folders THEN now + 1 ELSE changed[f]]
          /\ kept' = [kept EXCEPT ![n] = rec] /\ told' = [told EXCEPT ![n] = rec.title]
          /\ mixed' = mixed \cup Overlap(n, Editors \ {e}, touches)
          /\ astray' = astray \cup (IF In(n) /\ kept[n].parent = copy.parent THEN {} ELSE folders)
          /\ Announce(event)
      <3>0. folders = Around(n) \cup {rec.parent}
        BY <2>2 DEF Around
      <3>1. edits[e].node = n /\ edits[e].change = change /\ edits[e].copy = copy
        BY <1>2
      <3>2. /\ ChangeIn(folders)
            /\ kept' = [kept EXCEPT ![n] = rec] /\ told' = [told EXCEPT ![n] = rec.title]
            /\ mixed' = mixed \cup Overlap(n, Editors \ {e}, touches)
            /\ astray' = astray \cup Astray(n, copy, folders)
            /\ Announce(Event("updated", n, Named(copy, change)))
        BY <1>5, <2>1, <3>0, <3>1 DEF UpdateNode
      <3> QED
        BY <2>3, <3>1, <3>2 DEF ChangeIn, Event, Astray
    <2>5. /\ change.op = "rename" => rec = [parent |-> copy.parent, title |-> change.to, modified |-> now + 1]
          /\ change.op = "move" => rec = [parent |-> change.to, title |-> copy.title, modified |-> now + 1]
      BY <2>1 DEF Edited
    <2>6. /\ copy.parent \in FolderUuids /\ copy.title \in NodeTitles /\ now \in Nat
          /\ change.op = "rename" => change.to \in NodeTitles
          /\ change.op = "move" => change.to \in FolderUuids
      BY <1>1 DEF NodeStates, NodeTitles, EventTypes
    <2>7. rec \in NodeStates /\ rec.modified = now + 1 /\ rec.title \in NodeTitles /\ rec # Gone
      BY <1>3, <2>5, <2>6 DEF NodeStates
    <2>8. event \in Happenings /\ event.kind = "updated"
      <3>1. Named(copy, change) \in Seq(FolderUuids)
        BY <2>6 DEF Named
      <3> QED
        BY <2>3, <2>6, <3>1 DEF Happenings, Kinds
    <2>9. /\ bus' \in Seq(Happenings) /\ Len(bus') = Len(bus) + 1 /\ bus'[Len(bus) + 1] = event
          /\ \A i \in 1..Len(bus) : i \in 1..Len(bus') /\ bus'[i] = bus[i]
          /\ Len(bus) + 1 \in 1..Len(bus')
          /\ \A i \in 1..Len(bus') : i \in 1..Len(bus) \/ bus'[i] = event
      BY <1>1, <2>4, <2>8, Announced
    <2>10. /\ \A m \in EventNodes \ {n} : kept'[m] = kept[m] /\ told'[m] = told[m]
           /\ kept'[n] = rec /\ told'[n] = rec.title
      BY <1>1, <2>4 DEF EventTypes
    <2>11. EventTypes'
      <3>1. /\ kept' \in [EventNodes -> NodeStates \cup {Gone}] /\ told' = [m \in EventNodes |-> told'[m]]
            /\ edits' \in [Editors -> Edits \cup {NoEdit}]
        BY <1>1, <1>3, <2>4, <2>7 DEF EventTypes
      <3>2. changed' \in [EventFolders -> Nat] /\ now' \in Nat /\ \A f \in EventFolders : changed'[f] <= now'
        BY <1>1, <2>4 DEF EventTypes
      <3> QED
        BY <1>1, <1>3, <2>9, <3>1, <3>2 DEF EventTypes
    <2>12. \A m \in EventNodes : In(m) => In(m)'
      BY <2>7, <2>10 DEF In
    <2>13. Found'
      BY <1>1, <1>3, <2>4, <2>12 DEF Found, TouchOK, Parents
    <2>14. ASSUME NEW f \in EventFolders PROVE Excused(f)' \/ Covered(f)'
      <3>1. CASE f = n
        <4>1. changed'[f] <= now + 1 /\ kept'[f].modified = now + 1 /\ now + 1 \in Nat
          BY <1>1, <2>4, <2>6, <2>7, <2>10, <3>1 DEF EventTypes
        <4>2. CASE \E t \in touches : t.at = "write" /\ t.left[1] = f
          <5>1. PICK t \in touches : t.at = "write" /\ t.left[1] = f
            BY <4>2
          <5>2. Head(t.left) = n
            BY <1>1, <3>1, <5>1 DEF Found, TouchOK, EventTypes, Touches
          <5> QED
            BY <2>4, <3>1, <5>1, <5>2 DEF Overlap, Excused
        <4>3. CASE ~\E t \in touches : t.at = "write" /\ t.left[1] = f
          <5>1. changed'[f] \in Nat
            BY <2>11 DEF EventTypes
          <5> QED
            BY <1>3, <4>1, <4>3, <5>1 DEF Covered
        <4> QED
          BY <4>2, <4>3
      <3>2. CASE f \in folders /\ f # n
        <4>1. CASE ~(In(n) /\ kept[n].parent = copy.parent)
          BY <2>4, <3>2, <4>1 DEF Excused
        <4>2. CASE In(n) /\ kept[n].parent = copy.parent
          <5>1. Names(event, f, kept')
            <6>1. CASE change.op = "move" /\ change.to # copy.parent
              <7>1. event.parents = <<copy.parent, change.to>> /\ f \in {copy.parent, change.to}
                BY <2>2, <2>3, <2>5, <3>2, <4>2, <6>1 DEF Named
              <7> QED
                BY <7>1 DEF Names
            <6>2. CASE ~(change.op = "move" /\ change.to # copy.parent)
              <7>1. event.parents = <<>> /\ rec.parent = f /\ event.node = n
                BY <1>3, <2>2, <2>3, <2>5, <3>2, <4>2, <6>2 DEF Named
              <7> QED
                BY <2>7, <2>10, <7>1 DEF Names
            <6> QED
              BY <6>1, <6>2
          <5> QED
            BY <2>9, <5>1 DEF Covered
        <4> QED
          BY <4>1, <4>2
      <3>3. CASE f \notin folders /\ f # n
        <4>1. kept'[f] = kept[f] /\ changed'[f] = changed[f] /\ f \in EventNodes
          BY <2>4, <2>10, <3>3
        <4>2. CASE Excused(f)
          BY <1>3, <2>4, <4>1, <4>2 DEF Excused, In, Parents
        <4>3. CASE Covered(f)
          <5>1. kept[n] # Gone => kept[n].parent # f
            BY <2>2, <3>3 DEF In
          <5>2. /\ \A i \in 1..Len(bus) : Names(bus[i], f, kept) => Names(bus[i], f, kept')
                /\ \A t \in touches : WillTouch(t, f, kept, changed[f]) => WillTouch(t, f, kept', changed'[f])
            BY <1>1, <2>10, <4>1, <5>1, StillCovered
          <5> QED
            BY <1>3, <2>9, <4>1, <4>3, <5>2 DEF Covered
        <4> QED
          BY <4>2, <4>3 DEF EventInv
      <3> QED
        BY <3>1, <3>2, <3>3
    <2>15. ASSUME NEW m \in EventNodes PROVE DeletionKnown(m)'
      <3>1. DeletionKnown(m)
        BY DEF EventInv
      <3>2. Listing(m)' <=> Listing(m)
        BY <1>3, <2>8, <2>9 DEF Listing, ListedAsDeleted
      <3>3. edits[e] # NoEdit /\ edits[e].node = n
        BY <1>2 DEF UpdateNode
      <3>4. CASE m = n
        <4>1. told'[n] # Gone
          BY <2>7, <2>10
        <4>2. CASE told[n] = Gone /\ DeletedIsGone(n)
          BY <1>3, <1>5, <2>4, <3>3, <3>4, <4>2 DEF DeletedIsGone, Updatable, DeletionKnown
        <4>3. CASE told[n] # Gone \/ ~DeletedIsGone(n)
          BY <1>3, <2>4, <3>1, <3>2, <3>4, <4>1, <4>3 DEF DeletionKnown, DeletedIsGone
        <4> QED
          BY <4>2, <4>3
      <3>5. CASE m # n
        <4>1. (In(m)' <=> In(m)) /\ told'[m] = told[m]
          BY <2>10, <3>5 DEF In
        <4>2. \A d \in Editors : edits'[d] = edits[d] \/ edits'[d] = NoEdit
          BY <1>1, <1>3 DEF EventTypes
        <4> QED
          BY <1>3, <2>4, <3>1, <3>2, <4>1, <4>2 DEF DeletionKnown, DeletedIsGone
      <3> QED
        BY <3>4, <3>5
    <2> QED
      BY <2>11, <2>13, <2>14, <2>15 DEF EventInv
  <1> QED
    BY <1>4, <1>5

LEMMA DeleteNodeKeeps ==
  ASSUME EventInv, NEW e \in Editors, DeleteNode(e)
  PROVE  EventInv'
  <1> USE EventAssumption
  <1>1. EventTypes /\ Found /\ edits[e] \in Edits
    BY DEF EventInv, EventTypes, DeleteNode
  <1>2. PICK n \in EventNodes, change \in {r.change : r \in Changes}, copy \in NodeStates :
          edits[e] = [node |-> n, change |-> change, at |-> "write", copy |-> copy]
    BY <1>1 DEF Edits
  <1>3. UNCHANGED <<upserts, touches, log, losses, missed>> /\ edits' = [edits EXCEPT ![e] = NoEdit]
    BY <1>2 DEF DeleteNode, EditOver
  <1>4. /\ edits' \in [Editors -> Edits \cup {NoEdit}]
        /\ \A d \in Editors : edits'[d] = edits[d] \/ edits'[d] = NoEdit
        /\ \A d \in Editors \ {e} : edits'[d] = edits[d]
        /\ edits'[e] = NoEdit
    BY <1>1, <1>3 DEF EventTypes
  <1>5. CASE ~In(n)
    <2>1. UNCHANGED <<kept, now, changed, told, mixed, astray, bus>>
      BY <1>2, <1>5 DEF DeleteNode
    <2>3. EventTypes' /\ Found'
      BY <1>1, <1>3, <1>4, <2>1 DEF EventTypes, Found, TouchOK, In, Parents
    <2>4. ASSUME NEW f \in EventFolders PROVE Excused(f)' \/ Covered(f)'
      BY <1>3, <2>1 DEF EventInv, Excused, Covered, In, Parents
    <2>5. ASSUME NEW m \in EventNodes PROVE DeletionKnown(m)'
      BY <1>3, <1>4, <2>1 DEF EventInv, DeletionKnown, DeletedIsGone, Listing, ListedAsDeleted, In
    <2> QED
      BY <2>3, <2>4, <2>5 DEF EventInv
  <1>6. CASE In(n)
    <2>1. PICK event : event = [kind |-> "deleted", node |-> n, parents |-> <<copy.parent>>, at |-> now + 1]
      OBVIOUS
    <2>2. PICK folder : folder = kept[n].parent
      OBVIOUS
    <2>3. /\ now' = now + 1
          /\ changed' = [f \in EventFolders |-> IF f \in {folder} THEN now + 1 ELSE changed[f]]
          /\ kept' = [kept EXCEPT ![n] = Gone] /\ told' = [told EXCEPT ![n] = Gone]
          /\ mixed' = mixed \cup Overlap(n, Editors \ {e}, touches)
          /\ astray' = astray \cup (IF folder = copy.parent THEN {} ELSE {folder})
          /\ Announce(event)
      <3>1. edits[e].node = n /\ edits[e].change = change /\ edits[e].copy = copy
        BY <1>2
      <3>2. /\ ChangeIn({folder})
            /\ kept' = [kept EXCEPT ![n] = Gone] /\ told' = [told EXCEPT ![n] = Gone]
            /\ mixed' = mixed \cup Overlap(n, Editors \ {e}, touches)
            /\ astray' = astray \cup Astray(n, copy, {folder})
            /\ Announce(Event("deleted", n, <<copy.parent>>))
        BY <1>6, <2>2, <3>1 DEF DeleteNode
      <3> QED
        BY <1>6, <2>1, <2>2, <3>1, <3>2 DEF ChangeIn, Event, Astray
    <2>4. event \in Happenings /\ event.kind = "deleted" /\ event.node = n
      BY <1>1, <2>1 DEF Happenings, Kinds, NodeStates, EventTypes
    <2>5. /\ bus' \in Seq(Happenings) /\ Len(bus') = Len(bus) + 1 /\ bus'[Len(bus) + 1] = event
          /\ \A i \in 1..Len(bus) : i \in 1..Len(bus') /\ bus'[i] = bus[i]
          /\ Len(bus) + 1 \in 1..Len(bus')
          /\ \A i \in 1..Len(bus') : i \in 1..Len(bus) \/ bus'[i] = event
      BY <1>1, <2>3, <2>4, Announced
    <2>6. /\ \A m \in EventNodes \ {n} : kept'[m] = kept[m] /\ told'[m] = told[m] /\ (In(m)' <=> In(m))
          /\ kept'[n] = Gone /\ told'[n] = Gone /\ ~In(n)'
      BY <1>1, <2>3 DEF EventTypes, In
    <2>7. EventTypes'
      <3>1. /\ kept' \in [EventNodes -> NodeStates \cup {Gone}] /\ told' = [m \in EventNodes |-> told'[m]]
        BY <1>1, <2>3 DEF EventTypes
      <3>2. changed' \in [EventFolders -> Nat] /\ now' \in Nat /\ \A f \in EventFolders : changed'[f] <= now'
        BY <1>1, <2>3 DEF EventTypes
      <3> QED
        BY <1>1, <1>3, <1>4, <2>5, <3>1, <3>2 DEF EventTypes
    <2>8. \A t \in touches : t.at = "write" /\ t.left[1] = n => n \in mixed'
      <3>1. ASSUME NEW t \in touches, t.at = "write", t.left[1] = n PROVE Head(t.left) = n
        BY <1>1, <3>1 DEF Found, TouchOK, EventTypes, Touches
      <3> QED
        BY <2>3, <3>1 DEF Overlap
    <2>9. Found'
      BY <1>1, <1>3, <2>3, <2>6, <2>8 DEF Found, TouchOK, Parents
    <2>10. ASSUME NEW f \in EventFolders PROVE Excused(f)' \/ Covered(f)'
      <3>1. CASE f = n
        BY <2>6, <3>1 DEF Excused
      <3>2. CASE f = folder /\ f # n
        <4>1. CASE folder # copy.parent
          BY <2>3, <3>2, <4>1 DEF Excused
        <4>2. CASE folder = copy.parent
          <5>1. Names(event, f, kept')
            BY <2>1, <3>2, <4>2 DEF Names
          <5> QED
            BY <2>5, <5>1 DEF Covered
        <4> QED
          BY <4>1, <4>2
      <3>3. CASE f # folder /\ f # n
        <4>1. kept'[f] = kept[f] /\ changed'[f] = changed[f] /\ f \in EventNodes
          BY <2>3, <2>6, <3>3
        <4>2. CASE Excused(f)
          BY <1>3, <2>3, <2>6, <4>1, <4>2 DEF Excused, Parents
        <4>3. CASE Covered(f)
          <5>1. /\ \A i \in 1..Len(bus) : Names(bus[i], f, kept) => Names(bus[i], f, kept')
                /\ \A t \in touches : WillTouch(t, f, kept, changed[f]) => WillTouch(t, f, kept', changed'[f])
            BY <1>1, <2>2, <2>6, <3>3, <4>1, StillCovered
          <5> QED
            BY <1>3, <2>5, <4>1, <4>3, <5>1 DEF Covered
        <4> QED
          BY <4>2, <4>3 DEF EventInv
      <3> QED
        BY <3>1, <3>2, <3>3
    <2>11. ASSUME NEW m \in EventNodes PROVE DeletionKnown(m)'
      <3>1. DeletionKnown(m)
        BY DEF EventInv
      <3>2. CASE m = n
        <4>1. Listing(n)'
          BY <2>4, <2>5 DEF Listing
        <4>2. \A d \in Editors : edits'[d] # NoEdit /\ edits'[d].node = n => n \in mixed'
          <5>1. ASSUME NEW d \in Editors, edits'[d] # NoEdit, edits'[d].node = n PROVE n \in mixed'
            <6>1. d # e /\ edits[d] # NoEdit /\ edits[d].node = n /\ edits[d].at = "write"
              BY <1>1, <1>4, <5>1 DEF EventTypes, Edits
            <6> QED
              BY <2>3, <6>1 DEF Overlap
          <5> QED
            BY <5>1
        <4> QED
          BY <2>6, <3>2, <4>1, <4>2 DEF DeletionKnown, DeletedIsGone
      <3>3. CASE m # n
        <4>1. Listing(m)' <=> Listing(m)
          BY <1>3, <2>4, <2>5, <3>3 DEF Listing, ListedAsDeleted
        <4> QED
          BY <1>3, <1>4, <2>3, <2>6, <3>1, <3>3, <4>1 DEF DeletionKnown, DeletedIsGone
      <3> QED
        BY <3>2, <3>3
    <2> QED
      BY <2>7, <2>9, <2>10, <2>11 DEF EventInv
  <1> QED
    BY <1>5, <1>6

LEMMA BeginEditKeeps ==
  ASSUME EventInv, NEW e \in Editors, NEW r \in Changes, BeginEdit(e, r.node, r.change)
  PROVE  EventInv'
  <1> USE EventAssumption
  <1>1. /\ EventTypes /\ Found /\ r.node \in EventNodes /\ In(r.node)
        /\ edits' = [edits EXCEPT ![e] = [node |-> r.node, change |-> r.change, at |-> "write", copy |-> kept[r.node]]]
        /\ UNCHANGED <<kept, upserts, bus, touches, log, now, losses, changed, told, mixed, astray, missed>>
    BY DEF EventInv, BeginEdit
  <1>2. /\ edits' \in [Editors -> Edits \cup {NoEdit}]
        /\ \A d \in Editors : edits'[d] = edits[d] \/ edits'[d].node = r.node
    BY <1>1 DEF EventTypes, Edits, In
  <1>3. EventTypes' /\ Found'
    BY <1>1, <1>2 DEF EventTypes, Found, TouchOK, In, Parents
  <1>4. ASSUME NEW f \in EventFolders PROVE Excused(f)' \/ Covered(f)'
    BY <1>1 DEF EventInv, Excused, Covered, In, Parents
  <1>5. ASSUME NEW m \in EventNodes PROVE DeletionKnown(m)'
    BY <1>1, <1>2 DEF EventInv, DeletionKnown, DeletedIsGone, Listing, ListedAsDeleted, In
  <1> QED
    BY <1>3, <1>4, <1>5 DEF EventInv

LEMMA DeliverKeeps ==
  ASSUME EventInv, Deliver
  PROVE  EventInv'
  <1>1. /\ EventTypes /\ Found /\ bus \in Seq(Happenings) /\ bus # <<>>
        /\ bus' = Tail(bus) /\ touches' = touches \cup {Touch(Head(bus))}
        /\ UNCHANGED <<kept, upserts, edits, now, changed, told, mixed, astray>>
    BY DEF EventInv, EventTypes, Deliver
  <1>2. PICK event \in Happenings : event = Head(bus)
    BY <1>1
  <1>3. /\ bus' \in Seq(Happenings)
        /\ \A i \in 1..Len(bus) : bus[i] = event \/ \E j \in 1..Len(bus') : bus'[j] = bus[i]
        /\ \A j \in 1..Len(bus') : \E i \in 1..Len(bus) : bus[i] = bus'[j]
        /\ 1 \in 1..Len(bus) /\ bus[1] = event
    <2>1. Len(bus) \in Nat \ {0} /\ bus[1] = event
      BY <1>1, <1>2, EmptySeq
    <2>2. /\ bus' \in Seq(Happenings) /\ Len(bus') = Len(bus) - 1
          /\ \A j \in 1..Len(bus') : bus'[j] = bus[j + 1]
      BY <1>1
    <2>3. \A j \in 1..Len(bus') : j + 1 \in 1..Len(bus)
      BY <2>1, <2>2
    <2>4. \A i \in 1..Len(bus) : i = 1 \/ (i - 1 \in 1..Len(bus') /\ bus'[i - 1] = bus[i])
      BY <2>1, <2>2
    <2> QED
      BY <2>1, <2>2, <2>3, <2>4
  <1>4. PICK t : t = Touch(event)
    OBVIOUS
  <1>5. /\ t \in Touches /\ TouchOK(t) /\ t.at \in {"whose", "read"} /\ t.left = event.parents
        /\ t.event = event /\ (t.at = "whose" <=> event.parents = <<>>)
    <2>1. event.parents \in Seq(FolderUuids)
      BY DEF Happenings
    <2>2. event.parents # <<>> => Len(event.parents) >= 1
      BY <2>1, EmptySeq
    <2>3. /\ t.left = event.parents /\ t.event = event /\ t.at = (IF event.parents = <<>> THEN "whose" ELSE "read")
          /\ t \in Touches
      BY <1>4, <2>1 DEF Touch, Touches
    <2>4. \A i \in 1..Len(event.parents) : event.parents[i] \in Parents(event)
      BY <2>1 DEF Parents, ToSet
    <2> QED
      BY <2>2, <2>3, <2>4 DEF TouchOK
  <1>6. touches' = touches \cup {t}
    BY <1>1, <1>2, <1>4
  <1>7. missed \subseteq missed'
    BY DEF Deliver, Lose
  <1>8. EventTypes' /\ Found'
    BY <1>1, <1>3, <1>5, <1>6 DEF EventTypes, Found, TouchOK, In
  <1>9. ASSUME NEW f \in EventFolders PROVE Excused(f)' \/ Covered(f)'
    <2>1. CASE Excused(f)
      BY <1>1, <1>7, <2>1 DEF Excused, In
    <2>2. CASE Covered(f)
      <3>1. Names(event, f, kept) => WillTouch(t, f, kept, changed[f])
        BY <1>5 DEF Names, WillTouch
      <3> QED
        BY <1>1, <1>3, <1>5, <1>6, <2>2, <3>1 DEF Covered
    <2> QED
      BY <2>1, <2>2 DEF EventInv
  <1>10. ASSUME NEW m \in EventNodes PROVE DeletionKnown(m)'
    <2>1. DeletionKnown(m)
      BY DEF EventInv
    <2> DEFINE OnBus == \E i \in 1..Len(bus) : bus[i].kind = "deleted" /\ bus[i].node = m
               InLog == \E q \in log : q.stream = MimetypeOf[m] /\ q.event.kind = "deleted" /\ q.event.node = m
               IsIt == event.kind = "deleted" /\ event.node = m
    <2>a. OnBus' => OnBus
      BY <1>3
    <2>b. OnBus => OnBus' \/ IsIt
      BY <1>3
    <2>c. IsIt => OnBus
      BY <1>3
    <2>d. (Listing(m) <=> InLog \/ OnBus) /\ (Listing(m)' <=> InLog' \/ OnBus')
      BY DEF Listing, ListedAsDeleted
    <2>2. CASE log' = log \cup {[event |-> event, stream |-> Stream(event)]} /\ UNCHANGED <<losses, missed>>
      <3>1. Listing(m)' <=> Listing(m)
        <4>1. InLog' <=> InLog \/ IsIt
          <5>1. PICK entry : entry = [event |-> event, stream |-> Stream(event)]
            OBVIOUS
          <5>2. log' = log \cup {entry}
            BY <2>2, <5>1
          <5>3. /\ entry.event = event
                /\ IsIt => entry.stream = MimetypeOf[m]
            BY <5>1 DEF Stream
          <5> QED
            BY <5>2, <5>3
        <4> HIDE DEF InLog, OnBus, IsIt
        <4> QED
          BY <2>a, <2>b, <2>c, <2>d, <4>1
      <3> QED
        BY <1>1, <2>1, <2>2, <3>1 DEF DeletionKnown, DeletedIsGone, In
    <2>3. CASE missed' = missed \cup {event} /\ UNCHANGED log
      <3>1. CASE event.kind = "deleted" /\ event.node = m
        BY <2>3, <3>1 DEF DeletionKnown
      <3>2. CASE ~(event.kind = "deleted" /\ event.node = m)
        <4>1. Listing(m)' <=> Listing(m)
          <5>1. InLog' <=> InLog
            BY <2>3
          <5>2. ~IsIt
            BY <3>2
          <5> HIDE DEF InLog, OnBus, IsIt
          <5> QED
            BY <2>a, <2>b, <2>d, <5>1, <5>2
        <4> QED
          BY <1>1, <2>1, <2>3, <4>1 DEF DeletionKnown, DeletedIsGone, In
      <3> QED
        BY <3>1, <3>2
    <2> QED
      BY <1>2, <2>2, <2>3 DEF Deliver, Lose
  <1> QED
    BY <1>8, <1>9, <1>10 DEF EventInv

LEMMA FindFolderKeeps ==
  ASSUME EventInv, NEW t \in touches, FindFolder(t)
  PROVE  EventInv'
  <1>1. /\ EventTypes /\ Found /\ t.at = "whose" /\ t \in Touches /\ t.event.parents = <<>>
        /\ UNCHANGED <<kept, upserts, bus, log, edits, now, losses, changed, told, mixed, astray, missed>>
    BY DEF EventInv, EventTypes, Found, TouchOK, FindFolder
  <1>2. /\ touches' \subseteq Touches /\ touches \ {t} \subseteq touches'
        /\ \A u \in touches' : u \in touches \/ (TouchOK(u) /\ u.at = "read")
        /\ \A f \in EventFolders : WillTouch(t, f, kept, changed[f])
             => \E u \in touches' : u.at = "read" /\ \E i \in 1..Len(u.left) : u.left[i] = f
    <2>1. CASE In(t.event.node)
      <3>1. PICK p : p = kept[t.event.node].parent
        OBVIOUS
      <3>2. p \in FolderUuids /\ t.event \in Happenings /\ t.event.node \in EventNodes
        BY <1>1, <2>1, <3>1 DEF EventTypes, Touches, Happenings, In, NodeStates
      <3>3. PICK u : u = [t EXCEPT !.left = <<p>>, !.at = "read"]
        OBVIOUS
      <3>4. /\ u.left = <<p>> /\ u.at = "read" /\ u.event = t.event /\ u \in Touches
        <4>1. /\ DOMAIN u = {"event", "left", "at", "copy"} /\ u = [x \in DOMAIN u |-> u[x]]
              /\ u.event = t.event /\ u.left = <<p>> /\ u.at = "read" /\ u.copy = t.copy
          BY <1>1, <3>3 DEF Touches
        <4>2. u = [event |-> u.event, left |-> u.left, at |-> u.at, copy |-> u.copy]
          BY <4>1
        <4>3. u.event \in Happenings /\ u.left \in Seq(FolderUuids) /\ u.copy \in NodeStates \cup {Gone}
          BY <1>1, <3>2, <4>1 DEF Touches
        <4> QED
          BY <4>1, <4>2, <4>3 DEF Touches
      <3>5. touches' = (touches \ {t}) \cup {u}
        BY <2>1, <3>1, <3>3 DEF FindFolder, Becomes
      <3>6. TouchOK(u)
        BY <1>1, <3>4 DEF TouchOK
      <3>7. \A f \in EventFolders : WillTouch(t, f, kept, changed[f]) => 1 \in 1..Len(u.left) /\ u.left[1] = f
        BY <1>1, <3>1, <3>4 DEF WillTouch
      <3> QED
        BY <1>1, <3>4, <3>5, <3>6, <3>7 DEF EventTypes
    <2>2. CASE ~In(t.event.node)
      <3>1. t.event.node \in EventNodes
        BY <1>1 DEF Touches, Happenings
      <3> QED
        BY <1>1, <2>2, <3>1 DEF FindFolder, EventTypes, WillTouch, In
    <2> QED
      BY <2>1, <2>2
  <1>3. EventTypes' /\ Found'
    BY <1>1, <1>2 DEF EventTypes, Found, In, TouchOK
  <1>4. ASSUME NEW f \in EventFolders PROVE Excused(f)' \/ Covered(f)'
    <2>1. CASE Excused(f)
      BY <1>1, <2>1 DEF Excused, In
    <2>2. CASE Covered(f)
      BY <1>1, <1>2, <2>2 DEF Covered, WillTouch
    <2> QED
      BY <2>1, <2>2 DEF EventInv
  <1>5. ASSUME NEW m \in EventNodes PROVE DeletionKnown(m)'
    BY <1>1 DEF EventInv, DeletionKnown, DeletedIsGone, Listing, ListedAsDeleted, In
  <1> QED
    BY <1>3, <1>4, <1>5 DEF EventInv

LEMMA ReadFolderKeeps ==
  ASSUME EventInv, NEW t \in touches, ReadFolder(t)
  PROVE  EventInv'
  <1> USE EventAssumption
  <1>1. /\ EventTypes /\ Found /\ t.at = "read" /\ t \in Touches /\ TouchOK(t)
        /\ t.left \in Seq(FolderUuids) /\ Len(t.left) >= 1 /\ now \in Nat
        /\ UNCHANGED <<kept, upserts, bus, log, edits, now, losses, changed, told, mixed, astray, missed>>
    BY DEF EventInv, EventTypes, Found, TouchOK, ReadFolder, Touches
  <1>2. PICK f0 \in FolderUuids : f0 = t.left[1] /\ f0 = Head(t.left)
    BY <1>1
  <1>3. /\ touches' \subseteq Touches /\ touches \ {t} \subseteq touches'
        /\ \A u \in touches' : u \in touches \/ (TouchOK(u) /\ (u.at = "write" => In(u.left[1])))
        /\ \A f \in EventFolders : In(f) /\ WillTouch(t, f, kept, changed[f])
             => \E u \in touches' : WillTouch(u, f, kept, changed[f])
        /\ \A f \in EventFolders, u \in touches' : u.at = "write" /\ u.left[1] = f
             => u \in touches \/ WillTouch(u, f, kept, changed[f])
    <2>1. CASE f0 = TopFolder \/ ~In(f0)
      <3>1. NextFolder(t)
        BY <1>2, <2>1 DEF ReadFolder
      <3>2. /\ touches' \subseteq Touches
            /\ \A u \in touches' : u \in touches \/ (TouchOK(u) /\ u.at = "read")
            /\ touches \ {t} \subseteq touches'
            /\ \A f : (\E i \in 2..Len(t.left) : t.left[i] = f)
                     => \E u \in touches' : u.at = "read" /\ \E i \in 1..Len(u.left) : u.left[i] = f
        BY <1>1, <3>1, NextOne
      <3>3. ASSUME NEW f \in EventFolders, In(f), WillTouch(t, f, kept, changed[f])
            PROVE  \E i \in 2..Len(t.left) : t.left[i] = f
        <4>1. PICK i \in 1..Len(t.left) : t.left[i] = f
          BY <1>1, <3>3 DEF WillTouch
        <4>2. i # 1
          BY <1>2, <2>1, <3>3, <4>1
        <4> QED
          BY <1>1, <4>1, <4>2
      <3> QED
        BY <3>2, <3>3 DEF WillTouch
    <2>2. CASE f0 # TopFolder /\ In(f0)
      <3>1. f0 \in EventFolders /\ f0 \in EventNodes /\ kept[f0] \in NodeStates
        BY <1>1, <2>2 DEF FolderUuids, EventTypes, In
      <3>2. PICK copy : copy = Stamped(t, kept[f0])
        OBVIOUS
      <3>3. copy \in NodeStates /\ copy.modified = now
        <4>1. PICK rec \in NodeStates : rec = kept[f0]
          BY <3>1
        <4>2. copy = [rec EXCEPT !.modified = now]
          BY <3>2, <4>1 DEF Stamped
        <4> QED
          BY <1>1, <4>1, <4>2 DEF NodeStates
      <3>4. PICK u : u = [t EXCEPT !.at = "write", !.copy = copy]
        OBVIOUS
      <3>5. /\ u.left = t.left /\ u.at = "write" /\ u.event = t.event /\ u.copy = copy /\ u \in Touches
        <4>1. /\ DOMAIN u = {"event", "left", "at", "copy"} /\ u = [x \in DOMAIN u |-> u[x]]
              /\ u.event = t.event /\ u.left = t.left /\ u.at = "write" /\ u.copy = copy
          BY <1>1, <3>4 DEF Touches
        <4>2. u = [event |-> u.event, left |-> u.left, at |-> u.at, copy |-> u.copy]
          BY <4>1
        <4>3. u.event \in Happenings /\ u.left \in Seq(FolderUuids) /\ u.copy \in NodeStates \cup {Gone}
          BY <1>1, <3>3, <4>1 DEF Touches
        <4> QED
          BY <4>1, <4>2, <4>3 DEF Touches
      <3>6. touches' = (touches \ {t}) \cup {u}
        BY <1>2, <2>2, <3>2, <3>4 DEF ReadFolder, Becomes
      <3>7. TouchOK(u) /\ In(u.left[1])
        BY <1>1, <1>2, <2>2, <3>1, <3>3, <3>5 DEF TouchOK
      <3>8. now >= changed[f0]
        BY <1>1, <3>1 DEF EventTypes
      <3>9. WillTouch(u, f0, kept, changed[f0])
        BY <1>2, <3>3, <3>5, <3>8 DEF WillTouch
      <3>10. ASSUME NEW f \in EventFolders, WillTouch(t, f, kept, changed[f]), f # f0
             PROVE  WillTouch(u, f, kept, changed[f])
        <4>1. PICK i \in 1..Len(t.left) : t.left[i] = f
          BY <1>1, <3>10 DEF WillTouch
        <4>2. i \in 2..Len(t.left)
          BY <1>1, <1>2, <3>10, <4>1
        <4> QED
          BY <3>5, <4>1, <4>2 DEF WillTouch
      <3>11. touches' \subseteq Touches
        BY <1>1, <3>5, <3>6 DEF EventTypes
      <3> QED
        BY <1>2, <3>5, <3>6, <3>7, <3>9, <3>10, <3>11
    <2> QED
      BY <1>2, <2>1, <2>2 DEF FolderUuids
  <1>4. EventTypes'
    BY <1>1, <1>3 DEF EventTypes
  <1>5. Found'
    BY <1>1, <1>3 DEF Found, In, TouchOK
  <1>6. ASSUME NEW f \in EventFolders PROVE Excused(f)' \/ Covered(f)'
    <2>1. CASE Excused(f)
      BY <1>1, <2>1 DEF Excused, In
    <2>2. CASE Covered(f) /\ ~Excused(f)
      <3>1. In(f)
        BY <2>2 DEF Excused
      <3>2. CASE \E i \in 1..Len(bus) : Names(bus[i], f, kept)
        BY <1>1, <3>2 DEF Covered
      <3>3. CASE \E u \in touches : WillTouch(u, f, kept, changed[f])
        BY <1>1, <1>3, <3>1, <3>3 DEF Covered
      <3>4. CASE kept[f].modified >= changed[f] /\ \A u \in touches : ~(u.at = "write" /\ u.left[1] = f)
        <4>1. CASE \E u \in touches' : u.at = "write" /\ u.left[1] = f
          BY <1>1, <1>3, <3>4, <4>1 DEF Covered
        <4>2. CASE ~\E u \in touches' : u.at = "write" /\ u.left[1] = f
          BY <1>1, <3>4, <4>2 DEF Covered
        <4> QED
          BY <4>1, <4>2
      <3> QED
        BY <2>2, <3>2, <3>3, <3>4 DEF Covered
    <2> QED
      BY <2>1, <2>2 DEF EventInv
  <1>7. ASSUME NEW m \in EventNodes PROVE DeletionKnown(m)'
    BY <1>1 DEF EventInv, DeletionKnown, DeletedIsGone, Listing, ListedAsDeleted, In
  <1> QED
    BY <1>4, <1>5, <1>6, <1>7 DEF EventInv

LEMMA WriteFolderKeeps ==
  ASSUME EventInv, NEW t \in touches, WriteFolder(t)
  PROVE  EventInv'
  <1> USE EventAssumption
  <1>1. /\ EventTypes /\ Found /\ t.at = "write" /\ t \in Touches /\ TouchOK(t)
        /\ t.left \in Seq(FolderUuids) /\ Len(t.left) >= 1 /\ t.copy \in NodeStates /\ NextFolder(t)
        /\ UNCHANGED <<upserts, bus, log, edits, now, losses, changed, told, missed>>
    BY DEF EventInv, EventTypes, Found, TouchOK, WriteFolder, Touches
  <1>2. PICK f0 \in EventFolders : f0 = t.left[1] /\ f0 = Head(t.left) /\ f0 \in EventNodes
    BY <1>1 DEF TouchOK
  <1>3. /\ touches' \subseteq Touches
        /\ \A u \in touches' : u \in touches \ {t} \/ (TouchOK(u) /\ u.at = "read")
        /\ touches \ {t} \subseteq touches'
        /\ \A f : (\E i \in 2..Len(t.left) : t.left[i] = f)
                 => \E u \in touches' : u.at = "read" /\ \E i \in 1..Len(u.left) : u.left[i] = f
    BY <1>1, NextOne
  <1>4. In(f0) \/ f0 \in mixed
    BY <1>1, <1>2 DEF Found
  <1>5. \A f \in EventFolders : WillTouch(t, f, kept, changed[f]) =>
          \/ f = f0 /\ t.copy.modified >= changed[f]
          \/ \E u \in touches' : WillTouch(u, f, kept', changed'[f])
    BY <1>1, <1>2, <1>3 DEF WillTouch
  <1>6. CASE ~Touchable(f0)
    <2>1. UNCHANGED <<kept, mixed, astray>> /\ ~In(f0)
      BY <1>2, <1>6 DEF WriteFolder, Touchable, Updatable
    <2>2. EventTypes' /\ Found'
      BY <1>1, <1>3, <2>1 DEF EventTypes, Found, In, TouchOK
    <2>3. ASSUME NEW f \in EventFolders PROVE Excused(f)' \/ Covered(f)'
      <3>1. CASE Excused(f)
        BY <1>1, <2>1, <3>1 DEF Excused, In
      <3>2. CASE Covered(f) /\ f # f0
        BY <1>1, <1>3, <1>5, <2>1, <3>2 DEF Covered
      <3>3. CASE f = f0
        BY <2>1, <3>3 DEF Excused, In
      <3> QED
        BY <3>1, <3>2, <3>3 DEF EventInv
    <2>4. ASSUME NEW m \in EventNodes PROVE DeletionKnown(m)'
      BY <1>1, <2>1 DEF EventInv, DeletionKnown, DeletedIsGone, Listing, ListedAsDeleted, In
    <2> QED
      BY <2>2, <2>3, <2>4 DEF EventInv
  <1>7. CASE Touchable(f0)
    <2>1. /\ kept' = [kept EXCEPT ![f0] = t.copy]
          /\ mixed' = mixed \cup Overlap(f0, Editors, touches \ {t})
          /\ astray' = astray \cup Astray(f0, t.copy, Around(f0))
      BY <1>2, <1>7 DEF WriteFolder
    <2>2. /\ kept'[f0] = t.copy /\ \A m \in EventNodes \ {f0} : kept'[m] = kept[m]
          /\ kept' \in [EventNodes -> NodeStates \cup {Gone}] /\ t.copy # Gone
      BY <1>1, <1>2, <2>1 DEF EventTypes
    <2>3. \A m \in EventNodes : In(m) => In(m)'
      BY <2>2 DEF In
    <2>4. \A m \in EventNodes \ {f0} : In(m)' <=> In(m)
      BY <2>2 DEF In
    <2>5. EventTypes'
      BY <1>1, <1>3, <2>2 DEF EventTypes
    <2>6. Found'
      BY <1>1, <1>3, <2>1, <2>3 DEF Found, TouchOK
    <2>7. ASSUME NEW u \in touches, u # t, u.at = "write", u.left[1] = f0 PROVE f0 \in mixed'
      <3>1. Head(u.left) = f0
        BY <1>1, <2>7 DEF Found, TouchOK, EventTypes, Touches
      <3> QED
        BY <2>1, <2>7, <3>1 DEF Overlap
    <2>8. ASSUME NEW f \in EventFolders PROVE Excused(f)' \/ Covered(f)'
      <3>1. CASE Excused(f) /\ (f # f0 \/ In(f))
        BY <1>1, <2>1, <2>4, <3>1 DEF Excused
      <3>2. CASE f = f0 /\ ~In(f)
        BY <1>4, <2>1, <3>2 DEF Excused
      <3>3. CASE Covered(f) /\ ~Excused(f)'
        <4>1. kept[f0] # Gone /\ kept[f0].parent = f => kept'[f0] # Gone /\ kept'[f0].parent = f
          BY <1>2, <2>1, <2>2, <3>3 DEF Excused, Astray, Around, In
        <4>2. /\ \A i \in 1..Len(bus) : Names(bus[i], f, kept) => Names(bus[i], f, kept')
              /\ \A u \in touches : WillTouch(u, f, kept, changed[f]) => WillTouch(u, f, kept', changed'[f])
          BY <1>1, <2>2, <4>1, StillCovered
        <4>3. CASE \E i \in 1..Len(bus) : Names(bus[i], f, kept)
          BY <1>1, <4>2, <4>3 DEF Covered
        <4>4. CASE \E u \in touches' : WillTouch(u, f, kept', changed'[f])
          BY <4>4 DEF Covered
        <4>5. CASE f = f0 /\ t.copy.modified >= changed[f]
          <5>1. f0 \notin mixed'
            BY <3>3, <4>5 DEF Excused
          <5>2. \A u \in touches' : ~(u.at = "write" /\ u.left[1] = f)
            <6>1. ASSUME NEW u \in touches', u.at = "write", u.left[1] = f PROVE FALSE
              <7>1. u \in touches /\ u # t
                BY <1>3, <6>1
              <7> QED
                BY <2>7, <4>5, <5>1, <6>1, <7>1
            <6> QED
              BY <6>1
          <5> QED
            BY <1>1, <2>2, <4>5, <5>2 DEF Covered
        <4>6. CASE f # f0 /\ kept[f].modified >= changed[f] /\ \A u \in touches : ~(u.at = "write" /\ u.left[1] = f)
          <5>1. kept'[f] = kept[f]
            BY <2>2, <4>6
          <5> QED
            BY <1>1, <1>3, <4>6, <5>1 DEF Covered
        <4> QED
          BY <1>1, <1>2, <1>3, <1>5, <3>3, <4>2, <4>3, <4>4, <4>5, <4>6 DEF Covered
      <3> QED
        BY <3>1, <3>2, <3>3 DEF EventInv
    <2>9. ASSUME NEW m \in EventNodes PROVE DeletionKnown(m)'
      <3>1. DeletionKnown(m)
        BY DEF EventInv
      <3>2. Listing(m)' <=> Listing(m)
        BY <1>1 DEF Listing, ListedAsDeleted
      <3>3. CASE m # f0
        BY <1>1, <2>1, <2>4, <3>1, <3>2, <3>3 DEF DeletionKnown, DeletedIsGone
      <3>4. CASE m = f0 /\ In(m)
        BY <1>1, <2>1, <3>1, <3>2, <3>4 DEF DeletionKnown, DeletedIsGone
      <3>5. CASE m = f0 /\ ~In(m)
        BY <1>1, <1>4, <1>7, <2>1, <3>5 DEF DeletionKnown, Touchable, Updatable
      <3> QED
        BY <3>3, <3>4, <3>5
    <2> QED
      BY <2>5, <2>6, <2>8, <2>9 DEF EventInv
  <1> QED
    BY <1>6, <1>7

LEMMA TouchFailsKeeps ==
  ASSUME EventInv, NEW t \in touches, TouchFails(t)
  PROVE  EventInv'
  <1>1. /\ EventTypes /\ Found /\ t.at = "write" /\ t \in Touches /\ TouchOK(t)
        /\ missed' = missed \cup {t.event} /\ NextFolder(t)
        /\ UNCHANGED <<kept, upserts, bus, log, edits, now, changed, told, mixed, astray>>
    BY DEF EventInv, EventTypes, Found, TouchFails, Lose
  <1>2. /\ touches' \subseteq Touches
        /\ \A u \in touches' : u \in touches \/ (TouchOK(u) /\ u.at = "read")
        /\ touches \ {t} \subseteq touches'
    BY <1>1, NextOne
  <1>3. EventTypes' /\ Found'
    BY <1>1, <1>2 DEF EventTypes, Found, In, TouchOK
  <1>4. ASSUME NEW f \in EventFolders PROVE Excused(f)' \/ Covered(f)'
    <2>1. CASE Excused(f)
      BY <1>1, <2>1 DEF Excused, In
    <2>2. CASE WillTouch(t, f, kept, changed[f])
      <3>1. PICK i \in 1..Len(t.left) : t.left[i] = f
        <4>1. t.left \in Seq(FolderUuids) /\ Len(t.left) >= 1
          BY <1>1 DEF Touches, TouchOK
        <4> QED
          BY <1>1, <2>2, <4>1 DEF WillTouch
      <3> QED
        BY <1>1, <3>1 DEF TouchOK, Excused
    <2>3. CASE Covered(f) /\ ~WillTouch(t, f, kept, changed[f])
      BY <1>1, <1>2, <2>3 DEF Covered
    <2> QED
      BY <2>1, <2>2, <2>3 DEF EventInv
  <1>5. ASSUME NEW m \in EventNodes PROVE DeletionKnown(m)'
    BY <1>1 DEF EventInv, DeletionKnown, DeletedIsGone, Listing, ListedAsDeleted, In
  <1> QED
    BY <1>3, <1>4, <1>5 DEF EventInv

LEMMA RestartKeeps ==
  ASSUME EventInv, RestartAll
  PROVE  EventInv'
  <1>1. /\ EventTypes /\ Found /\ bus \in Seq(Happenings)
        /\ missed' = missed \cup (ToSet(bus) \cup {t.event : t \in touches})
        /\ bus' = <<>> /\ touches' = {} /\ edits' = [e \in Editors |-> NoEdit]
        /\ UNCHANGED <<kept, upserts, log, now, changed, told, mixed, astray>>
    BY DEF EventInv, EventTypes, RestartAll, Lose
  <1>2. \A i \in 1..Len(bus) : bus[i] \in missed' /\ bus[i] \in Happenings
    BY <1>1 DEF ToSet
  <1>3. \A x \in Happenings : \A i \in 1..Len(x.parents) : x.parents[i] \in Parents(x)
    BY DEF Happenings, Parents, ToSet
  <1>4. EventTypes' /\ Found'
    BY <1>1 DEF EventTypes, Found
  <1>5. ASSUME NEW f \in EventFolders PROVE Excused(f)' \/ Covered(f)'
    <2>1. CASE Excused(f)
      BY <1>1, <2>1 DEF Excused, In
    <2>2. CASE \E i \in 1..Len(bus) : Names(bus[i], f, kept)
      BY <1>2, <1>3, <2>2 DEF Names, Excused
    <2>3. CASE \E t \in touches : WillTouch(t, f, kept, changed[f])
      <3>1. PICK t \in touches : WillTouch(t, f, kept, changed[f])
        BY <2>3
      <3>2. TouchOK(t) /\ t.event \in missed' /\ t.left \in Seq(FolderUuids)
        BY <1>1, <3>1 DEF Found, EventTypes, Touches
      <3>3. t.event.parents = <<>> \/ f \in Parents(t.event)
        <4>1. CASE t.at = "whose"
          BY <3>2, <4>1 DEF TouchOK
        <4>2. CASE t.at # "whose"
          <5>1. PICK i \in 1..Len(t.left) : t.left[i] = f
            BY <3>1, <3>2, <4>2 DEF WillTouch, TouchOK
          <5> QED
            BY <3>2, <5>1 DEF TouchOK
        <4> QED
          BY <4>1, <4>2
      <3> QED
        BY <3>2, <3>3 DEF Excused
    <2>4. CASE kept[f].modified >= changed[f]
      BY <1>1, <2>4 DEF Covered
    <2> QED
      BY <2>1, <2>2, <2>3, <2>4 DEF EventInv, Covered
  <1>6. ASSUME NEW m \in EventNodes PROVE DeletionKnown(m)'
    <2>1. DeletionKnown(m)
      BY DEF EventInv
    <2>2. CASE \E i \in 1..Len(bus) : bus[i].kind = "deleted" /\ bus[i].node = m
      BY <1>2, <2>2 DEF DeletionKnown
    <2>3. CASE ~\E i \in 1..Len(bus) : bus[i].kind = "deleted" /\ bus[i].node = m
      <3>1. Listing(m)' <=> Listing(m)
        BY <1>1, <2>3 DEF Listing, ListedAsDeleted
      <3> QED
        BY <1>1, <2>1, <3>1 DEF DeletionKnown, DeletedIsGone, In
    <2> QED
      BY <2>2, <2>3
  <1> QED
    BY <1>4, <1>5, <1>6 DEF EventInv

LEMMA InitKeeps ==
  NodeEventsInit => EventInv
  <1> SUFFICES ASSUME NodeEventsInit PROVE EventInv
    OBVIOUS
  <1> USE EventAssumption
  <1>1. \A n \in EventNodes : kept[n] = IF n \in DOMAIN EventTree
              THEN [parent |-> EventTree[n].parent, title |-> EventTree[n].title, modified |-> 0] ELSE Gone
    BY DEF NodeEventsInit
  <1>2. \A n \in DOMAIN EventTree : [parent |-> EventTree[n].parent, title |-> EventTree[n].title, modified |-> 0] \in NodeStates
    BY DEF NodeStates, NodeTitles
  <1>3. kept \in [EventNodes -> NodeStates \cup {Gone}]
    BY <1>1, <1>2 DEF NodeEventsInit
  <1>4. EventTypes
    BY <1>3 DEF EventTypes, NodeEventsInit
  <1>5. Found
    BY DEF Found, NodeEventsInit
  <1>6. ASSUME NEW f \in EventFolders PROVE Excused(f) \/ Covered(f)
    <2>1. CASE f \in DOMAIN EventTree
      BY <1>1, <2>1 DEF Covered, NodeEventsInit
    <2>2. CASE f \notin DOMAIN EventTree
      BY <1>1, <2>2 DEF Excused, In
    <2> QED
      BY <2>1, <2>2
  <1>7. ASSUME NEW n \in EventNodes PROVE DeletionKnown(n)
    <2>1. told[n] = IF n \in DOMAIN EventTree THEN EventTree[n].title ELSE NoEdit
      BY DEF NodeEventsInit
    <2>2. told[n] # Gone
      BY <2>1 DEF NodeTitles
    <2>3. ~Listing(n)
      BY DEF Listing, ListedAsDeleted, NodeEventsInit
    <2> QED
      BY <2>2, <2>3 DEF DeletionKnown, DeletedIsGone
  <1> QED
    BY <1>4, <1>5, <1>6, <1>7 DEF EventInv

LEMMA EventStep ==
  ASSUME EventInv, [NodeEventsNext]_eventsVars
  PROVE  EventInv'
  <1>1. CASE UNCHANGED eventsVars
    BY <1>1 DEF eventsVars, EventInv, EventTypes, Found, TouchOK, In, Parents, Excused, Covered, WillTouch, Names,
                DeletionKnown, DeletedIsGone, Listing, ListedAsDeleted
  <1>2. CASE NodeEventsNext
    BY <1>2, CreateKeeps, BeginEditKeeps, UpdateNodeKeeps, DeleteNodeKeeps, DeliverKeeps,
       FindFolderKeeps, ReadFolderKeeps, WriteFolderKeeps, TouchFailsKeeps, RestartKeeps DEF NodeEventsNext
  <1> QED
    BY <1>1, <1>2

LEMMA EventInvHolds ==
  NodeEventsSpec => []EventInv
  BY InitKeeps, EventStep, PTL DEF NodeEventsSpec

LEMMA QuietFolders ==
  EventInv => FoldersAreTouched
  <1> SUFFICES ASSUME EventInv, AllHandled, NEW f \in EventFolders, ~Excused(f)
               PROVE  kept[f].modified >= changed[f]
    BY DEF FoldersAreTouched, Excused
  <1>1. Covered(f) /\ bus = <<>> /\ touches = {}
    BY DEF EventInv, AllHandled
  <1> QED
    BY <1>1 DEF Covered

LEMMA QuietLog ==
  EventInv => DeletedAreListed
  <1> SUFFICES ASSUME EventInv, AllHandled, NEW n \in EventNodes
               PROVE  \/ \E event \in missed : event.kind = "deleted" /\ event.node = n
                      \/ n \in mixed /\ upserts
                      \/ n \in ListedAsDeleted(MimetypeOf[n]) <=> told[n] = Gone
    BY DEF DeletedAreListed
  <1>1. DeletionKnown(n) /\ bus = <<>>
    BY DEF EventInv, AllHandled
  <1> QED
    BY <1>1 DEF DeletionKnown, Listing

\* Whatever the events, handlers, faults and restarts, once all is handled a
\* folder is as new as the last change in it, unless a handler was lost or
\* copies were written over one another.
THEOREM FoldersTouched ==
  NodeEventsSpec => []FoldersAreTouched
  BY EventInvHolds, QuietFolders, PTL

\* ... and the nodes listed as deleted are those that users deleted.
THEOREM DeletionsListed ==
  NodeEventsSpec => []DeletedAreListed
  BY EventInvHolds, QuietLog, PTL

----------------------------------------------------------------------------

(* The handlers of the features. *)

JobFields == {"by", "id", "user", "at", "event", "node", "left", "picked", "body", "groups", "root", "ran", "edited"}
Entries == [feature : FeatureNames, given : BOOLEAN, body : Bodies]
JobTypes(j) ==
    /\ j \in [JobFields -> {j[x] : x \in JobFields}]
    /\ j.left \in Seq(Entries)
    /\ j.at \in {"feature", "nodes", "run", "running"} => Len(j.left) >= 1
    /\ IsAutomatic(j) => j.node.uuid \in WorkNodes /\ j.node.parent \in HookFolders
    /\ j.at = "folder" => j.by = "hooks"
    /\ j.by = "hooks" => j.event \in {"created", "updated", "deleted"}
WorkTypes ==
    /\ features \in [FeatureNames -> Bodies] /\ workNodes = [n \in WorkNodes |-> workNodes[n]]
    /\ \A n \in WorkNodes : workNodes[n] # NoNodeLeft =>
         workNodes[n].parent \in HookFolders /\ workNodes[n] \in [{"data", "parent"} -> {workNodes[n].data, workNodes[n].parent}]

\* What is left to run of what the event calls for.
Wanted(j, entry) ==
    /\ features[entry.feature] # NoFeature /\ "action" \in features[entry.feature].exposed
    /\ features[entry.feature].needs => entry.given
    /\ j.by = "automatic" => j.node.data \in features[entry.feature].filters
ToRun(j) == {f \in FeatureNames : \E i \in 1..Len(j.left) : j.left[i].feature = f}
Planned(j) == {f \in FeatureNames : \E i \in 1..Len(j.left) : j.left[i].feature = f /\ Wanted(j, j.left[i])}
NoneGiven(j) == \A i \in 1..Len(j.left) : ~j.left[i].given
AllRead(j) == \A i \in 1..Len(j.left) : j.left[i].body = features[j.left[i].feature]

\* What the handler of an event has run and what it has left make up what the
\* event calls for, from the time it has its list.
OnTrack(j) ==
    /\ j.by = "automatic" => NoneGiven(j) /\ AllRead(j)
    /\ j.by = "hooks" => j.node.parent # TopLevel
    /\ Due(j) = j.ran \cup Planned(j)
    /\ j.at \in {"nodes", "run"} =>
         /\ features[j.left[1].feature] # NoFeature /\ "action" \in features[j.left[1].feature].exposed
         /\ j.by = "automatic" => j.node.data \in features[j.left[1].feature].filters
    /\ j.at = "running" => j.left[1].feature \in j.ran
    /\ j.at \in {"feature", "nodes"} => j.by = "hooks"
HandlerOK(j) ==
    CASE j.at = "list" -> j.by = "automatic" /\ j.ran = {}
      [] j.at = "read" -> j.by = "automatic" /\ j.ran = {} /\ ToRun(j) = Listed(j.event) /\ NoneGiven(j)
      [] j.at = "node" -> /\ j.ran = {}
                          /\ j.by = "automatic" => ToRun(j) = Listed(j.event) /\ NoneGiven(j) /\ AllRead(j)
      [] j.at = "folder" -> j.by = "hooks" /\ j.ran = {}
      [] OTHER -> OnTrack(j)
JobOK(j) == JobTypes(j) /\ (IsAutomatic(j) /\ ~j.edited => HandlerOK(j))
EngineInv == WorkTypes /\ \A j \in jobs : JobOK(j)

----------------------------------------------------------------------------

LEMMA SameFeatures ==
  ASSUME features' = features, NEW j
  PROVE  JobOK(j)' <=> JobOK(j)
  <1>1. Due(j)' = Due(j) /\ Listed(j.event)' = Listed(j.event)
    BY DEF Due, Listed
  <1>2. \A e : Wanted(j, e)' <=> Wanted(j, e)
    BY DEF Wanted
  <1>3. Planned(j)' = Planned(j)
    BY <1>2 DEF Planned
  <1>4. OnTrack(j)' <=> OnTrack(j)
    BY <1>1, <1>3 DEF OnTrack, AllRead, NoneGiven
  <1>5. HandlerOK(j)' <=> HandlerOK(j)
    BY <1>1, <1>4 DEF HandlerOK, AllRead
  <1> QED
    BY <1>5 DEF JobOK

\* What a list loses with its first entry.
LEMMA FirstAndRest ==
  ASSUME NEW s \in Seq(Entries), Len(s) >= 1
  PROVE  /\ Tail(s) \in Seq(Entries) /\ Head(s) = s[1] /\ s[1] \in Entries
         /\ \A i \in 1..Len(Tail(s)) : i + 1 \in 1..Len(s) /\ Tail(s)[i] = s[i + 1]
         /\ \A i \in 1..Len(s) : i = 1 \/ (i - 1 \in 1..Len(Tail(s)) /\ Tail(s)[i - 1] = s[i])
  <1>1. Len(s) \in Nat /\ Tail(s) \in Seq(Entries) /\ Len(Tail(s)) = Len(s) - 1
    OBVIOUS
  <1>2. \A i \in 1..Len(Tail(s)) : Tail(s)[i] = s[i + 1]
    OBVIOUS
  <1>3. \A i \in 1..Len(s) : i = 1 \/ i - 1 \in 1..(Len(s) - 1)
    BY <1>1
  <1>4. \A i \in 1..(Len(s) - 1) : i + 1 \in 1..Len(s)
    BY <1>1
  <1>5. \A i \in 1..Len(s) : i = 1 \/ (i - 1 \in 1..Len(Tail(s)) /\ Tail(s)[i - 1] = s[(i - 1) + 1] /\ (i - 1) + 1 = i)
    BY <1>1, <1>2, <1>3
  <1> QED
    BY <1>1, <1>2, <1>4, <1>5

\* A feature that is passed over was not called for, or has run.
LEMMA SkipKeeps ==
  ASSUME WorkTypes, NEW j \in jobs, JobOK(j), Len(j.left) >= 1, Skip(j),
         j.at \notin {"list", "read", "node", "folder"},
         IsAutomatic(j) /\ ~j.edited => ~Wanted(j, j.left[1]) \/ j.left[1].feature \in j.ran
  PROVE  \A x \in jobs' : x \in jobs \/ JobOK(x)
  <1>1. PICK k : k = [j EXCEPT !.at = "begin", !.left = Tail(@), !.picked = {}, !.body = NoFeature, !.groups = {}]
    OBVIOUS
  <1>2. JobTypes(j)
    BY DEF JobOK
  <1>3. /\ k.by = j.by /\ k.at = "begin" /\ k.event = j.event /\ k.node = j.node /\ k.left = Tail(j.left)
        /\ k.ran = j.ran /\ k.edited = j.edited /\ DOMAIN k = JobFields /\ k = [x \in JobFields |-> k[x]]
    <2>1. PICK V : j \in [JobFields -> V]
      BY <1>2 DEF JobTypes
    <2> QED
      BY <1>1, <2>1 DEF JobFields
  <1>4. PICK s \in Seq(Entries) : s = j.left /\ Len(s) >= 1
    BY <1>2 DEF JobTypes
  <1>5. /\ Tail(s) \in Seq(Entries)
        /\ \A i \in 1..Len(Tail(s)) : i + 1 \in 1..Len(s) /\ Tail(s)[i] = s[i + 1]
        /\ \A i \in 1..Len(s) : i = 1 \/ (i - 1 \in 1..Len(Tail(s)) /\ Tail(s)[i - 1] = s[i])
    BY <1>4, FirstAndRest
  <1>6. PICK rest \in Seq(Entries) : rest = Tail(s) /\ k.left = rest
    BY <1>3, <1>4, <1>5
  <1>7. /\ \A i \in 1..Len(rest) : i + 1 \in 1..Len(s) /\ rest[i] = s[i + 1]
        /\ \A i \in 1..Len(s) : i = 1 \/ (i - 1 \in 1..Len(rest) /\ rest[i - 1] = s[i])
    BY <1>5, <1>6, Zenon
  <1>8. JobTypes(k)
    BY <1>2, <1>3, <1>6 DEF JobTypes, IsAutomatic
  <1>9. ASSUME IsAutomatic(k), ~k.edited PROVE HandlerOK(k)
    <2>1. IsAutomatic(j) /\ ~j.edited /\ HandlerOK(j)
      BY <1>3, <1>9 DEF IsAutomatic, JobOK
    <2>2. OnTrack(j)
      BY <2>1 DEF HandlerOK
    <2>3. Due(k) = Due(j)
      BY <1>3 DEF Due
    <2>4. \A e : Wanted(k, e) <=> Wanted(j, e)
      BY <1>3 DEF Wanted
    <2>5. j.ran \cup Planned(j) = k.ran \cup Planned(k)
      <3>1. Planned(k) \subseteq Planned(j)
        BY <1>4, <1>6, <1>7, <2>4 DEF Planned
      <3>2. ASSUME NEW f \in Planned(j), f \notin j.ran PROVE f \in Planned(k)
        <4>1. PICK i \in 1..Len(s) : s[i].feature = f /\ Wanted(j, s[i])
          BY <1>4 DEF Planned
        <4>2. i # 1
          BY <1>4, <2>1, <3>2, <4>1
        <4>3. i - 1 \in 1..Len(rest) /\ rest[i - 1] = s[i] /\ f \in FeatureNames
          BY <1>7, <4>2 DEF Planned
        <4> QED
          BY <1>6, <2>4, <4>1, <4>3 DEF Planned
      <3> QED
        BY <1>3, <3>1, <3>2
    <2>6. j.by = "automatic" => NoneGiven(k) /\ AllRead(k)
      BY <1>4, <1>6, <1>7, <2>2 DEF OnTrack, NoneGiven, AllRead
    <2>7. OnTrack(k)
      BY <1>3, <2>2, <2>3, <2>5, <2>6 DEF OnTrack
    <2> QED
      BY <1>3, <2>7 DEF HandlerOK
  <1>10. jobs' = (jobs \ {j}) \cup {k}
    BY <1>1 DEF Skip, JobStep
  <1> QED
    BY <1>8, <1>9, <1>10 DEF JobOK

LEMMA ReadFeatureKeeps ==
  ASSUME EngineInv, NEW j \in jobs, ReadFeature(j)
  PROVE  \A x \in jobs' : x \in jobs \/ JobOK(x)
  <1>1. WorkTypes /\ JobOK(j) /\ JobTypes(j) /\ j.at = "feature" /\ Len(j.left) >= 1
    BY DEF EngineInv, JobOK, JobTypes, ReadFeature
  <1>2. PICK s \in Seq(Entries) : s = j.left /\ Len(s) >= 1 /\ Head(s) = s[1] /\ s[1] \in Entries
    BY <1>1, FirstAndRest DEF JobTypes
  <1>3. PICK f \in FeatureNames : f = s[1].feature
    BY <1>2 DEF Entries
  <1>4. PICK body : body = Feature(PrincipalOf(j), f)
    OBVIOUS
  <1>5. body = NoFeature \/ body = features[f]
    BY <1>4 DEF Feature
  <1>6. IsAutomatic(j) => body = features[f]
    BY <1>4 DEF Feature, MayRun, PrincipalOf
  <1>7. CASE body = NoFeature \/ Exposure(j) \notin body.exposed \/ (j.by = "action" /\ ~body.manual)
    <2>1. Skip(j)
      BY <1>2, <1>3, <1>4, <1>7 DEF ReadFeature
    <2>2. IsAutomatic(j) => ~Wanted(j, j.left[1])
      BY <1>2, <1>3, <1>6, <1>7 DEF Wanted, Exposure, IsAutomatic
    <2> QED
      BY <1>1, <2>1, <2>2, SkipKeeps
  <1>8. CASE ~(body = NoFeature \/ Exposure(j) \notin body.exposed \/ (j.by = "action" /\ ~body.manual))
    <2>1. PICK k : k = [j EXCEPT !.at = IF Exposure(j) = "action" THEN "nodes" ELSE "run", !.left[1].body = body]
      OBVIOUS
    <2>2. jobs' = (jobs \ {j}) \cup {k}
      BY <1>2, <1>3, <1>4, <1>8, <2>1 DEF ReadFeature, JobStep
    <2>3. PICK e \in Entries : e = s[1]
      BY <1>2
    <2>4. PICK d : d = [e EXCEPT !.body = body]
      OBVIOUS
    <2>5. body \in Bodies
      BY <1>1, <1>3, <1>5, <1>8 DEF WorkTypes
    <2>6. d \in Entries /\ d.feature = e.feature /\ d.given = e.given /\ d.body = body
      BY <2>4, <2>5 DEF Entries
    <2>7. PICK q : q = [s EXCEPT ![1] = d]
      OBVIOUS
    <2>8. q \in Seq(Entries) /\ Len(q) = Len(s) /\ q[1] = d /\ \A i \in 1..Len(s) : i = 1 \/ q[i] = s[i]
      BY <1>2, <2>6, <2>7
    <2>9. /\ k.by = j.by /\ k.at = (IF Exposure(j) = "action" THEN "nodes" ELSE "run")
          /\ k.event = j.event /\ k.node = j.node /\ k.left = q
          /\ k.ran = j.ran /\ k.edited = j.edited /\ DOMAIN k = JobFields /\ k = [x \in JobFields |-> k[x]]
      <3>1. PICK V : j \in [JobFields -> V]
        BY <1>1 DEF JobTypes
      <3>2. [j.left EXCEPT ![1] = [j.left[1] EXCEPT !.body = body]] = q
        BY <1>2, <2>3, <2>4, <2>7, Zenon
      <3>3. k = [j EXCEPT !.at = IF Exposure(j) = "action" THEN "nodes" ELSE "run",
                          !.left = [j.left EXCEPT ![1] = [j.left[1] EXCEPT !.body = body]]]
        BY <2>1, <3>1 DEF JobFields
      <3>4. k = [j EXCEPT !.at = IF Exposure(j) = "action" THEN "nodes" ELSE "run", !.left = q]
        BY <3>2, <3>3, Zenon
      <3> QED
        BY <3>1, <3>4 DEF JobFields
    <2>10. JobTypes(k)
      BY <1>1, <1>2, <2>8, <2>9 DEF JobTypes, IsAutomatic
    <2>11. ASSUME IsAutomatic(k), ~k.edited PROVE HandlerOK(k)
      <3>1. IsAutomatic(j) /\ ~j.edited /\ OnTrack(j) /\ k.at = "nodes"
        BY <1>1, <2>9, <2>11 DEF IsAutomatic, JobOK, HandlerOK, Exposure
      <3>2. Due(k) = Due(j)
        BY <2>9 DEF Due
      <3>3. \A i \in 1..Len(s) : q[i].feature = s[i].feature /\ q[i].given = s[i].given /\ (i = 1 \/ q[i].body = s[i].body)
        BY <2>3, <2>6, <2>8
      <3>4. \A i \in 1..Len(s) : Wanted(k, q[i]) <=> Wanted(j, s[i])
        BY <2>9, <3>3 DEF Wanted
      <3>5. Planned(k) = Planned(j)
        <4>1. k.left = q /\ j.left = s /\ Len(q) = Len(s)
          BY <1>2, <2>8, <2>9
        <4> DEFINE A(f0) == \E i \in 1..Len(s) : s[i].feature = f0 /\ Wanted(j, s[i])
                   B(f0) == \E i \in 1..Len(s) : q[i].feature = f0 /\ Wanted(k, q[i])
        <4>2. \A f0 : A(f0) <=> B(f0)
          BY <3>3, <3>4
        <4>3. Planned(j) = {f0 \in FeatureNames : A(f0)} /\ Planned(k) = {f0 \in FeatureNames : B(f0)}
          BY <4>1 DEF Planned
        <4> HIDE DEF A, B
        <4> QED
          BY <4>2, <4>3
      <3>6. body = features[f] /\ q[1].feature = f /\ q[1].body = body
        BY <1>3, <1>6, <2>3, <2>6, <2>8, <3>1
      <3>7. j.by = "automatic" => FALSE
        BY <1>1, <3>1 DEF OnTrack
      <3>8. features[f] # NoFeature /\ "action" \in features[f].exposed
        BY <1>8, <3>1, <3>6 DEF Exposure
      <3>9. OnTrack(k)
        BY <1>1, <2>9, <3>1, <3>2, <3>5, <3>6, <3>7, <3>8 DEF OnTrack
      <3> QED
        BY <3>1, <3>9 DEF HandlerOK
    <2> QED
      BY <2>2, <2>10, <2>11 DEF JobOK
  <1> QED
    BY <1>7, <1>8

LEMMA GetNodesKeeps ==
  ASSUME EngineInv, NEW j \in jobs, GetNodes(j)
  PROVE  \A x \in jobs' : x \in jobs \/ JobOK(x)
  <1>1. JobOK(j) /\ JobTypes(j) /\ j.at = "nodes"
    BY DEF EngineInv, JobOK, GetNodes
  <1>2. PICK chosen : chosen = Chosen(j)
    OBVIOUS
  <1>3. PICK k : k = [j EXCEPT !.at = "run", !.picked = chosen]
    OBVIOUS
  <1>4. /\ k.by = j.by /\ k.at = "run" /\ k.event = j.event /\ k.node = j.node /\ k.left = j.left
        /\ k.ran = j.ran /\ k.edited = j.edited /\ DOMAIN k = JobFields /\ k = [x \in JobFields |-> k[x]]
    <2>1. PICK V : j \in [JobFields -> V]
      BY <1>1 DEF JobTypes
    <2> QED
      BY <1>3, <2>1 DEF JobFields
  <1>5. JobTypes(k)
    BY <1>1, <1>4 DEF JobTypes, IsAutomatic
  <1>6. ASSUME IsAutomatic(k), ~k.edited PROVE HandlerOK(k)
    <2>1. OnTrack(j)
      BY <1>1, <1>4, <1>6 DEF IsAutomatic, JobOK, HandlerOK
    <2>2. Due(k) = Due(j) /\ \A e : Wanted(k, e) <=> Wanted(j, e)
      BY <1>4 DEF Due, Wanted
    <2>3. Planned(k) = Planned(j)
      BY <1>4, <2>2 DEF Planned
    <2>4. OnTrack(k)
      BY <1>1, <1>4, <2>1, <2>2, <2>3 DEF OnTrack, NoneGiven, AllRead
    <2> QED
      BY <1>4, <2>4 DEF HandlerOK
  <1>7. jobs' = (jobs \ {j}) \cup {k}
    BY <1>2, <1>3 DEF GetNodes, JobStep
  <1> QED
    BY <1>5, <1>6, <1>7 DEF JobOK

LEMMA RunKeeps ==
  ASSUME EngineInv, NEW j \in jobs, Run(j)
  PROVE  \A x \in jobs' : x \in jobs \/ JobOK(x)
  <1>1. WorkTypes /\ JobOK(j) /\ JobTypes(j) /\ j.at = "run" /\ Len(j.left) >= 1
    BY DEF EngineInv, JobOK, JobTypes, Run
  <1>2. PICK s \in Seq(Entries) : s = j.left /\ Len(s) >= 1 /\ Head(s) = s[1] /\ s[1] \in Entries
    BY <1>1, FirstAndRest DEF JobTypes
  <1>3. PICK f \in FeatureNames : f = s[1].feature
    BY <1>2 DEF Entries
  <1>4. PICK body : body = Feature(PrincipalOf(j), f)
    OBVIOUS
  <1>5. IsAutomatic(j) => body = features[f]
    BY <1>4 DEF Feature, MayRun, PrincipalOf
  <1>6. ParametersMissing(j, body) <=> body.needs /\ ~s[1].given
    BY <1>2 DEF ParametersMissing
  <1>7. CASE body = NoFeature \/ ParametersMissing(j, body)
    <2>1. Skip(j)
      BY <1>2, <1>3, <1>4, <1>7 DEF Run
    <2>2. IsAutomatic(j) => ~Wanted(j, j.left[1])
      BY <1>2, <1>3, <1>5, <1>6, <1>7 DEF Wanted
    <2> QED
      BY <1>1, <2>1, <2>2, SkipKeeps
  <1>8. CASE ~(body = NoFeature \/ ParametersMissing(j, body))
    <2>1. PICK groups : groups = RunGroups(j, body)
      OBVIOUS
    <2>2. PICK k : k = [j EXCEPT !.at = "running", !.body = body, !.groups = groups, !.ran = @ \cup {f}]
      OBVIOUS
    <2>3. /\ k.by = j.by /\ k.at = "running" /\ k.event = j.event /\ k.node = j.node /\ k.left = j.left
          /\ k.ran = j.ran \cup {f} /\ k.edited = j.edited /\ DOMAIN k = JobFields /\ k = [x \in JobFields |-> k[x]]
      <3>1. PICK V : j \in [JobFields -> V]
        BY <1>1 DEF JobTypes
      <3> QED
        BY <2>2, <3>1 DEF JobFields
    <2>4. jobs' = (jobs \ {j}) \cup {k}
      BY <1>2, <1>3, <1>4, <1>8, <2>1, <2>2 DEF Run, JobStep
    <2>5. JobTypes(k)
      BY <1>1, <2>3 DEF JobTypes, IsAutomatic
    <2>6. ASSUME IsAutomatic(k), ~k.edited PROVE HandlerOK(k)
      <3>1. IsAutomatic(j) /\ OnTrack(j)
        BY <1>1, <2>3, <2>6 DEF IsAutomatic, JobOK, HandlerOK
      <3>2. Due(k) = Due(j) /\ \A e : Wanted(k, e) <=> Wanted(j, e)
        BY <2>3 DEF Due, Wanted
      <3>3. Planned(k) = Planned(j)
        BY <2>3, <3>2 DEF Planned
      <3>4. Wanted(j, s[1])
        BY <1>1, <1>2, <1>3, <1>5, <1>6, <1>8, <3>1 DEF OnTrack, Wanted
      <3>5. f \in Planned(j)
        BY <1>2, <1>3, <3>4 DEF Planned
      <3>6. OnTrack(k)
        BY <1>2, <1>3, <2>3, <3>1, <3>2, <3>3, <3>5 DEF OnTrack, NoneGiven, AllRead
      <3> QED
        BY <2>3, <3>6 DEF HandlerOK
    <2> QED
      BY <2>4, <2>5, <2>6 DEF JobOK
  <1> QED
    BY <1>7, <1>8

LEMMA EndRunKeeps ==
  ASSUME EngineInv, NEW j \in jobs, EndRun(j)
  PROVE  \A x \in jobs' : x \in jobs \/ JobOK(x)
  <1>1. WorkTypes /\ JobOK(j) /\ JobTypes(j) /\ j.at = "running" /\ Len(j.left) >= 1 /\ Skip(j)
    BY DEF EngineInv, JobOK, JobTypes, EndRun
  <1>2. IsAutomatic(j) /\ ~j.edited => j.left[1].feature \in j.ran
    BY <1>1 DEF JobOK, HandlerOK, OnTrack
  <1> QED
    BY <1>1, <1>2, SkipKeeps

LEMMA BeginKeeps ==
  ASSUME EngineInv, NEW j \in jobs, BeginNext(j)
  PROVE  \A x \in jobs' : x \in jobs \/ JobOK(x)
  <1>1. WorkTypes /\ JobOK(j) /\ JobTypes(j) /\ j.at = "begin"
    BY DEF EngineInv, JobOK, BeginNext
  <1>2. CASE j.left = <<>>
    BY <1>2 DEF BeginNext, EndJob
  <1>3. CASE j.left # <<>>
    <2>1. Len(j.left) >= 1
      BY <1>1, <1>3, EmptySeq DEF JobTypes
    <2>2. PICK s \in Seq(Entries) : s = j.left /\ Len(s) >= 1 /\ Head(s) = s[1] /\ s[1] \in Entries
      BY <1>1, <2>1, FirstAndRest DEF JobTypes
    <2>3. PICK f \in FeatureNames : f = s[1].feature
      BY <2>2 DEF Entries
    <2>4. ~TooDeep(f)
      BY FeaturesAssumption DEF TooDeep, GetRunnable
    <2>6. CASE j.by = "automatic" /\ (s[1].body = NoFeature \/ ~FitsFilters(j, s[1].body))
      <3>1. Skip(j)
        BY <1>3, <2>2, <2>6 DEF BeginNext
      <3>2. IsAutomatic(j) /\ ~j.edited => ~Wanted(j, j.left[1])
        <4>1. IsAutomatic(j) /\ ~j.edited => OnTrack(j)
          BY <1>1 DEF JobOK, HandlerOK
        <4>2. IsAutomatic(j) /\ ~j.edited => s[1].body = features[f]
          BY <2>2, <2>3, <2>6, <4>1 DEF OnTrack, AllRead
        <4> QED
          BY <2>2, <2>3, <2>6, <4>2 DEF Wanted, FitsFilters
      <3> QED
        BY <1>1, <2>1, <3>1, <3>2, SkipKeeps
    <2>7. CASE ~(j.by = "automatic" /\ (s[1].body = NoFeature \/ ~FitsFilters(j, s[1].body)))
      <3>1. PICK uuids : uuids = {j.node.uuid}
        OBVIOUS
      <3>2. PICK k : k = [j EXCEPT !.at = IF j.by = "hooks" THEN "feature" ELSE "run", !.picked = uuids]
        OBVIOUS
      <3>3. /\ k.by = j.by /\ k.at = (IF j.by = "hooks" THEN "feature" ELSE "run")
            /\ k.event = j.event /\ k.node = j.node /\ k.left = j.left
            /\ k.ran = j.ran /\ k.edited = j.edited /\ DOMAIN k = JobFields /\ k = [x \in JobFields |-> k[x]]
        <4>1. PICK V : j \in [JobFields -> V]
          BY <1>1 DEF JobTypes
        <4> QED
          BY <3>2, <4>1 DEF JobFields
      <3>4. jobs' = (jobs \ {j}) \cup {k}
        BY <1>3, <2>2, <2>3, <2>4, <2>7, <3>1, <3>2 DEF BeginNext, JobStep
      <3>5. JobTypes(k)
        BY <1>1, <2>1, <3>3 DEF JobTypes, IsAutomatic
      <3>6. ASSUME IsAutomatic(k), ~k.edited PROVE HandlerOK(k)
        <4>1. IsAutomatic(j) /\ OnTrack(j)
          BY <1>1, <3>3, <3>6 DEF IsAutomatic, JobOK, HandlerOK
        <4>2. Due(k) = Due(j) /\ \A e : Wanted(k, e) <=> Wanted(j, e)
          BY <3>3 DEF Due, Wanted
        <4>3. Planned(k) = Planned(j)
          BY <3>3, <4>2 DEF Planned
        <4>4. j.by = "automatic" => s[1].body = features[f] /\ s[1].body # NoFeature /\ FitsFilters(j, s[1].body)
          BY <2>2, <2>3, <2>7, <4>1 DEF OnTrack, AllRead
        <4>5. k.at = "run" => j.by = "automatic"
          <5>1. k.at = (IF j.by = "hooks" THEN "feature" ELSE "run") /\ j.by \in {"automatic", "hooks"}
            BY <3>3, <4>1 DEF IsAutomatic
          <5> QED
            BY <5>1
        <4>6. OnTrack(k)
          BY <2>2, <2>3, <3>3, <4>1, <4>2, <4>3, <4>4, <4>5 DEF OnTrack, NoneGiven, AllRead, FitsFilters
        <4> QED
          BY <3>3, <4>6 DEF HandlerOK
      <3> QED
        BY <3>4, <3>5, <3>6 DEF JobOK
    <2> QED
      BY <2>6, <2>7
  <1> QED
    BY <1>2, <1>3

LEMMA Ordered ==
  ASSUME NEW S, IsFiniteSet(S), NEW order \in SetToSeqs(S)
  PROVE  /\ order \in Seq(S) /\ Len(order) \in Nat /\ DOMAIN order = 1..Len(order)
         /\ \A x \in S : \E i \in 1..Len(order) : order[i] = x
  <1>1. PICK n \in Nat : n = Cardinality(S)
    BY FS_CardinalityType
  <1>2. order \in [1..n -> S] /\ \A i, j \in 1..n : i # j => order[i] # order[j]
    BY <1>1 DEF SetToSeqs
  <1>3. order \in Injection(1..n, S)
    BY <1>2 DEF Injection, IsInjective
  <1>4. IsFiniteSet(1..n) /\ Cardinality(1..n) = n
    BY FS_Interval
  <1>5. order \in Surjection(1..n, S)
    BY <1>1, <1>3, <1>4, FS_Injection
  <1>6. \A x \in S : \E i \in 1..n : order[i] = x
    BY <1>5 DEF Surjection
  <1> QED
    BY <1>2, <1>6

LEMMA ListKeeps ==
  ASSUME EngineInv, NEW j \in jobs, ListActions(j)
  PROVE  \A x \in jobs' : x \in jobs \/ JobOK(x)
  <1>1. WorkTypes /\ JobOK(j) /\ JobTypes(j) /\ j.at = "list"
    BY DEF EngineInv, JobOK, ListActions
  <1>2. PICK listed : listed = Listed(j.event)
    OBVIOUS
  <1>3. listed \subseteq FeatureNames /\ IsFiniteSet(listed)
    <2>1. listed \subseteq FeatureNames
      BY <1>2 DEF Listed
    <2> QED
      BY <2>1, FeaturesAssumption, FS_Subset
  <1>4. PICK order \in SetToSeqs(listed) :
          JobStep(j, [j EXCEPT !.at = "read", !.left = [i \in DOMAIN order |-> Entry(order[i], FALSE)]])
    BY <1>2 DEF ListActions
  <1>5. /\ order \in Seq(listed) /\ Len(order) \in Nat /\ DOMAIN order = 1..Len(order)
        /\ \A x \in listed : \E i \in 1..Len(order) : order[i] = x
    BY <1>3, Ordered
  <1>6. PICK left : left = [i \in DOMAIN order |-> Entry(order[i], FALSE)]
    OBVIOUS
  <1>7. /\ left \in Seq(Entries) /\ Len(left) = Len(order)
        /\ \A i \in 1..Len(left) : left[i].feature = order[i] /\ ~left[i].given /\ order[i] \in listed
    <2>1. PICK n \in Nat : n = Len(order)
      BY <1>5
    <2>2. \A i \in 1..n : order[i] \in listed
      BY <1>5, <2>1
    <2>3. NoFeature \in Bodies
      BY DEF Bodies
    <2>4. \A i \in 1..n : Entry(order[i], FALSE) \in Entries
      BY <1>3, <2>2, <2>3 DEF Entry, Entries
    <2>5. left \in [1..n -> Entries] /\ \A i \in 1..n : left[i] = Entry(order[i], FALSE)
      BY <1>5, <1>6, <2>1, <2>4
    <2> QED
      BY <2>1, <2>2, <2>5 DEF Entry
  <1>8. PICK k : k = [j EXCEPT !.at = "read", !.left = left]
    OBVIOUS
  <1>9. /\ k.by = j.by /\ k.at = "read" /\ k.event = j.event /\ k.node = j.node /\ k.left = left
        /\ k.ran = j.ran /\ k.edited = j.edited /\ DOMAIN k = JobFields /\ k = [x \in JobFields |-> k[x]]
    <2>1. PICK V : j \in [JobFields -> V]
      BY <1>1 DEF JobTypes
    <2> QED
      BY <1>8, <2>1 DEF JobFields
  <1>10. jobs' = (jobs \ {j}) \cup {k}
    BY <1>4, <1>6, <1>8 DEF JobStep
  <1>11. JobTypes(k)
    BY <1>1, <1>7, <1>9 DEF JobTypes, IsAutomatic
  <1>12. ASSUME IsAutomatic(k), ~k.edited PROVE HandlerOK(k)
    <2>1. j.by = "automatic" /\ j.ran = {}
      BY <1>1, <1>9, <1>12 DEF IsAutomatic, JobOK, HandlerOK
    <2>2. ToRun(k) = listed
      BY <1>3, <1>5, <1>7, <1>9 DEF ToRun
    <2>3. NoneGiven(k)
      BY <1>7, <1>9 DEF NoneGiven
    <2> QED
      BY <1>2, <1>9, <2>1, <2>2, <2>3 DEF HandlerOK
  <1> QED
    BY <1>10, <1>11, <1>12 DEF JobOK

\* A handler with its list of automatic actions has all of it before it.
LEMMA AllAhead ==
  ASSUME WorkTypes, NEW k, JobTypes(k), k.by = "automatic", k.at = "begin", k.ran = {},
         ToRun(k) = Listed(k.event), NoneGiven(k), AllRead(k)
  PROVE  HandlerOK(k)
  <1>1. PICK s \in Seq(Entries) : s = k.left
    BY DEF JobTypes
  <1>2. Due(k) \subseteq Planned(k)
    <2>1. ASSUME NEW f \in Due(k) PROVE f \in Planned(k)
      <3>1. f \in Listed(k.event) /\ k.node.data \in features[f].filters /\ ~features[f].needs
        BY <2>1 DEF Due
      <3>2. f \in FeatureNames /\ features[f] # NoFeature /\ "action" \in features[f].exposed
        BY <3>1 DEF Listed
      <3>3. PICK i \in 1..Len(k.left) : k.left[i].feature = f
        BY <3>1 DEF ToRun
      <3> QED
        BY <3>1, <3>2, <3>3 DEF Planned, Wanted
    <2> QED
      BY <2>1
  <1>3. Planned(k) \subseteq Due(k)
    <2>1. ASSUME NEW f \in Planned(k) PROVE f \in Due(k)
      <3>1. PICK i \in 1..Len(k.left) : k.left[i].feature = f /\ Wanted(k, k.left[i])
        BY <2>1 DEF Planned
      <3>2. f \in FeatureNames /\ f \in ToRun(k)
        BY <2>1, <3>1 DEF Planned, ToRun
      <3> QED
        BY <3>1, <3>2 DEF Due, Wanted, NoneGiven
    <2> QED
      BY <2>1
  <1>4. OnTrack(k)
    BY <1>2, <1>3 DEF OnTrack
  <1> QED
    BY <1>4 DEF HandlerOK

LEMMA ReadListedKeeps ==
  ASSUME EngineInv, NEW j \in jobs, ReadListed(j)
  PROVE  \A x \in jobs' : x \in jobs \/ JobOK(x)
  <1>1. WorkTypes /\ JobOK(j) /\ JobTypes(j) /\ j.at = "read"
    BY DEF EngineInv, JobOK, ReadListed
  <1>2. PICK s \in Seq(Entries) : s = j.left
    BY <1>1 DEF JobTypes
  <1>3. PICK left : left = [i \in DOMAIN s |-> [s[i] EXCEPT !.body = features[s[i].feature]]]
    OBVIOUS
  <1>4. /\ left \in Seq(Entries) /\ Len(left) = Len(s)
        /\ \A i \in 1..Len(left) : /\ left[i].feature = s[i].feature /\ left[i].given = s[i].given
                                   /\ left[i].body = features[s[i].feature]
    <2>1. PICK n \in Nat : n = Len(s) /\ DOMAIN s = 1..n
      BY <1>2
    <2>3. \A i \in 1..n : s[i] \in Entries /\ features[s[i].feature] \in Bodies
      <3>1. \A i \in 1..n : s[i] \in Entries
        BY <2>1
      <3>2. \A e \in Entries : features[e.feature] \in Bodies
        BY <1>1 DEF WorkTypes, Entries
      <3> QED
        BY <3>1, <3>2
    <2>4. \A i \in 1..n : left[i] = [s[i] EXCEPT !.body = features[s[i].feature]]
      BY <1>3, <2>1
    <2>5. \A i \in 1..n : /\ left[i] \in Entries /\ left[i].feature = s[i].feature /\ left[i].given = s[i].given
                          /\ left[i].body = features[s[i].feature]
      <3>1. ASSUME NEW i \in 1..n
            PROVE  /\ left[i] \in Entries /\ left[i].feature = s[i].feature /\ left[i].given = s[i].given
                   /\ left[i].body = features[s[i].feature]
        <4>1. PICK e \in Entries : e = s[i]
          BY <2>3
        <4>2. PICK b \in Bodies : b = features[s[i].feature]
          BY <2>3
        <4>3. left[i] = [e EXCEPT !.body = b]
          BY <2>4, <4>1, <4>2, Zenon
        <4>4. PICK v : v = [e EXCEPT !.body = b]
          OBVIOUS
        <4>5. v \in Entries /\ v.feature = e.feature /\ v.given = e.given /\ v.body = b
          BY <4>4 DEF Entries
        <4>6. left[i] = v
          BY <4>3, <4>4, Zenon
        <4> QED
          BY <4>1, <4>2, <4>5, <4>6
      <3> QED
        BY <3>1
    <2>6. DOMAIN left = 1..n /\ left = [i \in 1..n |-> left[i]]
      BY <1>3, <2>1
    <2>7. left \in [1..n -> Entries]
      BY <2>5, <2>6
    <2> QED
      BY <2>1, <2>5, <2>7
  <1>5. PICK at : at = IF j.event \in {"updated", "embedded"} THEN "node" ELSE "begin"
    OBVIOUS
  <1>6. PICK k : k = [j EXCEPT !.at = at, !.left = left]
    OBVIOUS
  <1>7. /\ k.by = j.by /\ k.at = at /\ k.event = j.event /\ k.node = j.node /\ k.left = left
        /\ k.ran = j.ran /\ k.edited = j.edited /\ DOMAIN k = JobFields /\ k = [x \in JobFields |-> k[x]]
        /\ jobs' = (jobs \ {j}) \cup {k}
    <2>1. PICK V : j \in [JobFields -> V]
      BY <1>1 DEF JobTypes
    <2>2. [i \in DOMAIN j.left |-> [j.left[i] EXCEPT !.body = features[j.left[i].feature]]] = left
      BY <1>2, <1>3, Zenon
    <2>3. JobStep(j, [j EXCEPT !.at = at, !.left = [i \in DOMAIN j.left |-> [j.left[i] EXCEPT !.body = features[j.left[i].feature]]]])
      BY <1>5, <2>1 DEF ReadListed, JobFields
    <2>4. JobStep(j, [j EXCEPT !.at = at, !.left = left])
      BY <2>2, <2>3, Zenon
    <2> QED
      BY <1>6, <2>1, <2>4 DEF JobFields, JobStep
  <1>8. JobTypes(k)
    BY <1>1, <1>4, <1>5, <1>7 DEF JobTypes, IsAutomatic
  <1>9. ASSUME IsAutomatic(k), ~k.edited PROVE HandlerOK(k)
    <2>1. j.by = "automatic" /\ j.ran = {} /\ ToRun(j) = Listed(j.event) /\ NoneGiven(j)
      BY <1>1, <1>7, <1>9 DEF IsAutomatic, JobOK, HandlerOK
    <2>2. NoneGiven(k)
      BY <1>2, <1>4, <1>7, <2>1 DEF NoneGiven
    <2>3. AllRead(k)
      BY <1>2, <1>4, <1>7 DEF AllRead
    <2>4. ToRun(k) = ToRun(j)
      BY <1>2, <1>4, <1>7 DEF ToRun
    <2>5. CASE at = "begin"
      BY <1>1, <1>7, <1>8, <2>1, <2>2, <2>3, <2>4, <2>5, AllAhead
    <2>6. CASE at = "node"
      BY <1>7, <2>1, <2>2, <2>3, <2>4, <2>6 DEF HandlerOK
    <2> QED
      BY <1>5, <2>5, <2>6
  <1> QED
    BY <1>7, <1>8, <1>9 DEF JobOK

LEMMA ReadNodeKeeps ==
  ASSUME EngineInv, NEW j \in jobs, ReadNode(j)
  PROVE  \A x \in jobs' : x \in jobs \/ JobOK(x)
  <1>1. WorkTypes /\ JobOK(j) /\ JobTypes(j) /\ j.at = "node"
    BY DEF EngineInv, JobOK, ReadNode
  <1>2. CASE workNodes[j.node.uuid] = NoNodeLeft
    BY <1>2 DEF ReadNode, EndJob
  <1>3. CASE workNodes[j.node.uuid] # NoNodeLeft
    <2>1. PICK node : node = NodeEvent(j.node.kind, j.node.uuid, workNodes[j.node.uuid])
      OBVIOUS
    <2>2. node.uuid = j.node.uuid /\ node.parent = workNodes[j.node.uuid].parent
      BY <2>1 DEF NodeEvent
    <2>3. PICK k : k = [j EXCEPT !.at = IF j.by = "hooks" THEN "folder" ELSE "begin", !.node = node]
      OBVIOUS
    <2>4. /\ k.by = j.by /\ k.at = (IF j.by = "hooks" THEN "folder" ELSE "begin")
          /\ k.event = j.event /\ k.node = node /\ k.left = j.left
          /\ k.ran = j.ran /\ k.edited = j.edited /\ DOMAIN k = JobFields /\ k = [x \in JobFields |-> k[x]]
          /\ jobs' = (jobs \ {j}) \cup {k}
      <3>1. PICK V : j \in [JobFields -> V]
        BY <1>1 DEF JobTypes
      <3>2. JobStep(j, [j EXCEPT !.at = IF j.by = "hooks" THEN "folder" ELSE "begin",
                                 !.node = NodeEvent(j.node.kind, j.node.uuid, workNodes[j.node.uuid])])
        BY <1>3, <3>1 DEF ReadNode, JobFields
      <3>3. JobStep(j, [j EXCEPT !.at = IF j.by = "hooks" THEN "folder" ELSE "begin", !.node = node])
        BY <2>1, <3>2, Zenon
      <3> QED
        BY <2>3, <3>1, <3>3 DEF JobFields, JobStep
    <2>5. IsAutomatic(j) => node.uuid \in WorkNodes /\ node.parent \in HookFolders
      BY <1>1, <1>3, <2>2 DEF JobTypes, WorkTypes
    <2>6. JobTypes(k)
      BY <1>1, <2>4, <2>5 DEF JobTypes, IsAutomatic
    <2>7. ASSUME IsAutomatic(k), ~k.edited PROVE HandlerOK(k)
      <3>1. IsAutomatic(j) /\ j.ran = {} /\ j.by \in {"automatic", "hooks"}
            /\ (j.by = "automatic" => ToRun(j) = Listed(j.event) /\ NoneGiven(j) /\ AllRead(j))
        BY <1>1, <2>4, <2>7 DEF IsAutomatic, JobOK, HandlerOK
      <3>2. CASE j.by = "hooks"
        BY <2>4, <3>1, <3>2 DEF HandlerOK
      <3>3. CASE j.by = "automatic"
        <4>1. ToRun(k) = Listed(k.event) /\ NoneGiven(k) /\ AllRead(k) /\ k.ran = {}
          BY <2>4, <3>1, <3>3 DEF ToRun, NoneGiven, AllRead
        <4> QED
          BY <1>1, <2>4, <2>6, <3>3, <4>1, AllAhead
      <3> QED
        BY <3>1, <3>2, <3>3
    <2> QED
      BY <2>4, <2>6, <2>7 DEF JobOK
  <1> QED
    BY <1>2, <1>3

LEMMA ReadHooksKeeps ==
  ASSUME EngineInv, NEW j \in jobs, ReadHooks(j)
  PROVE  \A x \in jobs' : x \in jobs \/ JobOK(x)
  <1>1. WorkTypes /\ JobOK(j) /\ JobTypes(j) /\ j.at = "folder"
    BY DEF EngineInv, JobOK, ReadHooks
  <1>2. CASE j.node.parent = TopLevel
    BY <1>2 DEF ReadHooks, EndJob
  <1>3. CASE j.node.parent # TopLevel
    <2>1. PICK left : left = HooksOf[j.node.parent][j.event]
      OBVIOUS
    <2>2. PICK k : k = [j EXCEPT !.at = "begin", !.left = left]
      OBVIOUS
    <2>3. /\ k.by = j.by /\ k.at = "begin" /\ k.event = j.event /\ k.node = j.node /\ k.left = left
          /\ k.ran = j.ran /\ k.edited = j.edited /\ DOMAIN k = JobFields /\ k = [x \in JobFields |-> k[x]]
          /\ jobs' = (jobs \ {j}) \cup {k}
      <3>1. PICK V : j \in [JobFields -> V]
        BY <1>1 DEF JobTypes
      <3> QED
        BY <1>3, <2>1, <2>2, <3>1 DEF JobFields, ReadHooks, JobStep
    <2>4. j.by = "hooks" => left \in Seq(Entries)
      <3>1. ASSUME j.by = "hooks" PROVE left \in Seq(Entries)
        <4>1. j.node.parent \in DOMAIN HooksOf /\ j.event \in {"created", "updated", "deleted"}
          BY <1>1, <1>3, <3>1 DEF JobTypes, IsAutomatic, HookFolders
        <4>2. left \in Seq([feature : FeatureNames, given : BOOLEAN, body : {NoFeature}])
          BY <2>1, <4>1, FeaturesAssumption
        <4>3. [feature : FeatureNames, given : BOOLEAN, body : {NoFeature}] \subseteq Entries
          BY DEF Entries, Bodies
        <4> DEFINE Hooks == [feature : FeatureNames, given : BOOLEAN, body : {NoFeature}]
        <4> HIDE DEF Hooks
        <4>4. Hooks \subseteq Entries => Seq(Hooks) \subseteq Seq(Entries)
          BY SeqMonotonic
        <4> QED
          BY <4>2, <4>3, <4>4 DEF Hooks
      <3> QED
        BY <3>1
    <2>5. j.by = "hooks"
      BY <1>1 DEF JobTypes
    <2>6. JobTypes(k)
      BY <1>1, <2>3, <2>4, <2>5 DEF JobTypes, IsAutomatic
    <2>7. ASSUME IsAutomatic(k), ~k.edited PROVE HandlerOK(k)
      <3>1. j.ran = {}
        BY <1>1, <2>3, <2>7 DEF IsAutomatic, JobOK, HandlerOK
      <3>2. PICK n \in Nat : DOMAIN left = 1..n /\ n = Len(left)
        BY <2>4, <2>5
      <3>3. Due(k) = Planned(k)
        <4>1. Due(k) = {f \in FeatureNames : \E i \in DOMAIN left :
                          /\ left[i].feature = f /\ features[f] # NoFeature
                          /\ "action" \in features[f].exposed /\ (features[f].needs => left[i].given)}
          BY <2>1, <2>3, <2>5 DEF Due
        <4>2. \A f : (\E i \in DOMAIN left : /\ left[i].feature = f /\ features[f] # NoFeature
                                             /\ "action" \in features[f].exposed /\ (features[f].needs => left[i].given))
                 <=> \E i \in 1..Len(left) : left[i].feature = f /\ Wanted(k, left[i])
          BY <2>3, <2>5, <3>2 DEF Wanted
        <4>3. Planned(k) = {f \in FeatureNames : \E i \in 1..Len(left) : left[i].feature = f /\ Wanted(k, left[i])}
          BY <2>3 DEF Planned
        <4> QED
          BY <4>1, <4>2, <4>3
      <3>4. OnTrack(k)
        BY <1>3, <2>3, <2>5, <3>1, <3>3 DEF OnTrack
      <3> QED
        BY <2>3, <3>4 DEF HandlerOK
    <2> QED
      BY <2>3, <2>6, <2>7 DEF JobOK
  <1> QED
    BY <1>2, <1>3

\* The handlers of an event, when it is published.
LEMMA HandlersStart ==
  ASSUME NEW event, event.uuid \in WorkNodes, event.parent \in HookFolders,
         NEW user, NEW asker, NEW x,
         \/ x \in HandlersOf(event, user, asker) /\ event.kind \in {"created", "updated", "deleted"}
         \/ x = Job("automatic", occurred, user, asker, event, "list")
  PROVE  JobOK(x)
  <1>1. \A by, at : /\ DOMAIN Job(by, occurred, user, asker, event, at) = JobFields
                    /\ Job(by, occurred, user, asker, event, at)
                         = [y \in JobFields |-> Job(by, occurred, user, asker, event, at)[y]]
    BY DEF Job, JobFields
  <1>2. PICK by \in {"automatic", "hooks"}, at \in {"list", "node", "folder"} :
          /\ x = Job(by, occurred, user, asker, event, at)
          /\ by = "automatic" <=> at = "list"
          /\ by = "hooks" => event.kind \in {"created", "updated", "deleted"}
    BY DEF HandlersOf
  <1>3. /\ x.by = by /\ x.at = at /\ x.left = <<>> /\ x.node = event /\ x.event = event.kind /\ x.ran = {}
        /\ DOMAIN x = JobFields /\ x = [y \in JobFields |-> x[y]]
    <2>1. /\ x.by = by /\ x.at = at /\ x.left = <<>> /\ x.node = event /\ x.event = event.kind /\ x.ran = {}
      BY <1>2 DEF Job
    <2> QED
      BY <1>1, <1>2, <2>1
  <1>4. JobTypes(x)
    BY <1>2, <1>3 DEF JobTypes
  <1>5. HandlerOK(x)
    BY <1>2, <1>3 DEF HandlerOK
  <1> QED
    BY <1>4, <1>5 DEF JobOK

LEMMA EngineStepKeeps ==
  ASSUME EngineInv, NEW j \in jobs,
         \/ ReadFeature(j) \/ GetNodes(j) \/ Run(j) \/ EndRun(j)
         \/ ListActions(j) \/ ReadListed(j) \/ ReadNode(j) \/ ReadHooks(j) \/ BeginNext(j)
  PROVE  EngineInv'
  <1>1. UNCHANGED <<features, workNodes>>
    BY DEF ReadFeature, GetNodes, Run, EndRun, ListActions, ReadListed, ReadNode, ReadHooks, BeginNext
  <1>2. \A x \in jobs' : x \in jobs \/ JobOK(x)
    BY ReadFeatureKeeps, GetNodesKeeps, RunKeeps, EndRunKeeps, ListKeeps, ReadListedKeeps, ReadNodeKeeps,
       ReadHooksKeeps, BeginKeeps
  <1>3. \A x \in jobs' : JobOK(x)
    BY <1>2 DEF EngineInv
  <1>4. ASSUME NEW x \in jobs' PROVE JobOK(x)'
    BY <1>1, <1>3, SameFeatures
  <1>5. WorkTypes'
    BY <1>1 DEF EngineInv, WorkTypes
  <1> QED
    BY <1>4, <1>5 DEF EngineInv

\* A node's new record, in the folder it was in or another.
LEMMA NewRecord ==
  ASSUME WorkTypes, NEW uuid \in WorkNodes, NEW new,
         workNodes' = [workNodes EXCEPT ![uuid] = new], features' = features,
         new # NoNodeLeft => new.parent \in HookFolders /\ new \in [{"data", "parent"} -> {new.data, new.parent}]
  PROVE  WorkTypes'
  BY DEF WorkTypes

LEMMA ActKeeps ==
  ASSUME EngineInv, NEW a \in Acts, Act(a)
  PROVE  EngineInv'
  <1> USE FeaturesAssumption
  <1>1. PICK uuid \in WorkNodes : uuid = a.uuid
    OBVIOUS
  <1>2. PICK old : old = workNodes[uuid]
    OBVIOUS
  <1>3. WorkTypes /\ features' = features
    BY DEF EngineInv, Act
  <1>4. old # NoNodeLeft => old.parent \in HookFolders /\ old \in [{"data", "parent"} -> {old.data, old.parent}]
    BY <1>2, <1>3 DEF WorkTypes
  <1>5. PICK new : new = [data |-> a.data, parent |-> IF old = NoNodeLeft THEN a.parent ELSE old.parent]
    OBVIOUS
  <1>6. new.parent \in HookFolders /\ new \in [{"data", "parent"} -> {new.data, new.parent}]
    <2>1. new.data = a.data /\ new.parent = (IF old = NoNodeLeft THEN a.parent ELSE old.parent)
          /\ DOMAIN new = {"data", "parent"} /\ new = [x \in DOMAIN new |-> new[x]]
      BY <1>5
    <2> QED
      BY <1>4, <2>1
  <1>7. ASSUME NEW record, record.parent \in HookFolders, NEW kind
        PROVE  NodeEvent(kind, uuid, record).uuid \in WorkNodes
               /\ NodeEvent(kind, uuid, record).parent \in HookFolders /\ NodeEvent(kind, uuid, record).kind = kind
    BY <1>7 DEF NodeEvent
  <1>8. WorkTypes' /\ \A x \in jobs' : x \in jobs \/ JobOK(x)
    <2>1. CASE a.op = "create" /\ old = NoNodeLeft
      <3>1. /\ workNodes' = [workNodes EXCEPT ![uuid] = new]
            /\ jobs' = jobs \cup HandlersOf(NodeEvent("created", uuid, new), a.user, a.user)
        BY <1>1, <1>2, <1>5, <2>1 DEF Act
      <3>2. WorkTypes'
        BY <1>3, <1>6, <3>1, NewRecord
      <3> QED
        BY <1>6, <1>7, <3>1, <3>2, HandlersStart
    <2>2. CASE a.op = "update" /\ old # NoNodeLeft
      <3>1. /\ workNodes' = [workNodes EXCEPT ![uuid] = new]
            /\ jobs' = jobs \cup HandlersOf(NodeEvent("updated", uuid, new), a.user, a.user)
        BY <1>1, <1>2, <1>5, <2>2 DEF Act
      <3>2. WorkTypes'
        BY <1>3, <1>6, <3>1, NewRecord
      <3> QED
        BY <1>6, <1>7, <3>1, <3>2, HandlersStart
    <2>3. CASE a.op = "move" /\ old # NoNodeLeft
      <3>1. PICK moved : moved = [old EXCEPT !.parent = a.parent]
        OBVIOUS
      <3>2. moved.parent \in HookFolders /\ moved \in [{"data", "parent"} -> {moved.data, moved.parent}]
        <4>1. PICK V : old \in [{"data", "parent"} -> V]
          BY <1>4, <2>3
        <4>2. moved.parent = a.parent /\ DOMAIN moved = {"data", "parent"} /\ moved = [x \in DOMAIN moved |-> moved[x]]
          BY <3>1, <4>1
        <4> QED
          BY <4>2
      <3>3. workNodes' = [workNodes EXCEPT ![uuid] = moved]
        <4>1. workNodes' = [workNodes EXCEPT ![uuid].parent = a.parent]
          BY <1>1, <1>2, <2>3 DEF Act
        <4> QED
          BY <1>2, <1>3, <3>1, <4>1 DEF WorkTypes
      <3>4. jobs' = jobs \cup HandlersOf(NodeEvent("updated", uuid, moved), a.user, a.user)
        <4>1. jobs' = jobs \cup HandlersOf(NodeEvent("updated", uuid, workNodes'[uuid]), a.user, a.user)
          BY <1>1, <1>2, <2>3 DEF Act
        <4>2. workNodes'[uuid] = moved
          BY <1>3, <3>3 DEF WorkTypes
        <4> QED
          BY <4>1, <4>2
      <3>5. WorkTypes'
        BY <1>3, <3>2, <3>3, NewRecord
      <3> QED
        BY <1>7, <3>2, <3>4, <3>5, HandlersStart
    <2>4. CASE a.op = "delete" /\ old # NoNodeLeft
      <3>1. /\ workNodes' = [workNodes EXCEPT ![uuid] = NoNodeLeft]
            /\ jobs' = jobs \cup HandlersOf(NodeEvent("deleted", uuid, old), a.user, a.user)
        BY <1>1, <1>2, <2>4 DEF Act
      <3>2. WorkTypes'
        BY <1>3, <3>1, NewRecord
      <3> QED
        BY <1>4, <1>7, <2>4, <3>1, <3>2, HandlersStart
    <2>5. CASE a.op = "embed" /\ old # NoNodeLeft
      <3>1. /\ workNodes' = workNodes
            /\ jobs' = jobs \cup {Job("automatic", occurred, a.user, a.user, NodeEvent("embedded", uuid, old), "list")}
        BY <1>1, <1>2, <2>5 DEF Act
      <3>2. WorkTypes'
        BY <1>3, <3>1 DEF WorkTypes
      <3>3. PICK event : event = NodeEvent("embedded", uuid, old)
        OBVIOUS
      <3>4. event.uuid \in WorkNodes /\ event.parent \in HookFolders
        BY <1>4, <1>7, <2>5, <3>3
      <3>5. PICK x : x = Job("automatic", occurred, a.user, a.user, event, "list")
        OBVIOUS
      <3>6. JobOK(x)
        BY <3>4, <3>5, HandlersStart
      <3> QED
        BY <3>1, <3>2, <3>3, <3>5, <3>6
    <2> QED
      BY <1>1, <1>2, <2>1, <2>2, <2>3, <2>4, <2>5 DEF Act
  <1>9. \A x \in jobs' : JobOK(x)
    BY <1>8 DEF EngineInv
  <1>10. ASSUME NEW x \in jobs' PROVE JobOK(x)'
    BY <1>3, <1>9, SameFeatures
  <1> QED
    BY <1>8, <1>10 DEF EngineInv

LEMMA ChangeKeeps ==
  ASSUME EngineInv, NEW j \in jobs, NEW uuid \in WorkNodes, ChangeNode(j, uuid)
  PROVE  EngineInv'
  <1>1. WorkTypes /\ JobOK(j) /\ JobTypes(j) /\ features' = features
    BY DEF EngineInv, JobOK, ChangeNode
  <1>2. PICK done : done = [j EXCEPT !.picked = @ \ {uuid}]
    OBVIOUS
  <1>3. /\ done.by = j.by /\ done.at = j.at /\ done.event = j.event /\ done.node = j.node /\ done.left = j.left
        /\ done.ran = j.ran /\ done.edited = j.edited /\ DOMAIN done = JobFields /\ done = [x \in JobFields |-> done[x]]
    <2>1. PICK V : j \in [JobFields -> V]
      BY <1>1 DEF JobTypes
    <2> QED
      BY <1>2, <2>1 DEF JobFields
  <1>4. JobOK(done)
    <2>1. JobTypes(done)
      BY <1>1, <1>3 DEF JobTypes, IsAutomatic
    <2>2. ASSUME IsAutomatic(done), ~done.edited PROVE HandlerOK(done)
      <3>1. HandlerOK(j)
        BY <1>1, <1>3, <2>2 DEF JobOK, IsAutomatic
      <3>2. Due(done) = Due(j) /\ ToRun(done) = ToRun(j) /\ (NoneGiven(done) <=> NoneGiven(j))
            /\ (AllRead(done) <=> AllRead(j)) /\ \A e : Wanted(done, e) <=> Wanted(j, e)
        BY <1>3 DEF Due, ToRun, NoneGiven, AllRead, Wanted
      <3>3. Planned(done) = Planned(j)
        BY <1>3, <3>2 DEF Planned
      <3>4. OnTrack(done) <=> OnTrack(j)
        BY <1>3, <3>2, <3>3 DEF OnTrack
      <3> QED
        BY <1>3, <3>1, <3>2, <3>4 DEF HandlerOK
    <2> QED
      BY <2>1, <2>2 DEF JobOK
  <1>5. PICK old : old = workNodes[uuid]
    OBVIOUS
  <1>6. PICK new : new = [old EXCEPT !.data = j.body.does]
    OBVIOUS
  <1>7. WorkTypes' /\ \A x \in jobs' : x \in jobs \/ JobOK(x)
    <2>1. CASE old # NoNodeLeft /\ GroupsMayWrite(j.groups, uuid) /\ occurred < MaxEvents
      <3>1. /\ workNodes' = [workNodes EXCEPT ![uuid] = new]
            /\ jobs' = (jobs \ {j}) \cup {done} \cup HandlersOf(NodeEvent("updated", uuid, new), j.user, j.root)
        BY <1>2, <1>5, <1>6, <2>1 DEF ChangeNode
      <3>2. new.parent \in HookFolders /\ new \in [{"data", "parent"} -> {new.data, new.parent}]
        <4>1. old \in [{"data", "parent"} -> {old.data, old.parent}] /\ old.parent \in HookFolders
          BY <1>1, <1>5, <2>1 DEF WorkTypes
        <4>2. PICK V : old \in [{"data", "parent"} -> V]
          BY <4>1
        <4>3. new.parent = old.parent /\ DOMAIN new = {"data", "parent"} /\ new = [x \in DOMAIN new |-> new[x]]
          BY <1>6, <4>2
        <4> QED
          BY <4>1, <4>3
      <3>3. WorkTypes'
        BY <1>1, <3>1, <3>2, NewRecord
      <3>4. LET event == NodeEvent("updated", uuid, new) IN
              event.uuid \in WorkNodes /\ event.parent \in HookFolders /\ event.kind = "updated"
        BY <3>2 DEF NodeEvent
      <3> QED
        BY <1>4, <3>1, <3>3, <3>4, HandlersStart
    <2>2. CASE ~(old # NoNodeLeft /\ GroupsMayWrite(j.groups, uuid) /\ occurred < MaxEvents)
      <3>1. JobStep(j, done) /\ UNCHANGED <<workNodes, occurred>>
        BY <1>2, <1>5, <2>2 DEF ChangeNode
      <3> QED
        BY <1>1, <1>4, <3>1 DEF JobStep, WorkTypes
    <2> QED
      BY <2>1, <2>2
  <1>8. \A x \in jobs' : JobOK(x)
    BY <1>7 DEF EngineInv
  <1>9. ASSUME NEW x \in jobs' PROVE JobOK(x)'
    BY <1>1, <1>8, SameFeatures
  <1> QED
    BY <1>7, <1>9 DEF EngineInv

LEMMA AskKeeps ==
  ASSUME EngineInv, NEW r \in Runs, AskFor(r)
  PROVE  EngineInv'
  <1>1. UNCHANGED <<features, workNodes>> /\ r.how \in {"action", "tool", "extension"} /\ r.feature \in FeatureNames /\ r.given \in BOOLEAN
    BY FeaturesAssumption DEF AskFor
  <1>2. PICK entry : entry = [feature |-> r.feature, given |-> r.given, body |-> NoFeature]
    OBVIOUS
  <1>3. PICK j : j = Job(r.how, occurred, r.user, r.user, NoEvent, "feature")
    OBVIOUS
  <1>4. PICK k : k = [j EXCEPT !.left = <<entry>>, !.picked = r.uuids]
    OBVIOUS
  <1>5. k.by = r.how /\ k.at = "feature" /\ k.left = <<entry>> /\ DOMAIN k = JobFields /\ k = [x \in JobFields |-> k[x]]
    <2>1. DOMAIN j = JobFields /\ j = [x \in JobFields |-> j[x]] /\ j.by = r.how /\ j.at = "feature"
      BY <1>3 DEF Job, JobFields
    <2>2. PICK V : j \in [JobFields -> V]
      <3>1. j \in [JobFields -> {j[x] : x \in JobFields}]
        BY <2>1
      <3> QED
        BY <3>1
    <2> QED
      BY <1>4, <2>1, <2>2 DEF JobFields
  <1>6. entry \in Entries
    BY <1>1, <1>2 DEF Entries, Bodies
  <1>7. JobOK(k)
    BY <1>1, <1>5, <1>6 DEF JobOK, JobTypes, IsAutomatic
  <1>8. jobs' = jobs \cup {k}
    BY <1>2, <1>3, <1>4 DEF AskFor
  <1>9. \A x \in jobs' : JobOK(x)
    BY <1>7, <1>8 DEF EngineInv
  <1>10. ASSUME NEW x \in jobs' PROVE JobOK(x)'
    BY <1>1, <1>9, SameFeatures
  <1>11. WorkTypes'
    BY <1>1 DEF EngineInv, WorkTypes
  <1> QED
    BY <1>10, <1>11 DEF EngineInv

LEMMA EditKeeps ==
  ASSUME EngineInv, NEW c \in FeatureChanges, EditFeature(c.feature, c.body)
  PROVE  EngineInv'
  <1>1. /\ features' = [features EXCEPT ![c.feature] = c.body] /\ workNodes' = workNodes
        /\ jobs' = {[j EXCEPT !.edited = TRUE] : j \in jobs}
    BY DEF EditFeature
  <1>2. WorkTypes'
    BY <1>1, FeaturesAssumption DEF EngineInv, WorkTypes, Bodies
  <1>3. ASSUME NEW k \in jobs' PROVE JobOK(k)'
    <2>1. PICK j \in jobs : k = [j EXCEPT !.edited = TRUE]
      BY <1>1
    <2>2. JobTypes(j)
      BY DEF EngineInv, JobOK
    <2>3. /\ k.by = j.by /\ k.at = j.at /\ k.event = j.event /\ k.node = j.node /\ k.left = j.left
          /\ k.edited = TRUE /\ DOMAIN k = JobFields /\ k = [x \in JobFields |-> k[x]]
      <3>1. PICK V : j \in [JobFields -> V]
        BY <2>2 DEF JobTypes
      <3> QED
        BY <2>1, <3>1 DEF JobFields
    <2>4. JobTypes(k)
      BY <2>2, <2>3 DEF JobTypes, IsAutomatic
    <2> QED
      BY <2>3, <2>4 DEF JobOK
  <1> QED
    BY <1>2, <1>3 DEF EngineInv

LEMMA EngineStarts ==
  FeaturesInit => EngineInv
  <1> SUFFICES ASSUME FeaturesInit PROVE EngineInv
    OBVIOUS
  <1>1. features \in [FeatureNames -> Bodies]
    BY FeaturesAssumption DEF FeaturesInit, Bodies
  <1>2. ASSUME NEW n \in WorkNodes, workNodes[n] # NoNodeLeft
        PROVE  workNodes[n].parent \in HookFolders /\ workNodes[n] \in [{"data", "parent"} -> {workNodes[n].data, workNodes[n].parent}]
    <2>1. PICK d : d = {workNodes[n].data}
      OBVIOUS
    <2>2. workNodes[n] \in [data : d, parent : HookFolders]
      BY <1>2, <2>1, FeaturesAssumption DEF FeaturesInit
    <2>3. PICK rec \in [data : d, parent : HookFolders] : rec = workNodes[n]
      BY <2>2
    <2>4. rec.parent \in HookFolders /\ DOMAIN rec = {"data", "parent"} /\ rec = [x \in DOMAIN rec |-> rec[x]]
      OBVIOUS
    <2>5. rec \in [{"data", "parent"} -> {rec.data, rec.parent}]
      BY <2>4
    <2> QED
      BY <2>3, <2>4, <2>5
  <1>3. workNodes = [n \in WorkNodes |-> workNodes[n]]
    BY FeaturesAssumption DEF FeaturesInit
  <1> QED
    BY <1>1, <1>2, <1>3 DEF EngineInv, WorkTypes, FeaturesInit

LEMMA EngineMoves ==
  ASSUME EngineInv, [FeaturesNext]_featureVars
  PROVE  EngineInv'
  <1>1. CASE UNCHANGED featureVars
    <2>1. \A j \in jobs' : JobOK(j)
      BY <1>1 DEF featureVars, EngineInv
    <2>2. ASSUME NEW j \in jobs' PROVE JobOK(j)'
      BY <1>1, <2>1, SameFeatures DEF featureVars
    <2> QED
      BY <1>1, <2>2 DEF featureVars, EngineInv, WorkTypes
  <1>2. CASE FeaturesNext
    BY <1>2, ActKeeps, AskKeeps, EditKeeps, ChangeKeeps, EngineStepKeeps DEF FeaturesNext, EngineStep
  <1> QED
    BY <1>1, <1>2

LEMMA ThoroughAtTheEnd ==
  EngineInv => HandlersAreThorough
  <1> SUFFICES ASSUME EngineInv, NEW j \in jobs, IsAutomatic(j), j.at = "begin", j.left = <<>>, ~j.edited
               PROVE  j.ran = Due(j)
    BY DEF HandlersAreThorough
  <1>1. Due(j) = j.ran \cup Planned(j)
    BY DEF EngineInv, JobOK, HandlerOK, OnTrack
  <1>2. Planned(j) = {}
    BY DEF Planned
  <1> QED
    BY <1>1, <1>2

\* Whatever the features, hooks, nodes and events, and however their handlers
\* overlap, a handler that has come to its end has run all that its event
\* calls for and nothing else, unless features were changed meanwhile.
THEOREM HandlersRunAll ==
  FeaturesSpec => []HandlersAreThorough
  BY EngineStarts, EngineMoves, ThoroughAtTheEnd, PTL DEF FeaturesSpec
=============================================================================

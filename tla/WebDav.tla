------------------------------- MODULE WebDav -------------------------------
(***************************************************************************)
(* The WebDAV interface (src/integration/webdav): a path is resolved to a  *)
(* node by a cache, or by a search for its title and a walk up from every  *)
(* node found; the handlers then call NodeService with the node's uuid.    *)
(* NodeService publishes an event for every creation, update and deletion, *)
(* and the handlers of the events drop what the cache has of the nodes     *)
(* concerned.  The cache is common to all users of a tenant.               *)
(*                                                                         *)
(* One access to the repository is one step.  Whether a handler finds the  *)
(* node locked by another is left open: the request ends, as it does when  *)
(* NodeService refuses it.                                                 *)
(***************************************************************************)
EXTENDS Naturals, Sequences, FiniteSets, SequencesExt

CONSTANTS
    DavNodes,     \* uuids, the root folder's excepted
    DavFolders,   \* those of folders
    DavRoot,
    DavTree,      \* the nodes at the start: uuid -> [parent, title]
    DavClients,   \* one user each
    CanRead,      \* client -> the nodes its user may read
    DavRequests,  \* client -> what it asks: [op, path, to]
    FindPage,     \* how many nodes a search returns at most
    MaxEntries,
    MaxDepth,     \* bound: folders above a node
    MaxAsked,     \* bound: requests in all
    NoNode, NoRequest

\* A request names paths, and who may read nodes reads nodes; the folders of
\* the nodes there at the start are there.
ASSUME DavAssumption ==
    /\ DavRoot \notin DavNodes /\ MaxEntries \in Nat \ {0}
    /\ \A c \in DavClients :
         /\ CanRead[c] \subseteq DavNodes
         /\ \A r \in DavRequests[c] : r.path \in Seq(STRING) /\ r.to \in Seq(STRING)
    /\ DOMAIN DavTree \subseteq DavNodes
    /\ \A n \in DOMAIN DavTree :
         DavTree[n].parent = DavRoot \/ DavTree[n].parent \in DavFolders \cap DOMAIN DavTree

VARIABLES
    tree,        \* the uuid of every node that exists -> [parent, title]
    used,        \* the uuids given out
    cache,       \* path -> [node, expired, shaken, last], last its place in the order of use
    announced,   \* published and not yet handled: the nodes each event is about
    dav,         \* client -> its request, or NoRequest
    asked        \* how many there have been

davVars == <<tree, used, cache, announced, dav, asked>>

Exists(n) == n = DavRoot \/ n \in DOMAIN tree
ParentOf(n) == tree[n].parent
\* The folders above a node, the nearest first.
Above(n) ==
    LET up[k \in 0..MaxDepth] ==
          IF k = 0 THEN <<n>>
          ELSE LET last == Last(up[k - 1]) IN
            IF last = DavRoot \/ ~Exists(last) THEN up[k - 1] ELSE Append(up[k - 1], ParentOf(last))
    IN Tail(up[MaxDepth])
Written(n, parent, title) ==
    [k \in DOMAIN tree \cup {n} |-> IF k = n THEN [parent |-> parent, title |-> title] ELSE tree[k]]

\* The nodes that bear the titles of a path, each in the one before it.
Line(top, path, line) == \A i \in 1..Len(path) :
    tree[line[i]].title = path[i] /\ ParentOf(line[i]) = IF i = 1 THEN top ELSE line[i - 1]
Lines(top, path) == {line \in [1..Len(path) -> DOMAIN tree] : Line(top, path, line)}
\* A path leads from a folder down to the node, through the folder "via".
Leads(top, path, n) == \E line \in Lines(top, path) : line[Len(path)] = n
Passes(path, n, via) ==
    \E line \in Lines(DavRoot, path) : (\E i \in 1..(Len(path) - 1) : line[i] = via) /\ line[Len(path)] = n
IsAt(n, path) == IF path = <<>> THEN n = DavRoot ELSE Leads(DavRoot, path, n)

----------------------------------------------------------------------------

(* WebDAVPathCache. *)

CacheEntry(n, expired, shaken, last) == [node |-> n, expired |-> expired, shaken |-> shaken, last |-> last]
\* The entries of some of the paths.  The counter of accesses is kept small: it
\* numbers the entries there are.
Kept(paths) == [p \in paths |->
    CacheEntry(cache[p].node, cache[p].expired, cache[p].shaken,
          Cardinality({q \in paths : cache[q].last < cache[p].last}))]
Without(path) == Kept(DOMAIN cache \ {path})
\* An access: the entry becomes the last used.
Accessed(paths, path, n, shaken) ==
    LET kept == Kept(paths \ {path}) IN
      [p \in DOMAIN kept \cup {path} |->
         IF p = path THEN CacheEntry(n, FALSE, shaken, Cardinality(DOMAIN kept)) ELSE kept[p]]
\* get, of an entry that is there and not expired.
Touched(path) == Accessed(DOMAIN cache, path, cache[path].node, cache[path].shaken)
\* set: the entry used least recently makes room for a new path.
Stored(path, n, shaken) ==
    LET full == path \notin DOMAIN cache /\ Cardinality(DOMAIN cache) >= MaxEntries
        room == {p \in DOMAIN cache : full => \E q \in DOMAIN cache : cache[q].last < cache[p].last}
    IN Accessed(room, path, n, shaken)
\* Variant: only the first path of a node.
InvalidatedOnce(nodes) ==
    LET hit == {p \in DOMAIN cache : cache[p].node \in nodes} IN
      Kept(IF hit = {} THEN DOMAIN cache
           ELSE DOMAIN cache \ {CHOOSE p \in hit : \A q \in hit : cache[p].last <= cache[q].last})
\* invalidateByUUID, of each of the nodes.
Invalidated(nodes) == Kept({p \in DOMAIN cache : cache[p].node \notin nodes})

\* For the properties: the entries below a folder that moved no longer answer
\* to any event of their own.
Shaken(via) == [p \in DOMAIN cache |->
    LET e == cache[p] IN CacheEntry(e.node, e.expired, e.shaken \/ Passes(p, e.node, via), e.last)]

\* Time passes: an entry is older than five minutes.
Outlive(path) ==
    /\ ~cache[path].expired
    /\ cache' = [p \in DOMAIN cache |->
         LET e == cache[p] IN CacheEntry(e.node, e.expired \/ p = path, e.shaken, e.last)]
    /\ UNCHANGED <<tree, used, announced, dav, asked>>

----------------------------------------------------------------------------

(* resolvePath. *)

\* The paths a handler resolves, in turn: the parent of the path first where
\* it needs one.
ParentPath(path) == Front(path)
ToResolve(r) ==
    CASE r.op = "put"   -> <<ParentPath(r.path), r.path>>
      [] r.op = "mkcol" -> <<ParentPath(r.path)>>
      [] r.op \in {"copy", "move"} -> <<r.path, ParentPath(r.to)>>
      [] OTHER -> <<r.path>>

\* A request with what it has still to resolve and what it has resolved; others
\* crossed the resolution in progress when they have changed the tree since.
Request(r, at, left, nodes, walks, crossed) ==
    [ask |-> r, at |-> at, left |-> left, nodes |-> nodes, walks |-> walks, crossed |-> crossed]
Crossed(c) == [d \in DavClients |->
    IF d = c \/ dav[d] = NoRequest THEN dav[d]
    ELSE LET q == dav[d] IN Request(q.ask, q.at, q.left, q.nodes, q.walks, TRUE)]

Ask(c, r) ==
    /\ dav[c] = NoRequest /\ asked < MaxAsked
    /\ asked' = asked + 1
    /\ dav' = [dav EXCEPT ![c] = Request(r, "look", ToResolve(r), <<>>, <<>>, FALSE)]
    /\ UNCHANGED <<tree, used, cache, announced>>

Goto(c, at, walks) ==
    LET q == dav[c] IN dav' = [dav EXCEPT ![c] = Request(q.ask, at, q.left, q.nodes, walks, q.crossed)]
\* A resolution has an answer; the next begins, or the handler goes on.
Settled(c, n) ==
    LET q == dav[c] IN
      dav' = [dav EXCEPT ![c] = Request(q.ask, IF Len(q.left) = 1 THEN "act" ELSE "look", Tail(q.left),
                                        Append(q.nodes, n), <<>>, FALSE)]
\* There is none: only a PUT of a new file goes on.
Unresolved(c) ==
    IF dav[c].ask.op = "put" /\ Len(dav[c].left) = 1 THEN Settled(c, NoNode)
    ELSE dav' = [dav EXCEPT ![c] = NoRequest]

Gettable(c, n) == Exists(n) /\ (n = DavRoot \/ n \in CanRead[c])

Look(c) ==
    /\ dav[c] # NoRequest /\ dav[c].at = "look"
    /\ LET path == Head(dav[c].left) IN
         \/ path \notin DOMAIN cache /\ Goto(c, "find", <<>>) /\ UNCHANGED cache
         \/ /\ path \in DOMAIN cache /\ cache[path].expired
            /\ Goto(c, "find", <<>>) /\ cache' = Without(path)
         \/ /\ path \in DOMAIN cache /\ ~cache[path].expired
            /\ Goto(c, "verify", <<cache[path].node>>) /\ cache' = Touched(path)
    /\ UNCHANGED <<tree, used, announced, asked>>

\* The node is read again, to see whether this user may have it.
Verify(c) ==
    /\ dav[c] # NoRequest /\ dav[c].at = "verify"
    /\ LET n == dav[c].walks[1] IN
         \/ Gettable(c, n) /\ Settled(c, n) /\ UNCHANGED cache
         \/ ~Gettable(c, n) /\ Goto(c, "find", <<>>) /\ cache' = Without(Head(dav[c].left))
    /\ UNCHANGED <<tree, used, announced, asked>>

Crumbs(n, at, crumbs, ok) == [node |-> n, at |-> at, crumbs |-> crumbs, ok |-> ok]
Walk(n) == Crumbs(n, n, <<>>, TRUE)
\* The root is known; any other path is searched for by its title, one page.
Pages(hits) == IF Cardinality(hits) <= FindPage THEN {hits} ELSE {p \in SUBSET hits : Cardinality(p) = FindPage}
Hits(c, path) == {n \in CanRead[c] \cap DOMAIN tree : tree[n].title = Last(path)}
Find(c) ==
    /\ dav[c] # NoRequest /\ dav[c].at = "find"
    /\ LET path == Head(dav[c].left) IN
         \/ path = <<>> /\ Settled(c, DavRoot) /\ cache' = Stored(path, DavRoot, dav[c].crossed)
         \/ path # <<>> /\ Hits(c, path) = {} /\ Unresolved(c) /\ UNCHANGED cache
         \/ /\ path # <<>> /\ UNCHANGED cache
            /\ \E page \in Pages(Hits(c, path)) \ {{}} : \E found \in SetToSeqs(page) :
                 Goto(c, "walk", [i \in DOMAIN found |-> Walk(found[i])])
    /\ UNCHANGED <<tree, used, announced, asked>>

\* breadcrumbs: one folder further up.  A folder that is gone ends the walk
\* as the root does; a node that is gone ends it without an answer.
Ended(w) == w.at = DavRoot
Step(w) ==
    IF ~Exists(w.at) THEN Crumbs(w.node, DavRoot, w.crumbs, w.at # w.node)
    ELSE Crumbs(w.node, ParentOf(w.at), IF w.at = w.node THEN <<>> ELSE <<tree[w.at].title>> \o w.crumbs, w.ok)
WalkUp(c) ==
    /\ dav[c] # NoRequest /\ dav[c].at = "walk"
    /\ LET walks == dav[c].walks IN \E i \in DOMAIN walks :
         /\ ~Ended(walks[i])
         /\ Goto(c, "walk", [j \in DOMAIN walks |-> IF j = i THEN Step(walks[j]) ELSE walks[j]])
    /\ UNCHANGED <<tree, used, cache, announced, asked>>

\* The first of the nodes found whose folders are those of the path.
Fit(walks, path) == {i \in DOMAIN walks : walks[i].ok /\ walks[i].crumbs = Front(path)}
Choose(c) ==
    /\ dav[c] # NoRequest /\ dav[c].at = "walk"
    /\ LET walks == dav[c].walks
           path == Head(dav[c].left)
       IN /\ \A i \in DOMAIN walks : Ended(walks[i])
          /\ \/ Fit(walks, path) = {} /\ Unresolved(c) /\ UNCHANGED cache
             \/ \E i \in Fit(walks, path) :
                  /\ \A j \in Fit(walks, path) : i <= j
                  /\ Settled(c, walks[i].node) /\ cache' = Stored(path, walks[i].node, dav[c].crossed)
    /\ UNCHANGED <<tree, used, announced, asked>>

----------------------------------------------------------------------------

(* What the handlers ask of NodeService, and the events it publishes. *)

\* For each event, the nodes its handler invalidates.
CreatedEvent(parent) == {parent}
DeletedEvent(n, parent) == {n, parent}
\* An update that names parent and title; one that does not name the parent.
MovedEvent(n, old, new) == IF old = new THEN {n} ELSE {n, old.parent, new.parent}
RenamedEvent(n) == {n}

Publish(event) == announced' = announced \cup {event}
End(c) == dav' = [Crossed(c) EXCEPT ![c] = NoRequest]
Acting(c, ops) == dav[c] # NoRequest /\ dav[c].at = "act" /\ dav[c].ask.op \in ops

\* GET, PROPFIND, LOCK and UNLOCK change neither the tree nor the cache.
Respond(c) ==
    /\ Acting(c, {"get"})
    /\ dav' = [dav EXCEPT ![c] = NoRequest]
    /\ UNCHANGED <<tree, used, cache, announced, asked>>
\* Locked, not permitted, not a folder, gone: the request ends.
Refused(c) ==
    /\ Acting(c, {"put", "delete", "mkcol", "copy", "move"})
    /\ dav' = [dav EXCEPT ![c] = NoRequest]
    /\ UNCHANGED <<tree, used, cache, announced, asked>>

Place(n, parent, title) ==
    /\ n \in DavNodes \ used
    /\ parent \in DavFolders \cup {DavRoot} /\ Exists(parent)
    /\ tree' = Written(n, parent, title)
    /\ used' = used \cup {n}
    /\ Publish(CreatedEvent(parent))
    /\ UNCHANGED <<cache, asked>>
PutNew(c) ==
    /\ Acting(c, {"put"}) /\ dav[c].nodes[2] = NoNode
    /\ \E n \in DavNodes \ DavFolders : Place(n, dav[c].nodes[1], Last(dav[c].ask.path))
    /\ End(c)
\* updateFile, of a file: the record changes nowhere the cache looks.
PutOver(c) ==
    /\ Acting(c, {"put"}) /\ dav[c].nodes[2] \in DavNodes \ DavFolders /\ Exists(dav[c].nodes[2])
    /\ Publish(RenamedEvent(dav[c].nodes[2]))
    /\ End(c)
    /\ UNCHANGED <<tree, used, cache, asked>>
Mkcol(c) ==
    /\ Acting(c, {"mkcol"})
    /\ \E n \in DavFolders : Place(n, dav[c].nodes[1], Last(dav[c].ask.path))
    /\ End(c)
\* The copy is created as "<title> 2", and then renamed.
Copy(c) ==
    /\ Acting(c, {"copy"}) /\ dav[c].nodes[1] \in DavNodes \ DavFolders /\ Exists(dav[c].nodes[1])
    /\ LET q == dav[c] IN \E n \in DavNodes \ DavFolders :
         /\ Place(n, q.nodes[2], tree[q.nodes[1]].title \o " 2")
         /\ dav' = [Crossed(c) EXCEPT ![c] = Request(q.ask, "rename", <<>>, <<n>>, <<>>, FALSE)]
RenameCopy(c) ==
    /\ dav[c] # NoRequest /\ dav[c].at = "rename"
    /\ LET n == dav[c].nodes[1] IN
         \/ /\ Exists(n)
            /\ tree' = Written(n, ParentOf(n), Last(dav[c].ask.to)) /\ Publish(RenamedEvent(n))
         \/ ~Exists(n) /\ UNCHANGED <<tree, announced>>
    /\ End(c)
    /\ UNCHANGED <<used, cache, asked>>
\* A folder goes with its children: here, when it has none (see FolderTree).
Delete(c) ==
    /\ Acting(c, {"delete"})
    /\ LET n == dav[c].nodes[1] IN
         /\ n \in DOMAIN tree /\ \A k \in DOMAIN tree : ParentOf(k) # n
         /\ Publish(DeletedEvent(n, ParentOf(n)))
         /\ tree' = [k \in DOMAIN tree \ {n} |-> tree[k]]
    /\ End(c)
    /\ UNCHANGED <<used, cache, asked>>
\* Bound: a folder is not put below itself (see FolderTree).
Move(c) ==
    /\ Acting(c, {"move"})
    /\ LET n == dav[c].nodes[1] to == dav[c].nodes[2]
           new == [parent |-> to, title |-> Last(dav[c].ask.to)] IN
         /\ n \in DOMAIN tree
         /\ to \in DavFolders \cup {DavRoot} /\ Exists(to)
         /\ to = DavRoot \/ (n # to /\ n \notin ToSet(Above(to)) /\ Len(Above(to)) < MaxDepth - 1)
         /\ tree' = Written(n, new.parent, new.title)
         /\ Publish(MovedEvent(n, tree[n], new))
         /\ cache' = Shaken(n)
    /\ End(c)
    /\ UNCHANGED <<used, asked>>

\* The bus delivers an event to the handlers of the cache.
Handle(event) ==
    /\ announced' = announced \ {event}
    /\ cache' = Invalidated(event)
    /\ UNCHANGED <<tree, used, dav, asked>>

----------------------------------------------------------------------------

DavInit ==
    /\ tree = DavTree
    /\ used = DOMAIN DavTree
    /\ cache = <<>>
    /\ announced = {}
    /\ dav = [c \in DavClients |-> NoRequest]
    /\ asked = 0

DavNext ==
    \/ \E c \in DavClients :
         \/ \E r \in DavRequests[c] : Ask(c, r)
         \/ Look(c) \/ Verify(c) \/ Find(c) \/ WalkUp(c) \/ Choose(c)
         \/ Respond(c) \/ Refused(c) \/ PutNew(c) \/ PutOver(c) \/ Mkcol(c)
         \/ Copy(c) \/ RenameCopy(c) \/ Delete(c) \/ Move(c)
    \/ \E path \in DOMAIN cache : Outlive(path)
    \/ \E event \in announced : Handle(event)

DavSpec == DavInit /\ [][DavNext]_davVars

----------------------------------------------------------------------------

\* The entries of the path cache (webdav_path_cache.ts): what the cache has of
\* a path is where the path says, unless the event that drops it is on its way,
\* a folder above it was moved or renamed since it was stored, or something
\* changed while it was being resolved.
CacheFollowsTree ==
    \A path \in DOMAIN cache :
      \/ cache[path].shaken
      \/ \E event \in announced : cache[path].node \in event
      \/ IsAt(cache[path].node, path)

=============================================================================

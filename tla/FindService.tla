---------------------------- MODULE FindService ----------------------------
(***************************************************************************)
(* Searches (src/application/nodes/find_service.ts).  A search adds the    *)
(* filters that stand for the permission to read, asks the repository      *)
(* which folders satisfy those meant for the parent, and then asks it for  *)
(* the nodes: each question is an await, and others may change the folders *)
(* and move the nodes between them.                                        *)
(***************************************************************************)
EXTENDS AuthorizationService, FiniteSets, FiniteSetsExt

CONSTANTS
    Root,           \* Nodes.ROOT_FOLDER_UUID
    Uuids,          \* of the nodes that exist
    Repositories,   \* what the repository may hold at the start
    Replacements,   \* node records that an update may write
    Queries,        \* what people search for
    Searches,       \* who searches which of them
    Meanings,       \* filters that some of them are the notation of
    Title,          \* uuid -> its place in the order of titles
    Threshold,      \* relevanceThreshold of the embeddings provider
    TopK,           \* least number of neighbours asked for (100 in the code)
    MaxChanges      \* bound: updates by others

VARIABLES
    nodes,      \* NodeRepository: uuid -> record
    seen,       \* history: what the repository has held since the search began
    changes,
    who, query, \* the principal and what it searches
    stage,      \* idle, embed, vector, resolve, done, refused
    groups,     \* the groups of filters, resolved
    pending,    \* those that still ask something of the parent
    ranked,     \* the result is ordered by score
    result

vars == <<nodes, seen, changes, who, query, stage, groups, pending, ranked, result>>

\* The root folder has no record; the service builds it.
RootFolder ==
    [uuid |-> Root, mimetype |-> "folder", parent |-> Root, owner |-> RootUser,
     group |-> Admins, granted |-> {"Read", "Write", "Export"}, authenticated |-> {"Read"},
     anonymous |-> {}, advanced |-> <<>>]

\* What a repository r may hold under the uuid u: every node has these fields,
\* a folder those of its permissions too, and the parent is a folder of r.
NodeFields == {"uuid", "mimetype", "parent"}
FolderFields == {"owner", "group", "granted", "authenticated", "anonymous", "advanced"}
MayHold(r, u, n) ==
    /\ n.uuid = u /\ NodeFields \subseteq DOMAIN n
    /\ n.mimetype = "folder" =>
         /\ FolderFields \subseteq DOMAIN n
         /\ \A g \in DOMAIN n.advanced : n.advanced[g] # Undefined
    /\ \A field \in DOMAIN n : n[field] # Undefined
    /\ n.parent = Root \/ (n.parent \in Uuids /\ r[n.parent].mimetype = "folder")

\* Titles are places in an order, those of equal titles the repository's own.
\* A replacement is of a node that is there, and leaves a folder a folder.
\* No group has the name of a field.
ASSUME FindAssumption ==
    /\ Root \notin Uuids /\ IsFiniteSet(Uuids)
    /\ \A field \in DOMAIN RootFolder : RootFolder[field] # Undefined
    /\ {TopK, MaxChanges, Threshold} \subseteq Nat
    /\ Title \in [Uuids -> Nat] /\ \A u, v \in Uuids : Title[u] = Title[v] => u = v
    /\ Searches \subseteq Principals \X Queries
    /\ \A q \in Queries : /\ {q.size, q.token} \subseteq Nat \ {0}
                          /\ q.kind \in {"filters", "text", "list", "semantic"}
                          /\ q.kind = "list" => q.folder \in Uuids \cup {Root}
                          /\ q.kind = "semantic" => q.score \in [Uuids -> Nat]
    /\ \A p \in Principals : ToSet(p.groups) \cap (NodeFields \cup FolderFields) = {}
    /\ \A r \in Repositories :
         /\ DOMAIN r = Uuids /\ \A u \in Uuids : MayHold(r, u, r[u])
         /\ \A n \in Replacements :
              /\ n.uuid \in Uuids /\ MayHold(r, n.uuid, n)
              /\ n.mimetype = "folder" <=> r[n.uuid].mimetype = "folder"
         /\ \A p \in Principals, n \in {r[u] : u \in Uuids} \cup Replacements :
              ToSet(p.groups) \cap DOMAIN n = {}

Init ==
    /\ nodes \in Repositories
    /\ seen = {nodes} /\ changes = 0
    /\ \E s \in Searches : who = s[1] /\ query = s[2]
    /\ stage = "idle"
    /\ groups = {} /\ pending = {} /\ ranked = FALSE
    /\ result = <<>>

----------------------------------------------------------------------------
(* The repository                                                          *)

Matching(filters) == {u \in Uuids : SatisfiedBy(filters, nodes[u])}

ByTitle(a, b) == Title[a] < Title[b]
ByScore(a, b) == query.score[a] > query.score[b] \/ (query.score[a] = query.score[b] /\ Title[a] < Title[b])

IsFolder(u) == nodes[u].mimetype = "folder"
FoldersFirst(a, b) ==
    (IsFolder(a) /\ ~IsFolder(b)) \/ ((IsFolder(a) <=> IsFolder(b)) /\ ByTitle(a, b))

Page(seq, size, token) ==
    SubSeq(seq, (token - 1) * size + 1, IF token * size < Len(seq) THEN token * size ELSE Len(seq))

\* vectorSearch: query.score is each node's similarity to what is searched, 0 for
\* one without an embedding; the k nearest neighbours, whoever may read them.
Neighbours(k) ==
    {u \in Uuids : query.score[u] > 0 /\ Cardinality({v \in Uuids : ByScore(v, u)}) < k}

\* topK: how many of them a page looks at.
\* Variant: as many as the pages up to it hold.
LookAtPages(token) == query.size * token
LookAt(token) == Max({TopK, query.size * token})
Nearest == Neighbours(LookAt(query.token))

----------------------------------------------------------------------------
(* A search                                                                *)

\* A text that does not parse is looked for in the nodes' own text.
Fulltext(words) == {{F("fulltext", "match", words)}}
FiltersOf(q) ==
    IF q.kind = "filters" THEN q.filters
    ELSE IF q.kind = "list" THEN {{F("parent", "==", q.folder)}}
    ELSE IF q.kind = "semantic" \/ Parse(q.text) = {} THEN Fulltext(q.text)
    ELSE CHOOSE filters \in Parse(q.text) : TRUE

AsksParent(group) == \E f \in group : f.at

\* The rest of find: permission filters, and the questions they lead to.  An
\* empty group is left out.
FindWith(filters, isRanked) ==
    LET all == WithPermissions(filters, who, "Read")
    IN  /\ pending' = {g \in all : AsksParent(g)}
        /\ groups' = {g \in all : ~AsksParent(g)} \ {{}}
        /\ ranked' = isRanked
        /\ stage' = "resolve"
        /\ UNCHANGED result

\* NodeService.list asks for Read on the folder, then searches its children.
MayList(f) ==
    LET folder == IF f = Root THEN RootFolder ELSE nodes[f]
    IN  folder.mimetype = "folder" /\ IsPrincipalAllowedTo(who, folder, "Read")

Begin ==
    /\ stage = "idle"
    /\ seen' = {nodes}
    /\ \/ query.kind \in {"filters", "text"} /\ FindWith(FiltersOf(query), FALSE)
       \/ /\ query.kind = "list" /\ MayList(query.folder)
          /\ FindWith(FiltersOf(query), FALSE)
       \/ /\ query.kind = "list" /\ ~MayList(query.folder)
          /\ stage' = "refused"
          /\ UNCHANGED <<groups, pending, ranked, result>>
       \/ /\ query.kind = "semantic"
          /\ stage' = "embed"
          /\ UNCHANGED <<groups, pending, ranked, result>>
    /\ UNCHANGED <<nodes, changes, who, query>>

\* No embeddings, a provider or a repository that fails: the text is searched.
FallBack ==
    /\ stage \in {"embed", "vector"}
    /\ FindWith(FiltersOf(query), FALSE)
    /\ UNCHANGED <<nodes, seen, changes, who, query>>

Embed ==
    /\ stage = "embed"
    /\ stage' = "vector"
    /\ UNCHANGED <<nodes, seen, changes, who, query, groups, pending, ranked, result>>

\* #performSemanticSearch: the relevant neighbours become a filter.
VectorSearch ==
    LET relevant == {u \in Nearest : query.score[u] >= Threshold}
    IN  /\ stage = "vector"
        /\ \/ relevant = {} /\ stage' = "done" /\ UNCHANGED <<groups, pending, ranked, result>>
           \/ relevant # {} /\ FindWith({{F("uuid", "in", relevant)}}, TRUE)
        /\ UNCHANGED <<nodes, seen, changes, who, query>>

\* #toFiltersWithAtResolved: folders, the root too, that satisfy what is asked
\* of the parent; without any the group is dropped.  Of several filters of the
\* field "parent" one is asked, the first in the code, and none is kept.
OfField(group, field) == {f \in group : ~f.at /\ f.field = field}
Asked(group) ==
    {F(f.field, f.op, f.value) : f \in {f \in group : f.at}}
       \cup {F("mimetype", "==", "folder")}
       \cup LET ofParent == OfField(group, "parent")
                first == CHOOSE f \in ofParent : TRUE
            IN  IF ofParent = {} THEN {} ELSE {F("uuid", first.op, first.value)}
Folders(filters) ==
    Matching(filters) \cup IF SatisfiedBy(filters, RootFolder) THEN {Root} ELSE {}

Resolved(group, parents) ==
    IF parents = {} THEN {}
    ELSE {{f \in group : ~f.at /\ f.field # "parent"} \cup {F("parent", "in", parents)}}

\* Some of the questions are answered: one at a time while something may
\* change between them, all of them when nothing can.
Resolve(answered) ==
    /\ stage = "resolve" /\ pending # {}
    /\ pending' = pending \ answered
    /\ groups' = groups \cup UNION {Resolved(g, Folders({Asked(g)})) : g \in answered}
    /\ UNCHANGED <<nodes, seen, changes, who, query, stage, ranked, result>>
SomeAnswered ==
    \E answered \in IF changes < MaxChanges THEN {{g} : g \in pending} ELSE {pending} :
       Resolve(answered)

\* The nodes of the page, or for a ranked search of the whole answer, ordered
\* by score and cut afterwards.
Precedes(a, b) ==
    IF ranked THEN ByScore(a, b)
    ELSE IF query.kind = "list" THEN FoldersFirst(a, b) ELSE ByTitle(a, b)
InOrder(found) ==
    CHOOSE seq \in SetToSeqs(found) : \A i, j \in DOMAIN seq : i < j => Precedes(seq[i], seq[j])
Answer ==
    /\ stage = "resolve" /\ pending = {}
    /\ result' = Page(InOrder(Matching(groups)), query.size, query.token)
    /\ stage' = "done"
    /\ UNCHANGED <<nodes, seen, changes, who, query, groups, pending, ranked>>

\* Somebody else updates a node: other permissions, another parent.
Change ==
    /\ changes < MaxChanges /\ stage \in {"embed", "vector", "resolve"}
    /\ \E r \in Replacements :
         /\ nodes[r.uuid] # r
         /\ nodes' = [nodes EXCEPT ![r.uuid] = r]
    /\ seen' = seen \cup {nodes'}
    /\ changes' = changes + 1
    /\ UNCHANGED <<who, query, stage, groups, pending, ranked, result>>

Next ==
    \/ Begin \/ Embed \/ VectorSearch \/ FallBack \/ SomeAnswered \/ Answer \/ Change

Spec == Init /\ [][Next]_vars

----------------------------------------------------------------------------
(* Properties                                                              *)

ParentOfNode(store, n) == IF n.parent = Root THEN RootFolder ELSE store[n.parent]
FolderOf(store, n) == IF n.mimetype = "folder" THEN n ELSE ParentOfNode(store, n)

\* What get asks: Read on a folder itself, and on the parent of any node.
MayGet(store, n) ==
    LET parent == ParentOfNode(store, n)
    IN  /\ n.mimetype = "folder" => IsPrincipalAllowedTo(who, n, "Read")
        /\ parent.mimetype = "folder" /\ IsPrincipalAllowedTo(who, parent, "Read")

\* A search shows a folder that may be read whatever its own parent says.
Readable(store, n) ==
    \/ MayGet(store, n)
    \/ n.mimetype = "folder" /\ IsPrincipalAllowedTo(who, n, "Read")

\* The permission comes from an advanced grant to one of the principal's groups
\* on a folder of another group, which the check ignores and a search does not.
GrantedToOutsider(store, n) ==
    LET folder == FolderOf(store, n)
    IN  /\ ~IsMember(who, folder.group)
        /\ \E g \in DOMAIN folder.advanced : IsMember(who, g) /\ "Read" \in folder.advanced[g]

\* The permission comes from the folder's group alone, which is not the first
\* of the principal's groups; a search looks at the first only.
GrantedToOtherGroup(store, n) ==
    LET folder == FolderOf(store, n)
    IN  /\ folder.group # Head(who.groups)
        /\ ~IsPrincipalAllowedTo(who, [folder EXCEPT !.granted = {}], "Read")

\* What filters ask: a group of them what they say, those with an "@" of the
\* node's parent.  An empty group among others says nothing.
FitsGroup(store, group, n) == \A f \in group :
    IF f.at THEN SatisfiesFilter(ParentOfNode(store, n), F(f.field, f.op, f.value))
    ELSE SatisfiesFilter(n, f)
Fits(store, filters, n) ==
    filters \ {{}} = {} \/ \E group \in filters \ {{}} : FitsGroup(store, group, n)

\* What a search finds may be read as it is found, through a folder that
\* granted it at some moment since the search began, however the nodes and
\* the folders changed between its questions.  A search whose questions all
\* find no folder is left out: it asks the repository for nothing in
\* particular and gets every node (find_service.ts:123-130).
FoundIsReadable ==
    stage = "done" /\ groups # {} => \A u \in ToSet(result) :
        \E store \in seen : Readable(store, nodes[u]) \/ GrantedToOutsider(store, nodes[u])

\* What could be read throughout and is what the filters ask for is found: the
\* permission filters stand for the check, and the folders found for the
\* questions about the parent.
ReadableIsFound ==
    stage = "done" /\ changes = 0 /\ query.kind # "semantic" /\ query.token = 1 =>
       \A u \in Uuids :
          Readable(nodes, nodes[u]) /\ ~GrantedToOtherGroup(nodes, nodes[u])
             /\ Fits(nodes, FiltersOf(query), nodes[u])
             /\ Len(result) < query.size
          => u \in ToSet(result)

\* A text means the filters it is the notation of, delimiters in quotes and all,
\* unless a word of a filter holds the letters of an operator that is tried
\* before the filter's own, or the field those of its own: then, and only then,
\* another operator is taken for it, or the same too early, and the search is
\* for something else (nodes_filters.ts:336-342).
Rank(op) == First({k \in DOMAIN OPERATORS : OPERATORS[k] = op})
Words(f) == {f.field} \cup
    UNION {ToSet(v) : v \in IF f.op \in ARRAY_VALUE_OPERATORS THEN f.value ELSE {f.value}}
Mistaken(f) ==
    \/ f.op \in Letters(f.field)
    \/ \E word \in Words(f) : \E op \in Letters(word) : Rank(op) < Rank(f.op)
TextIsUnderstood ==
    query.kind = "text" =>
       \A filters \in Meanings : query.text = Render(filters) =>
          (FiltersOf(query) = filters <=> \A f \in UNION filters : ~Mistaken(f))

\* What the page t of the same search shows: of the neighbours it looks at and
\* that may be read, those that have as many before them as the pages before hold.
PageOf(t) ==
    LET answer == Matching(groups) \cap Neighbours(LookAt(t))
    IN  {u \in answer : Cardinality({v \in answer : ByScore(v, u)})
                          \in (t - 1) * query.size .. t * query.size - 1}

\* A ranked page holds no node while a better one is on no page up to this one,
\* readable and among the first TopK neighbours, which every page looks at.  Of
\* those further away it may: page t looks at them only if size * t reaches them,
\* and where many neighbours may not be read their place is on an earlier page,
\* which did not (find_service.ts:171, 218-220).
BestFirst ==
    stage = "done" /\ ranked /\ changes = 0 =>
       \A i \in DOMAIN result, u \in Neighbours(TopK) :
          Readable(nodes, nodes[u]) /\ ~GrantedToOtherGroup(nodes, nodes[u])
             /\ ByScore(u, result[i]) /\ query.score[u] >= Threshold
          => \/ \E j \in 1..i : result[j] = u
             \/ \E t \in 1..(query.token - 1) : u \in PageOf(t)
===========================================================================

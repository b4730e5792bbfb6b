-------------------------- MODULE NodeRepositories --------------------------
(***************************************************************************)
(* The repositories of node records (src/adapters/*/*_node_repository.ts): *)
(* in memory, in memory with a JSON file behind it, and in SQLite,         *)
(* PostgreSQL and MongoDB, under callers whose calls interleave, saves     *)
(* that fail and a process that stops.                                     *)
(***************************************************************************)
EXTENDS FilterQueries

CONSTANTS
    Uuids, Callers,
    Bodies,         \* what a node may hold
    Contents,       \* texts that were embedded
    ObjectIdOf,     \* uuid -> the identifier MongoDB knows it by
    Queries,        \* filters that are asked
    NodeBackends,   \* the repositories considered
    MaxNodeFaults   \* failing saves and restarts, at most

ASSUME NodeBackendsAssumption ==
    NodeBackends \subseteq {"inmem", "flat_file", "sqlite", "postgres", "mongodb"}

CONSTANTS None, Torn, Idle

\* No record is none of the records, no call none of the calls.
ASSUME NoRecordAssumption ==
    /\ None \notin Bodies
    /\ None \notin [uuid : Uuids, body : Bodies, content : Contents \cup {None}]
    /\ Idle \notin [uuid : Uuids, body : Bodies \cup {None}]

\* A filter that is asked compares with a value, and a match with texts.
ASSUME QueriesAssumption ==
    \A f \in UNION UNION Queries :
      /\ f = F(f.field, f.op, f.value) /\ f.value # Undefined
      /\ f.op \in ARRAY_VALUE_OPERATORS => Undefined \notin f.value
      /\ f.op = "match" => /\ f.value \in Seq(STRING)
                           /\ \A body \in Bodies : Value(body, f) \in Seq(STRING) \cup {Undefined}

VARIABLES
    nodeBackend,
    held,       \* key -> the record of the repository
    file,       \* nodes_repo.json: key -> record, or Torn
    open,       \* whether the repository could be opened
    nodeCalls,  \* caller -> the update or deletion that has found its node
    acked,      \* uuid -> the body last reported as stored
    doubt,      \* uuids whose last call did not do what it reported
    nodeFaults

nodeVars == <<nodeBackend, held, file, open, nodeCalls, acked, doubt, nodeFaults>>

----------------------------------------------------------------------------

InProcess == nodeBackend \in {"inmem", "flat_file"}

\* toObjectId keeps the last four characters of a uuid.
Key(u) == IF nodeBackend = "mongodb" THEN ObjectIdOf[u] ELSE u
Keys == Uuids \cup {ObjectIdOf[u] : u \in Uuids}

Row(u, body) == [uuid |-> u, body |-> body, content |-> None]
\* Variant: an update that writes a row anew.
ReplacedAnew(row, u, body) == Row(u, body)
Replaced(row, u, body) == [row EXCEPT !.uuid = u, !.body = body]

\* The rows of the file: records are saved without their embeddings.
Saved(rows) == [k \in DOMAIN rows |->
    IF rows[k] = None THEN None ELSE [rows[k] EXCEPT !.content = None]]

\* getById
Found(u) == held[Key(u)] # None

\* The answers of filter, over all of its pages.
Answer(filters) == {k \in Keys : held[k] # None /\ FoundBy(nodeBackend, filters, held[k].body)}

\* vectorSearch and getEmbeddingContents
Embedded == {k \in Keys : held[k] # None /\ held[k].content # None}

----------------------------------------------------------------------------
(* Writing                                                                 *)

Unsure(u) == doubt' = doubt \cup {u}
Sure(u)   == doubt' = doubt \ {u}

\* A call that leaves these rows and reports that u now has this body.
\* FlatFileNodeRepository saves everything after each; a save that throws is
\* reported as a failure of a change that memory keeps.
Store(rows, u, body) ==
    /\ held' = rows
    /\ UNCHANGED <<nodeBackend, open>>
    /\ \/ /\ file' = IF nodeBackend = "flat_file" THEN Saved(rows) ELSE file
          /\ acked' = [acked EXCEPT ![u] = body]
          /\ Sure(u)
          /\ UNCHANGED nodeFaults
       \/ /\ nodeBackend = "flat_file" /\ nodeFaults < MaxNodeFaults
          /\ nodeFaults' = nodeFaults + 1
          /\ Unsure(u)
          /\ UNCHANGED <<file, acked>>

\* A database refuses a row whose key is taken.
AddRow(u, body) ==
    /\ ~Found(u)
    /\ held' = [held EXCEPT ![Key(u)] = Row(u, body)]
    /\ acked' = [acked EXCEPT ![u] = body]
    /\ Sure(u)
    /\ UNCHANGED <<nodeBackend, file, open, nodeCalls, nodeFaults>>

\* A database update or deletion looks for the node in a query of its own.
BeginChange(c, u, body) ==
    /\ nodeCalls[c] = Idle /\ Found(u)
    /\ nodeCalls' = [nodeCalls EXCEPT ![c] = [uuid |-> u, body |-> body]]
    /\ UNCHANGED <<nodeBackend, held, file, open, acked, doubt, nodeFaults>>

\* The rows after UPDATE ... WHERE uuid = u: none of them when it is gone.
Updated(u, body) ==
    IF Found(u) THEN [held EXCEPT ![Key(u)] = Replaced(@, u, body)] ELSE held
UpdateRow(c) ==
    /\ nodeCalls[c] # Idle /\ nodeCalls[c].body # None
    /\ LET u == nodeCalls[c].uuid
           body == nodeCalls[c].body
       IN  /\ held' = Updated(u, body)
           /\ acked' = [acked EXCEPT ![u] = body]
           /\ IF Found(u) THEN Sure(u) ELSE Unsure(u)
    /\ nodeCalls' = [nodeCalls EXCEPT ![c] = Idle]
    /\ UNCHANGED <<nodeBackend, file, open, nodeFaults>>

DeleteRow(c) ==
    /\ nodeCalls[c] # Idle /\ nodeCalls[c].body = None
    /\ LET u == nodeCalls[c].uuid
       IN  /\ held' = [held EXCEPT ![Key(u)] = None]
           /\ acked' = [acked EXCEPT ![u] = None]
           /\ Sure(u)
    /\ nodeCalls' = [nodeCalls EXCEPT ![c] = Idle]
    /\ UNCHANGED <<nodeBackend, file, open, nodeFaults>>

\* In memory an added node replaces one of its uuid, and its embedding.
AddInMemory(u, body) ==
    /\ Store([held EXCEPT ![u] = Row(u, body)], u, body)
    /\ UNCHANGED nodeCalls

\* InMemoryNodeRepository.update stores a node it does not know as well.
UpdateInMemory(u, body) ==
    /\ Store([held EXCEPT ![u] = IF Found(u) THEN Replaced(@, u, body) ELSE Row(u, body)], u, body)
    /\ UNCHANGED nodeCalls

DeleteInMemory(u) ==
    /\ Found(u)
    /\ Store([held EXCEPT ![u] = None], u, None)
    /\ UNCHANGED nodeCalls

\* upsertEmbedding and deleteEmbedding; without the node they change nothing.
PutContent(u, content) ==
    /\ Found(u)
    /\ held' = [held EXCEPT ![Key(u)].content = content]
    /\ UNCHANGED <<nodeBackend, file, open, nodeCalls, acked, doubt, nodeFaults>>
UpsertEmbedding(u) == \E content \in Contents : PutContent(u, content)
DeleteEmbedding(u) == PutContent(u, None)

----------------------------------------------------------------------------
(* Stopping and starting                                                   *)

\* Variant: a repository that is opened without its data.
LoadedNothing == IF InProcess THEN [k \in Keys |-> None] ELSE held
Loaded ==
    CASE nodeBackend = "inmem"     -> [k \in Keys |-> None]
      [] nodeBackend = "flat_file" -> file
      [] OTHER                     -> held

\* The factory of the repository: a file that is no JSON is not opened, and
\* nothing reads its backup.
RestartNodes ==
    /\ open /\ nodeFaults < MaxNodeFaults
    /\ nodeFaults' = nodeFaults + 1
    /\ nodeCalls' = [c \in Callers |-> Idle]
    /\ held' = Loaded
    /\ acked' = IF nodeBackend = "inmem" THEN [u \in Uuids |-> None] ELSE acked
    /\ UNCHANGED <<nodeBackend, file, open, doubt>>

\* The process stops while it writes the file over.
StopWhileSaving ==
    /\ open /\ nodeBackend = "flat_file" /\ nodeFaults < MaxNodeFaults
    /\ nodeFaults' = nodeFaults + 1
    /\ file' = Torn /\ open' = FALSE
    /\ held' = [k \in Keys |-> None]
    /\ UNCHANGED <<nodeBackend, nodeCalls, acked, doubt>>

----------------------------------------------------------------------------

NodesInit(backends) ==
    /\ nodeBackend \in backends
    /\ held = [k \in Keys |-> None]
    /\ file = [k \in Keys |-> None]
    /\ open = TRUE
    /\ nodeCalls = [c \in Callers |-> Idle]
    /\ acked = [u \in Uuids |-> None]
    /\ doubt = {}
    /\ nodeFaults = 0

DatabaseCalls ==
    \/ \E u \in Uuids, body \in Bodies : AddRow(u, body)
    \/ \E c \in Callers, u \in Uuids, body \in Bodies \cup {None} : BeginChange(c, u, body)
    \/ \E c \in Callers : UpdateRow(c) \/ DeleteRow(c)

\* The five repositories: what each offers its callers.
InMemoryCalls == InProcess /\ \E u \in Uuids :
    DeleteInMemory(u) \/ \E body \in Bodies : AddInMemory(u, body) \/ UpdateInMemory(u, body)
SqliteCalls   == nodeBackend = "sqlite" /\ DatabaseCalls
PostgresCalls == nodeBackend = "postgres" /\ DatabaseCalls
MongodbCalls  == nodeBackend = "mongodb" /\ DatabaseCalls
EmbeddingCalls == \E u \in Uuids : UpsertEmbedding(u) \/ DeleteEmbedding(u)

NodesNext ==
    \/ open /\ (InMemoryCalls \/ SqliteCalls \/ PostgresCalls \/ MongodbCalls \/ EmbeddingCalls)
    \/ RestartNodes \/ StopWhileSaving

NodesSpec == NodesInit(NodeBackends) /\ [][NodesNext]_nodeVars

----------------------------------------------------------------------------
(* Properties                                                              *)

\* Every repository translates a portable filter into a query that finds the
\* nodes the reference does: the same search means the same in every
\* deployment (the four filter methods and their operator maps).
PortableFiltersAgree ==
    \A filters \in Queries, k \in Keys :
      /\ held[k] # None
      /\ \A group \in filters : group # {} /\ \A f \in group : Portable(f, held[k].body)
      => (k \in Answer(filters) <=> ReferenceFound(filters, held[k].body))

\* What a call reported as stored or deleted is what the repository holds,
\* across restarts too: except after a save that failed, and after an update
\* that a deletion overtook between its two queries.
ReportedIsHeld ==
    open => \A u \in Uuids \ doubt :
      acked[u] = IF Found(u) THEN held[Key(u)].body ELSE None

\* Writing a node's record keeps the text that was embedded for it: only
\* deleteEmbedding, a deletion, and in memory an added node or a restart
\* take it from the search.
EmbeddingKept ==
    [][\A k \in Embedded : held'[k] # None /\ held'[k].body # held[k].body /\ ~InProcess
         => held'[k].content = held[k].content]_nodeVars
=============================================================================

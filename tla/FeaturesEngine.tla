--------------------------- MODULE FeaturesEngine ---------------------------
(***************************************************************************)
(* The FeaturesEngine: people run features as actions, tools of agents and *)
(* extensions; changes of nodes run them by themselves, as automatic       *)
(* actions and as hooks of the node's folder, and what a feature changes   *)
(* is a change again.  Nobody waits for the handlers of an event.          *)
(*                                                                         *)
(* A handler reads a feature when it chooses what to run and #run reads it *)
(* again; each access to a store is one step.  A feature is what decides   *)
(* about its runs: where it is exposed, its triggers, filters, groups,     *)
(* runAs, whether it needs a parameter, and what its code does to a node.  *)
(***************************************************************************)
EXTENDS Naturals, Sequences, FiniteSets, SequencesExt

CONSTANTS
    FeatureNames,
    StoredFeatures,       \* the features at the start: name -> body
    FeatureChanges,       \* what administrators store and delete later: [feature, body]
    WorkNodes,            \* uuids
    WorkTree,             \* the nodes at the start: uuid -> [data, parent]
    HooksOf,              \* folder -> event -> sequence of [feature, given]: actions with parameters
    TopLevel,             \* Nodes.ROOT_FOLDER_UUID: never has hooks
    UserGroups, FeatureAdmins,  \* user -> its groups; the administrators' group
    RootEmail,            \* Users.ROOT_USER_EMAIL
    NodeReaders, NodeWriters,  \* uuid -> the groups that may read it, write it
    Runs,                 \* what people ask: [how, user, feature, uuids, given]
    Acts,                 \* what people do to nodes: [op, user, uuid, data]
    MAX_RUNNABLE_DEPTH,
    MaxEvents,            \* bound: changes of nodes
    MaxFeatureEdits,      \* bound: changes of features
    NoFeature, NoNodeLeft, NoGroup, Nothing, Throws

Bodies == {c.body : c \in FeatureChanges} \cup {StoredFeatures[f] : f \in FeatureNames} \cup {NoFeature}
HookFolders == {TopLevel} \cup DOMAIN HooksOf

ASSUME FeaturesAssumption ==
    /\ IsFiniteSet(FeatureNames) /\ DOMAIN StoredFeatures = FeatureNames
    /\ StoredFeatures = [f \in FeatureNames |-> StoredFeatures[f]]
    /\ \A c \in FeatureChanges : c.feature \in FeatureNames
    /\ TopLevel \notin DOMAIN HooksOf
    /\ \A d \in DOMAIN HooksOf : \A kind \in {"created", "updated", "deleted"} :
         HooksOf[d][kind] \in Seq([feature : FeatureNames, given : BOOLEAN, body : {NoFeature}])
    /\ WorkTree = [n \in WorkNodes |-> WorkTree[n]]
    /\ \A n \in WorkNodes : WorkTree[n] = NoNodeLeft \/ WorkTree[n] \in [data : {WorkTree[n].data}, parent : HookFolders]
    /\ \A r \in Runs : r.how \in {"action", "tool", "extension"} /\ r.feature \in FeatureNames /\ r.given \in BOOLEAN
    /\ \A a \in Acts : a.uuid \in WorkNodes /\ a.parent \in HookFolders
    /\ MAX_RUNNABLE_DEPTH \in Nat

VARIABLES
    features,  \* name -> body, or NoFeature
    workNodes, \* uuid -> [data, parent], or NoNodeLeft
    jobs,      \* the runs and handlers at work
    occurred,  \* the events and requests so far: what the identity of a job is
    featureEdits

featureVars == <<features, workNodes, jobs, occurred, featureEdits>>

IsAutomatic(j) == j.by \in {"automatic", "hooks"}
\* The principal: the user who asked, or the user of the event with the
\* administrators' group.
PrincipalOf(j) == IF IsAutomatic(j) THEN {FeatureAdmins} ELSE UserGroups[j.user]
\* #canRunFeature of FeaturesService, and the same test in #run.
MayRun(groups, body) ==
    body.groupsAllowed = {} \/ groups \cap ({FeatureAdmins} \cup body.groupsAllowed) # {}
Feature(groups, name) ==  \* getFeature
    IF features[name] # NoFeature /\ MayRun(groups, features[name]) THEN features[name] ELSE NoFeature
\* The depth a run is checked against: #getRunnable looks the entry up by an
\* array made for the call, which no entry of the Map has, and adds one.
GetRunnable(name) == 0
\* validateParameters: a required one is missing.
ParametersMissing(j, body) == body.needs /\ ~Head(j.left).given
GroupsMayRead(groups, uuid) == groups \cap ({FeatureAdmins} \cup NodeReaders[uuid]) # {}
GroupsMayWrite(groups, uuid) == groups \cap ({FeatureAdmins} \cup NodeWriters[uuid]) # {}

----------------------------------------------------------------------------

(* Jobs. *)

JobStep(j, k) == jobs' = (jobs \ {j}) \cup {k}
EndJob(j) == jobs' = jobs \ {j}
\* Variant: a feature that is passed over ends the handler.
SkipAll(j) == JobStep(j, [j EXCEPT !.at = "begin", !.left = <<>>, !.picked = {},
                                !.body = NoFeature, !.groups = {}])
\* On to what is left; a feature that is refused or fails is logged.
Skip(j) == JobStep(j, [j EXCEPT !.at = "begin", !.left = Tail(@), !.picked = {},
                             !.body = NoFeature, !.groups = {}])

Job(how, id, user, asker, event, at) ==
    [by |-> how, id |-> id, user |-> user, at |-> at, event |-> event.kind, node |-> event,
     left |-> <<>>, picked |-> {}, body |-> NoFeature, groups |-> {},
     root |-> asker, ran |-> {}, edited |-> FALSE]
\* The bus calls both handlers of an event; each goes on by itself.
HandlersOf(event, user, asker) ==
    {Job("automatic", occurred, user, asker, event, "list"),
     Job("hooks", occurred, user, asker, event, IF event.kind = "updated" THEN "node" ELSE "folder")}
NodeEvent(kind, uuid, record) == [kind |-> kind, uuid |-> uuid, data |-> record.data, parent |-> record.parent]
NoEvent == NodeEvent("asked", Nothing, [data |-> Nothing, parent |-> TopLevel])

\* A change of a node by a person, and the event of it.
Act(a) ==
    /\ occurred < MaxEvents /\ occurred' = occurred + 1
    /\ LET old == workNodes[a.uuid]
           new == [data |-> a.data, parent |-> IF old = NoNodeLeft THEN a.parent ELSE old.parent] IN
         \/ /\ a.op = "create" /\ old = NoNodeLeft
            /\ workNodes' = [workNodes EXCEPT ![a.uuid] = new]
            /\ jobs' = jobs \cup HandlersOf(NodeEvent("created", a.uuid, new), a.user, a.user)
         \/ /\ a.op = "update" /\ old # NoNodeLeft
            /\ workNodes' = [workNodes EXCEPT ![a.uuid] = new]
            /\ jobs' = jobs \cup HandlersOf(NodeEvent("updated", a.uuid, new), a.user, a.user)
         \/ /\ a.op = "move" /\ old # NoNodeLeft
            /\ workNodes' = [workNodes EXCEPT ![a.uuid].parent = a.parent]
            /\ jobs' = jobs \cup HandlersOf(NodeEvent("updated", a.uuid, workNodes'[a.uuid]), a.user, a.user)
         \/ /\ a.op = "delete" /\ old # NoNodeLeft
            /\ workNodes' = [workNodes EXCEPT ![a.uuid] = NoNodeLeft]
            /\ jobs' = jobs \cup HandlersOf(NodeEvent("deleted", a.uuid, old), a.user, a.user)
         \/ \* RAGService has stored an embedding
            /\ a.op = "embed" /\ old # NoNodeLeft
            /\ jobs' = jobs \cup {Job("automatic", occurred, a.user, a.user, NodeEvent("embedded", a.uuid, old), "list")}
            /\ UNCHANGED workNodes
    /\ UNCHANGED <<features, featureEdits>>

\* Administrators store and delete features; jobs at work do not notice.
EditFeature(name, body) ==
    /\ featureEdits < MaxFeatureEdits /\ featureEdits' = featureEdits + 1
    /\ features' = [features EXCEPT ![name] = body]
    /\ jobs' = {[j EXCEPT !.edited = TRUE] : j \in jobs}
    /\ UNCHANGED <<workNodes, occurred>>

----------------------------------------------------------------------------

(* runAction, runAITool and runExtension. *)

AskFor(r) ==
    /\ occurred < MaxEvents /\ occurred' = occurred + 1
    /\ jobs' = jobs \cup {[Job(r.how, occurred, r.user, r.user, NoEvent, "feature") EXCEPT
                             !.left = <<[feature |-> r.feature, given |-> r.given, body |-> NoFeature]>>,
                             !.picked = r.uuids]}
    /\ UNCHANGED <<features, workNodes, featureEdits>>

Exposure(j) == IF IsAutomatic(j) THEN "action" ELSE j.by
\* The feature is read and asked whether it may be run this way.  Only an
\* action's nodes are filtered: a tool or extension gets what it is given.
ReadFeature(j) ==
    /\ j.at = "feature"
    /\ LET body == Feature(PrincipalOf(j), Head(j.left).feature) IN
         IF \/ body = NoFeature \/ Exposure(j) \notin body.exposed
            \/ j.by = "action" /\ ~body.manual
         THEN Skip(j)
         ELSE JobStep(j, [j EXCEPT !.at = IF Exposure(j) = "action" THEN "nodes" ELSE "run",
                                !.left[1].body = body])
    /\ UNCHANGED <<features, workNodes, occurred, featureEdits>>

\* The nodes asked for that there are, may be read and fit the filters.
Chosen(j) ==
    {n \in j.picked : /\ workNodes[n] # NoNodeLeft /\ GroupsMayRead(PrincipalOf(j), n)
                      /\ workNodes[n].data \in Head(j.left).body.filters}
GetNodes(j) ==
    /\ j.at = "nodes"
    /\ JobStep(j, [j EXCEPT !.at = "run", !.picked = Chosen(j)])
    /\ UNCHANGED <<features, workNodes, occurred, featureEdits>>

\* #run: the feature is read again, and runs as its runAs group too.
RunGroups(j, body) == PrincipalOf(j) \cup ({body.runAs} \ {NoGroup})
Run(j) ==
    /\ j.at = "run"
    /\ LET body == Feature(PrincipalOf(j), Head(j.left).feature) IN
         IF body = NoFeature \/ ParametersMissing(j, body) THEN Skip(j)
         ELSE JobStep(j, [j EXCEPT !.at = "running", !.body = body, !.groups = RunGroups(j, body),
                                !.ran = @ \cup {Head(j.left).feature}])
    /\ UNCHANGED <<features, workNodes, occurred, featureEdits>>

\* The feature's code changes one of its nodes through the NodeServiceProxy,
\* which acts as its user with its groups.
ChangeNode(j, uuid) ==
    /\ j.at = "running" /\ uuid \in j.picked /\ j.body.does \notin {Nothing, Throws}
    /\ LET done == [j EXCEPT !.picked = @ \ {uuid}]
           new == [workNodes[uuid] EXCEPT !.data = j.body.does] IN
         IF workNodes[uuid] # NoNodeLeft /\ GroupsMayWrite(j.groups, uuid) /\ occurred < MaxEvents
         THEN /\ workNodes' = [workNodes EXCEPT ![uuid] = new]
              /\ jobs' = (jobs \ {j}) \cup {done} \cup HandlersOf(NodeEvent("updated", uuid, new), j.user, j.root)
              /\ occurred' = occurred + 1
         ELSE JobStep(j, done) /\ UNCHANGED <<workNodes, occurred>>
    /\ UNCHANGED <<features, featureEdits>>

\* It is done, or throws: #run catches what the code throws.
EndRun(j) ==
    /\ j.at = "running" /\ (j.picked = {} \/ j.body.does \in {Nothing, Throws})
    /\ Skip(j)
    /\ UNCHANGED <<features, workNodes, occurred, featureEdits>>

----------------------------------------------------------------------------

(* The handlers of events. *)

\* #getAutomaticActions: those of the trigger, read one by one after the list.
Entry(name, given) == [feature |-> name, given |-> given, body |-> NoFeature]
Listed(event) == {f \in FeatureNames : /\ features[f] # NoFeature /\ "action" \in features[f].exposed
                                       /\ event \in features[f].on}
ListActions(j) ==
    /\ j.at = "list"
    /\ \E order \in SetToSeqs(Listed(j.event)) :
         JobStep(j, [j EXCEPT !.at = "read", !.left = [i \in DOMAIN order |-> Entry(order[i], FALSE)]])
    /\ UNCHANGED <<features, workNodes, occurred, featureEdits>>
ReadListed(j) ==
    /\ j.at = "read"
    /\ JobStep(j, [j EXCEPT !.at = IF j.event \in {"updated", "embedded"} THEN "node" ELSE "begin",
                         !.left = [i \in DOMAIN @ |-> [@[i] EXCEPT !.body = features[j.left[i].feature]]]])
    /\ UNCHANGED <<features, workNodes, occurred, featureEdits>>

\* Updates and embeddings are handled for the node as it is now.
ReadNode(j) ==
    /\ j.at = "node"
    /\ IF workNodes[j.node.uuid] = NoNodeLeft THEN EndJob(j)
       ELSE JobStep(j, [j EXCEPT !.at = IF j.by = "hooks" THEN "folder" ELSE "begin",
                              !.node = NodeEvent(@.kind, @.uuid, workNodes[@.uuid])])
    /\ UNCHANGED <<features, workNodes, occurred, featureEdits>>

ReadHooks(j) ==
    /\ j.at = "folder"
    /\ IF j.node.parent = TopLevel THEN EndJob(j)
       ELSE JobStep(j, [j EXCEPT !.at = "begin", !.left = HooksOf[j.node.parent][j.event]])
    /\ UNCHANGED <<features, workNodes, occurred, featureEdits>>

\* #runAutomaticAction asks the filters of the copy it has; a hook goes
\* through runAction, which reads the node again.  What was gone when it was
\* to be read is no longer on the list.
FitsFilters(j, body) == j.node.data \in body.filters /\ "action" \in body.exposed
TooDeep(name) == GetRunnable(name) > MAX_RUNNABLE_DEPTH
BeginNext(j) ==
    /\ j.at = "begin"
    /\ IF j.left = <<>> THEN EndJob(j)
       ELSE LET entry == Head(j.left) IN
            IF \/ j.by = "automatic" /\ (entry.body = NoFeature \/ ~FitsFilters(j, entry.body))
               \/ TooDeep(entry.feature)
            THEN Skip(j)
            ELSE JobStep(j, [j EXCEPT !.at = IF j.by = "hooks" THEN "feature" ELSE "run",
                                   !.picked = {j.node.uuid}])
    /\ UNCHANGED <<features, workNodes, occurred, featureEdits>>

----------------------------------------------------------------------------

FeaturesInit ==
    /\ features = StoredFeatures
    /\ workNodes = WorkTree
    /\ jobs = {} /\ occurred = 0 /\ featureEdits = 0

EngineStep(j) ==
    \/ ReadFeature(j) \/ GetNodes(j) \/ Run(j) \/ EndRun(j)
    \/ \E uuid \in WorkNodes : ChangeNode(j, uuid)
    \/ ListActions(j) \/ ReadListed(j) \/ ReadNode(j) \/ ReadHooks(j) \/ BeginNext(j)

FeaturesNext ==
    \/ \E a \in Acts : Act(a)
    \/ \E r \in Runs : AskFor(r)
    \/ \E c \in FeatureChanges : EditFeature(c.feature, c.body)
    \/ \E j \in jobs : EngineStep(j)

FeaturesSpec == FeaturesInit /\ [][FeaturesNext]_featureVars

----------------------------------------------------------------------------

(* Properties. *)

\* A handler at its end has run, once features are left alone, all that its
\* event calls for, even when some of them were refused or failed: the
\* automatic actions that fit the node, or the hooks of the folder it is in.
Due(j) ==
    IF j.by = "automatic"
    THEN {f \in Listed(j.event) : j.node.data \in features[f].filters /\ ~features[f].needs}
    ELSE {f \in FeatureNames : \E i \in DOMAIN HooksOf[j.node.parent][j.event] :
            LET hook == HooksOf[j.node.parent][j.event][i] IN
            /\ hook.feature = f /\ features[f] # NoFeature
            /\ "action" \in features[f].exposed /\ (features[f].needs => hook.given)}
HandlersAreThorough ==
    \A j \in jobs : (IsAutomatic(j) /\ j.at = "begin" /\ j.left = <<>> /\ ~j.edited) => j.ran = Due(j)

\* "max runnable depth (3) exceeded" (features_engine.ts:587-593): an
\* automatic action is skipped while more than MAX_RUNNABLE_DEPTH runs of
\* its feature are under way, so there are never more than one above it.
UnderWay(name) == {j \in jobs : j.by = "automatic" /\ j.at \in {"run", "running"}
                                 /\ Head(j.left).feature = name}
RunsAreLimited == \A f \in FeatureNames : Cardinality(UnderWay(f)) <= MAX_RUNNABLE_DEPTH + 1
=============================================================================

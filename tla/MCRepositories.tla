--------------------------- MODULE MCRepositories ---------------------------
(***************************************************************************)
(* An instance of the adapters for TLC.  A behaviour exercises one kind of *)
(* adapter, with one of its backends; the others stay as they begin.       *)
(***************************************************************************)
EXTENDS NodeRepositories, EventStores, ConfigurationRepositories, StorageProviders

CONSTANTS n1, n2, c1, c2, o1, o2, md1, e1, e2, e3, s1, s2, k1, k2, f1, d1, d2, w1, w2

VARIABLE part  \* the kind of adapter exercised

vars == <<part, nodeVars, eventVars, configVars, storageVars>>

MCWithin == <<>>
MCPromoted == {"title"}
MCNested == {"p"}
MCNumeric == {"size", "p"}
MCFullName == "a:p" :> "p"
MCBodies == {
    [title |-> <<"red", "hat">>, tags |-> {"x", "y"}, size |-> 1],
    [title |-> <<"red", "old", "hat">>, tags |-> {"x"}, p |-> 1],
    [title |-> <<"hat">>, size |-> 2, p |-> 2]}
MCObjectIdOf == n1 :> o1 @@ n2 :> o2

MCFilters ==
    {F("title", op, <<"red", "hat">>) : op \in {"==", "!=", "match"}}
    \cup {F("title", "match", <<"hat">>), F("title", "like", <<"hat">>)}
    \cup {F("title", op, {<<"hat">>}) : op \in {"in", "not-in"}}
    \cup {F(field, op, 1) : field \in {"size", "p", "a:p"}, op \in Comparisons}
    \cup {F(field, op, {1}) : field \in {"size", "p"}, op \in {"in", "not-in"}}
    \cup {F("tags", op, "x") : op \in {"contains", "not-contains"}}
    \cup {F("tags", op, v) : op \in {"contains-all", "contains-any", "contains-none"},
                             v \in {{}, {"x"}, {"x", "z"}}}
MCQueries == {{}} \cup {{{f}} : f \in MCFilters}
    \cup {{{f, g}} : f \in {F("tags", "contains", "x")}, g \in MCFilters}
    \cup {{{f}, {g}} : f \in {F("p", "==", 2)}, g \in MCFilters}

MCStreamOf == e1 :> s1 @@ e2 :> s1 @@ e3 :> s2
MCConfigData == {"title" :> 1, "title" :> 2 @@ "description" :> 1}
MCFolderOf == f1 :> d1 @@ d2 :> d1 @@ d1 :> RootPlace

----------------------------------------------------------------------------

Init ==
    /\ part \in {"nodes", "events", "config", "storage"}
    /\ NodesInit(IF part = "nodes" THEN NodeBackends ELSE {"inmem"})
    /\ EventsInit(IF part = "events" THEN EventBackends ELSE {"inmem"})
    /\ ConfigInit(IF part = "config" THEN ConfigBackends ELSE {"inmem"})
    /\ StorageInit(IF part = "storage" THEN StorageBackends ELSE {"inmem"})

NodesStep   == part = "nodes" /\ NodesNext /\ UNCHANGED <<part, eventVars, configVars, storageVars>>
EventsStep  == part = "events" /\ EventsNext /\ UNCHANGED <<part, nodeVars, configVars, storageVars>>
ConfigStep  == part = "config" /\ ConfigNext /\ UNCHANGED <<part, nodeVars, eventVars, storageVars>>
StorageStep == part = "storage" /\ StorageNext /\ UNCHANGED <<part, nodeVars, eventVars, configVars>>

Next == NodesStep \/ EventsStep \/ ConfigStep \/ StorageStep

Spec == Init /\ [][Next]_vars

\* What a repository of nodes or of configuration records reported as saved or
\* deleted is what it answers from then on, with every backend, whatever calls
\* overlap and however often it is started anew (the two parts name what each
\* backend is excused from).
SavedIsRead == ReportedIsHeld /\ LastSavedIsRead
=============================================================================

------------------------- MODULE MCSearchAndEvents ---------------------------
(***************************************************************************)
(* Instances for TLC of what reads the tree: searches, the paths of        *)
(* WebDAV, and the handlers of the events of its changes: those that touch *)
(* folders and append to the log, those of the features (MCFeaturesEngine) *)
(* and those of the index of meanings.                                     *)
(*                                                                         *)
(* Searches: two folders below the root and a document in each, an owner,  *)
(* a member of two groups, a stranger, the anonymous and an administrator, *)
(* and folders open to each kind of them.                                  *)
(* Paths of WebDAV: a folder, a file in it, and one of each to create; two *)
(* clients, one of whom may not read the file.                             *)
(* Events: a folder in a folder, a file in it, one to create, two editors. *)
(* A behaviour is of one of the five.                                      *)
(***************************************************************************)
EXTENDS FindService, WebDav, NodeEvents, MCFeaturesEngine, RagIndex, TLC

CONSTANTS admins, staff, guests, root, rootUser, anon, ann, bob, eve, f1, f2, d1, d2,
          x1, x2, y1, y2, c1, c2, u1, u2, mDoc, mFolder

VARIABLE part

User(email, gs) == [email |-> email, groups |-> gs]
MCPrincipals == {User(ann, <<staff>>), User(bob, <<guests, staff>>), User(eve, <<guests>>),
                 User(anon, <<anon>>), User(rootUser, <<admins>>)}

Folder(u, title, granted, authenticated, anonymous, advanced) ==
    [uuid |-> u, mimetype |-> "folder", parent |-> root, title |-> <<title>>,
     fulltext |-> <<title>>, tags |-> {<<"old">>}, owner |-> ann, group |-> staff,
     granted |-> granted, authenticated |-> authenticated, anonymous |-> anonymous,
     advanced |-> advanced]
Doc(u, title, words, parent) ==
    [uuid |-> u, mimetype |-> "doc", parent |-> parent, title |-> <<title>>,
     fulltext |-> words, tags |-> {<<"old">>, <<"a", ",", "b">>}, owner |-> eve, group |-> guests]

None == <<>>
First1(granted, authenticated, anonymous, advanced) ==
    Folder(f1, "Main", granted, authenticated, anonymous, advanced)
Open    == First1({}, {"Read"}, {}, None)
Public  == First1({}, {}, {"Read"}, None)
Shared  == First1({"Read"}, {}, {}, None)
Private == First1({}, {}, {}, None)
Lent    == First1({}, {}, {}, guests :> {"Read"})
Second  == Folder(f2, "Other", {}, {}, {}, None)

MCRepositories ==
    {(f1 :> f) @@ (f2 :> Second) @@ (d1 :> Doc(d1, "bob", <<"red", "big">>, f1))
       @@ (d2 :> Doc(d2, "tom", <<"red">>, f2)) : f \in {Open, Public, Shared, Private, Lent}}
    \cup {(f1 :> Open) @@ (f2 :> Second) @@ (d1 :> Doc(d1, "bob", <<"red", "big">>, f1))
             @@ (d2 :> Doc(d2, "tom", <<"red">>, f1))}
MCReplacements ==
    {Open, Private, Doc(d1, "bob", <<"red", "big">>, f2), Doc(d2, "tom", <<"red">>, f1)}

MCMeanings ==
    {{{F("title", "==", <<"bob">>)}},
     {{F("title", "in", {<<"bob">>, <<"tom">>}), F("tags", "contains", <<"a", ",", "b">>)}},
     {{F("title", "==", <<"bob">>)}, {F("fulltext", "match", <<"red">>)}},
     {{F("tags", "contains-any", {<<"old">>}), F("title", "!=", <<"x", "|", "y">>)}},
     {{F("title", "==", <<"main">>)}},
     {{F("title", "==", <<"match", "day">>)}},
     {{F("main", "in", {<<"bob">>})}}}

Filters(fs)     == [kind |-> "filters", filters |-> fs, size |-> 9, token |-> 1]
Text(t, n, k)   == [kind |-> "text", text |-> t, size |-> n, token |-> k]
Meaning(t, score, n, k) ==
    [kind |-> "semantic", text |-> t, score |-> score, size |-> n, token |-> k]
Near == (f1 :> 0) @@ (f2 :> 3) @@ (d1 :> 6) @@ (d2 :> 8)
Apart == (f1 :> 6) @@ (f2 :> 9) @@ (d1 :> 8) @@ (d2 :> 7)
Far  == [u \in Uuids |-> 1]
List(f) == [kind |-> "list", folder |-> f, size |-> 9, token |-> 1]
MCQueries ==
    {List(f1), List(root), List(d1),
     Filters({{}}), Filters({{F("parent", "==", f1)}}),
     Filters({{AtF("title", "==", <<"Main">>), F("tags", "contains", <<"old">>)}}),
     Filters({{AtF("title", "==", <<"None">>)}, {F("mimetype", "==", "folder")}}),
     Filters({{AtF("title", "!=", <<"Main">>), F("parent", "in", {f1, root})}}),
     Filters({{AtF("title", "==", <<"None">>)}}),
     Text(<<"red">>, 1, 2), Text(<<"main", "==", "x">>, 9, 1),
     Text(<<"main", "<", "x">>, 9, 1), Text(<<"title", "in", "bob">>, 9, 1),
     Meaning(<<"red">>, Near, 1, 1), Meaning(<<"red">>, Near, 1, 2),
     Meaning(<<"red">>, Apart, 2, 2), Meaning(<<"red">>, Far, 1, 1)}
    \cup {Text(Render(m), 9, 1) : m \in MCMeanings}

\* Each further question doubles the orders of their answers: searches of several
\* groups, or that ask something of the parent themselves, are left to the
\* principals for whom there are few.
MCSearches == UNION
    {LET filters == FiltersOf(q) IN
       {s \in MCPrincipals \X {q} :
          /\ Cardinality(filters) > 1 => s[1].email \in {anon, rootUser}
          /\ (\E group \in filters : AsksParent(group)) => s[1].email \in {anon, eve, rootUser}} :
     q \in MCQueries}

MCWithin == [word \in {"main"} |-> {"in"}]
MCTitle  == (f1 :> 2) @@ (f2 :> 3) @@ (d1 :> 1) @@ (d2 :> 4)

----------------------------------------------------------------------------

MCDavTree == x1 :> [parent |-> root, title |-> "x"] @@ y1 :> [parent |-> x1, title |-> "y"]
MCCanRead == c1 :> {x1, x2, y1, y2} @@ c2 :> {x1, x2, y2}
At(op, path) == [op |-> op, path |-> path, to |-> <<>>]
To(op, path, to) == [op |-> op, path |-> path, to |-> to]
MCDavRequests ==
    c1 :> {At("get", <<"x", "y">>), At("put", <<"x", "y">>), To("move", <<"x">>, <<"y">>),
           To("copy", <<"x", "y">>, <<"z">>)}
    @@ c2 :> {At("put", <<"y">>), At("delete", <<"y">>), At("mkcol", <<"x">>),
              At("delete", <<"y 2">>), At("get", <<"x", "y">>)}

MCEventTree == [n \in {x1, x2, y1} |-> [parent |-> IF n = x1 THEN root ELSE IF n = x2 THEN x1 ELSE x2, title |-> "old"]]
MCMimetypeOf == [n \in {x1, x2, y1, y2} |-> IF n \in {x1, x2} THEN mFolder ELSE mDoc]
MCCreations == {[node |-> y2, parent |-> x2]}
Change1(op, n, to) == [node |-> n, change |-> [op |-> op, to |-> to]]
MCChanges == {Change1("rename", x2, "new"), Change1("delete", x2, x2), Change1("move", y1, x1),
              Change1("move", y1, root), Change1("rename", y1, "new"), Change1("delete", y1, y1)}

----------------------------------------------------------------------------

RunInit ==
    /\ part \in {"search", "dav", "events", "features", "index"}
    /\ Init /\ DavInit /\ NodeEventsInit /\ FeaturesInit /\ RagInit
    /\ part # "search" => nodes = CHOOSE r \in Repositories : TRUE
    /\ part # "search" => <<who, query>> = CHOOSE s \in Searches : s[2].kind = "list"
    /\ part # "events" => ~upserts
RunNext ==
    /\ part' = part
    /\ \/ part = "search" /\ Next /\ UNCHANGED <<davVars, eventsVars, featureVars, ragVars>>
       \/ part = "dav" /\ DavNext /\ UNCHANGED <<vars, eventsVars, featureVars, ragVars>>
       \/ part = "events" /\ NodeEventsNext /\ UNCHANGED <<vars, davVars, featureVars, ragVars>>
       \/ part = "features" /\ FeaturesNext /\ UNCHANGED <<vars, davVars, eventsVars, ragVars>>
       \/ part = "index" /\ RagNext /\ UNCHANGED <<vars, davVars, eventsVars, featureVars>>
RunSpec == RunInit /\ [][RunNext]_<<part, vars, davVars, eventsVars, featureVars, ragVars>>

Alike == Permutations(Editors)
=============================================================================

-------------------------- MODULE MCFeaturesEngine --------------------------
(***************************************************************************)
(* An instance of FeaturesEngine for TLC: two features, a folder with      *)
(* hooks, and two users.                                                   *)
(***************************************************************************)
EXTENDS FeaturesEngine, TLC

CONSTANTS eva, tom, team, board, chiefs, a1, a2, n1, n2, dir, raw, cooked

MCBody(exposed, manual, on, filters, needs, allowed, runAs, does) ==
    [exposed |-> exposed, manual |-> manual, on |-> on, filters |-> filters, needs |-> needs,
     groupsAllowed |-> allowed, runAs |-> runAs, does |-> does]
\* Finishes what is raw as the board; anyone of the team may ask for it.
Finisher == MCBody({"action", "tool"}, TRUE, {"created", "updated", "embedded"}, {raw}, FALSE, {team}, board, cooked)
\* Not to be asked for as an action; it fails.
Failing == MCBody({"action", "extension"}, FALSE, {"created", "deleted"}, {raw, cooked}, FALSE, {}, NoGroup, Throws)
MCFeatureChanges == {[feature |-> a1, body |-> [Finisher EXCEPT !.groupsAllowed = {board}, !.needs = TRUE]]}
MCStored == a1 :> Finisher @@ a2 :> Failing
MCUserGroups == eva :> {team} @@ tom :> {}
MCReaders == [n \in WorkNodes |-> {team}]
MCNodeWriters == [n \in WorkNodes |-> {board}]
MCTree == [n \in WorkNodes |-> IF n = n1 THEN [data |-> raw, parent |-> dir] ELSE NoNodeLeft]
MCHooksOf == dir :> [created |-> <<Entry(a2, FALSE), Entry(a1, FALSE)>>,
                     updated |-> <<Entry(a1, FALSE)>>,
                     deleted |-> <<Entry(a1, TRUE), Entry(a2, FALSE)>>]
MCAsk(how, user, f, uuids, given) == [how |-> how, user |-> user, feature |-> f, uuids |-> uuids, given |-> given]
MCRuns == {MCAsk("action", eva, a1, {n1, n2}, TRUE), MCAsk("extension", tom, a2, {}, TRUE)}
MCAct(op, user, uuid, data, parent) == [op |-> op, user |-> user, uuid |-> uuid, data |-> data, parent |-> parent]
MCActs == {MCAct("create", tom, n2, raw, dir), MCAct("update", eva, n1, raw, dir),
           MCAct("move", tom, n1, raw, TopLevel), MCAct("delete", eva, n1, raw, dir),
           MCAct("embed", tom, n1, raw, dir)}

\* For the depth: a node is indexed again and again, one feature is set off.
MCEmbeddings == {MCAct("embed", tom, n1, raw, dir)}
OneFeature == a1 :> Finisher
OneHook == dir :> [created |-> <<>>, updated |-> <<Entry(a1, FALSE)>>, deleted |-> <<>>]
=============================================================================

----------------------------- MODULE MCServices -----------------------------
(***************************************************************************)
(* An instance of the services around the nodes for TLC: configuration     *)
(* records, accounts, notifications, the aspects of a node, conversations  *)
(* with agents.  A behaviour exercises one of them; the others stay as     *)
(* they begin.                                                             *)
(***************************************************************************)
EXTENDS ConfigurationServices, Accounts, Notifications, NodeAspects, AgentSessions

CONSTANTS admin, u1, u2, b1, c1, c2, s1, root, anonymous, lockSystem, apiKeyUser,
          admins, anonymousGroup, g1, p1, t1, t2, t3, a1, a2, w1, w2, r1, r2, x, no, l1

VARIABLE part  \* the service exercised

vars == <<part, configVars, accountVars, noteVars, aspectVars, sessionVars>>

\* Of each kind of record: whole, partial, and not valid.
MCBodies ==
    "users" :> {"title" :> 1 @@ "group" :> 1, "title" :> 2, "group" :> 2, "group" :> 0}
    @@ "groups" :> {"title" :> 1, "title" :> 0}
    @@ "apikeys" :> {"group" :> 1, "group" :> 0}
    @@ "aspects" :> {"title" :> 1 @@ "properties" :> 1, "title" :> 0}
    @@ "agents" :> {"name" :> 1 @@ "prompt" :> 2, "prompt" :> 0, "name" :> 0}
    @@ "features" :> {"action" :> 1 @@ "uuids" :> 1 @@ "automatic" :> 1 @@ "allowed" :> 1,
                      "tool" :> 1 @@ "allowed" :> 1, "automatic" :> 0 @@ "action" :> 0}
    @@ "preferences" :> {"theme" :> 1, "theme" :> 0 @@ "language" :> 1}

MCBuiltinUsers ==
    [e \in {root, lockSystem} |-> [group |-> admins, groups |-> {admins}, phone |-> None, active |-> TRUE]]
    @@ anonymous :> [group |-> anonymousGroup, groups |-> {anonymousGroup}, phone |-> None, active |-> TRUE]
MCUserRecords == {[group |-> g1, groups |-> {admins}, phone |-> p1, active |-> FALSE],
                  [group |-> g1, groups |-> {}, phone |-> None, active |-> TRUE]}
MCKeyRecords == {[group |-> g1, active |-> TRUE], [group |-> admins, active |-> FALSE]}
Token(email, phone, good) == [email |-> email, phone |-> phone, good |-> good]
MCTokens == {Token(u1, p1, TRUE), Token(None, p1, TRUE), Token(None, None, TRUE),
             Token(anonymous, None, TRUE), Token(root, None, TRUE), Token(root, None, FALSE)}

MCTargetUser == t1 :> u1 @@ t2 :> u1 @@ t3 :> Nobody
MCTargetGroup == t1 :> Nobody @@ t2 :> g1 @@ t3 :> g1
MCGroupsOf == u1 :> {} @@ u2 :> {g1}
MCLists == {<<t1>>, <<t1, t3>>, <<t2, t1>>, <<t3, t2, t1>>, <<t2, t3>>}

MCDefinitions == {
    "p" :> Definition("string", TRUE, FALSE, Undefined, {x})
        @@ "q" :> Definition("number", FALSE, TRUE, Value("number", 1), Undefined),
    "p" :> Definition("uuid", FALSE, TRUE, Undefined, Undefined),
    "p" :> Definition("boolean", TRUE, FALSE, Value("boolean", no), Undefined)}
MCIdle == [step |-> "none"]
MCUpdates == {
    [aspects |-> {a1}, properties |-> <<a1, "p">> :> Value("string", x)],
    [aspects |-> {a1, a2}, properties |-> <<a1, "p">> :> Value("uuid", r1) @@ <<a2, "q">> :> Value("number", 2)],
    [aspects |-> {a1}, properties |-> Undefined],
    [aspects |-> Undefined, properties |-> <<a1, "p">> :> Value("uuid", r2) @@ <<a1, "q">> :> Value("number", 0)],
    [aspects |-> {a1}, properties |-> <<a1, "p">> :> Undefined @@ <<a1, "q">> :> Value("number", 3)],
    [aspects |-> {}, properties |-> Undefined]}

\* Concurrent callers and writers are alike.
Sym == Permutations({c1, c2}) \cup Permutations({w1, w2})

----------------------------------------------------------------------------

Init ==
    /\ part \in {"config", "accounts", "notes", "aspects", "sessions"}
    /\ ConfigurationInit /\ (part # "config" => kind = "groups")
    /\ AccountsInit
    /\ NotesInit
    /\ AspectsInit /\ (part # "aspects" => aspects = [a \in AspectNames |-> CHOOSE d \in Definitions : TRUE])
    /\ SessionsInit

ConfigurationStep ==
    /\ part = "config" /\ ConfigurationNext
    /\ UNCHANGED <<part, accountVars, noteVars, aspectVars, sessionVars>>
AccountsStep ==
    /\ part = "accounts" /\ AccountsNext
    /\ UNCHANGED <<part, configVars, noteVars, aspectVars, sessionVars>>
NotesStep ==
    /\ part = "notes" /\ NotesNext
    /\ UNCHANGED <<part, configVars, accountVars, aspectVars, sessionVars>>
AspectsStep ==
    /\ part = "aspects" /\ AspectsNext
    /\ UNCHANGED <<part, configVars, accountVars, noteVars, sessionVars>>
SessionsStep ==
    /\ part = "sessions" /\ SessionsNext
    /\ UNCHANGED <<part, configVars, accountVars, noteVars, aspectVars>>

Next == \/ ConfigurationStep \/ AccountsStep \/ NotesStep \/ AspectsStep \/ SessionsStep

Spec == Init /\ [][Next]_vars
=============================================================================

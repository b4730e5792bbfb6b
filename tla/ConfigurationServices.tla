----------------------- MODULE ConfigurationServices -----------------------
(***************************************************************************)
(* The services that keep configuration records: users, groups, API keys,  *)
(* aspects, features, agents and user preferences.  A record is a function *)
(* from its fields; an operation reads the record, waits, and saves the    *)
(* whole of it.  Any read may fail; one that ends its request leaves all   *)
(* as it is, and some operations take it for a record that is not there.   *)
(* A behaviour exercises one kind of record.                               *)
(***************************************************************************)
EXTENDS Naturals, TLC

CONSTANTS
    Keys, BuiltinNames,   \* the names of records; those of builtin ones
    People, Admin,        \* who asks, by e-mail; the administrators
    Callers, NoRecord, NoCall,
    Bodies,               \* kind -> what a request may carry, fields -> values; 0 is empty
    MaxClock              \* bound on the times at which records are created

ASSUME AdminAssumption == Admin \in People

VARIABLES
    kind,
    store,    \* key -> [body, born, legacy] or NoRecord
    call,     \* caller -> the operation between its reading and its saving
    clock,
    told,     \* key -> the record as the successful requests, in turn, leave it
    mixed     \* the keys on which, since the last whole save, operations overlapped
              \* or one went on from a read that had failed

configVars == <<kind, store, call, clock, told, mixed>>

Kinds == {"users", "groups", "apikeys", "aspects", "features", "agents", "preferences"}
Fields == [k \in Kinds |->
    CASE k \in {"users", "apikeys"} -> {"title", "group"}
      [] k = "groups"      -> {"title"}
      [] k = "aspects"     -> {"title", "properties"}
      [] k = "agents"      -> {"name", "prompt"}
      [] k = "features"    -> {"action", "automatic", "uuids", "tool", "allowed"}
      [] k = "preferences" -> {"theme", "language"}]

\* What is kept under a name: 0 is what JavaScript takes for false.
Records(k) == [body : [Fields[k] -> Nat], born : Nat, legacy : BOOLEAN]

ASSUME BodiesAssumption ==
    /\ \A k \in Kinds : /\ NoRecord \notin Records(k)
                        /\ \A b \in Bodies[k] : \A field \in DOMAIN b : b[field] \in Nat
    /\ MaxClock \in Nat

IsAdmin(who) == who = Admin
Own(who, k) == who = k
\* There are no builtin aspects, API keys or preferences.
IsBuiltin(k) == k \in BuiltinNames /\ kind \in {"users", "groups", "features", "agents"}

----------------------------------------------------------------------------

(* What the schemas ask for. *)

ValidUser(b)    == b["title"] # 0 /\ b["group"] # 0
ValidGroup(b)   == b["title"] # 0
ValidApiKey(b)  == b["title"] # 0 /\ b["group"] # 0
ValidAspect(b)  == b["title"] # 0
ValidAgent(b)   == b["name"] # 0 /\ b["prompt"] # 0
ValidFeature(b) ==
    /\ b["action"] # 0 \/ b["tool"] # 0
    /\ b["automatic"] # 0 => b["action"] # 0
    /\ b["action"] # 0 => b["uuids"] # 0

Valid(b) ==
    CASE kind = "users"    -> ValidUser(b)
      [] kind = "groups"   -> ValidGroup(b)
      [] kind = "apikeys"  -> ValidApiKey(b)
      [] kind = "aspects"  -> ValidAspect(b)
      [] kind = "agents"   -> ValidAgent(b)
      [] kind = "features" -> ValidFeature(b)
      [] OTHER             -> TRUE

\* The fields a request leaves out.
Defaults == [field \in Fields[kind] |->
    IF <<kind, field>> \in {<<"apikeys", "title">>, <<"agents", "prompt">>} THEN 1 ELSE 0]
Completed(b) == [field \in Fields[kind] |->
    IF field \in DOMAIN b /\ b[field] # 0 THEN b[field] ELSE Defaults[field]]

----------------------------------------------------------------------------

(* Requests: what the HTTP handlers pass on. *)

Ask(op, k, b) == [op |-> op, key |-> k, body |-> b]
Writes(ops) == {Ask(op, k, b) : op \in ops, k \in Keys, b \in Bodies[kind]}
Others(ops) == {Ask(op, k, <<>>) : op \in ops, k \in Keys}

UserRequests == Writes({"createUser", "updateUser"}) \cup Others({"deleteUser"})
GroupRequests == Writes({"createGroup"}) \cup Others({"deleteGroup"})
ApiKeyRequests == Writes({"createApiKey"}) \cup Others({"deleteApiKey"})
AspectRequests == Writes({"createAspect", "updateAspect"}) \cup Others({"deleteAspect"})
\* parseFeatureUpload refuses an action without its parameter before the service does.
FeatureRequests ==
    {r \in Writes({"createFeature"}) : Completed(r.body)["action"] # 0 => Completed(r.body)["uuids"] # 0}
    \cup Writes({"updateFeature"}) \cup Others({"deleteFeature", "readFeature"})
AgentRequests == Writes({"createOrReplaceAgent", "updateAgent"}) \cup Others({"deleteAgent"})
\* A user has the preferences kept under the user's own e-mail, and no others.
PreferencesRequests ==
    Writes({"createPreferences", "updatePreferences"}) \cup Others({"deletePreferences"})

Requests ==
    CASE kind = "users"    -> UserRequests
      [] kind = "groups"   -> GroupRequests
      [] kind = "apikeys"  -> ApiKeyRequests
      [] kind = "aspects"  -> AspectRequests
      [] kind = "agents"   -> AgentRequests
      [] kind = "features" -> FeatureRequests
      [] OTHER             -> PreferencesRequests

----------------------------------------------------------------------------

(* The store. *)

Record(b, born) == [body |-> b, born |-> born, legacy |-> FALSE]

\* Every operation between reading and saving the key now holds a copy that is
\* not what is kept.
Aged(k) == [c \in Callers |->
    IF call[c] # NoCall /\ call[c].ask.key = k THEN [call[c] EXCEPT !.old = TRUE] ELSE call[c]]

\* A write of the key in one step, which makes of the record "what is told".
Put(k, rec) ==
    /\ store' = [store EXCEPT ![k] = rec]
    /\ told' = [told EXCEPT ![k] = rec]
    /\ mixed' = mixed \ {k}
    /\ call' = Aged(k)

\* The second half of an operation: rec is what it made of its copy, and
\* meant is what it is to make of the record of the requests before it.
Save(c, rec, meant) ==
    LET k == call[c].ask.key IN
    /\ store' = [store EXCEPT ![k] = rec]
    /\ told' = [told EXCEPT ![k] = meant]
    /\ mixed' = IF call[c].old THEN mixed \cup {k} ELSE mixed
    /\ call' = [Aged(k) EXCEPT ![c] = NoCall]

Tick == clock < MaxClock /\ clock' = clock + 1
\* These take every answer but a record for "there is none".
TakesFailureForNone == {"createUser", "createOrReplaceAgent", "createPreferences", "updatePreferences"}
Readings(r) == {found \in {store[r.key], NoRecord} : found = store[r.key] \/ r.op \in TakesFailureForNone}
Look(c, who, r, found) ==
    /\ call' = [call EXCEPT ![c] = [who |-> who, ask |-> r, copy |-> found, old |-> found # store[r.key]]]
    /\ UNCHANGED <<store, told, mixed, clock>>
Refuse(c) ==
    /\ call' = [call EXCEPT ![c] = NoCall]
    /\ UNCHANGED <<store, told, mixed, clock>>

----------------------------------------------------------------------------

(* Operations of one step: they read nothing, or nothing they use. *)

\* createGroup, createApiKey: under a name made up for them.
CreateNamed(who, r) ==
    /\ IsAdmin(who) /\ store[r.key] = NoRecord /\ ~IsBuiltin(r.key)
    /\ Valid(Completed(r.body))
    /\ Tick /\ Put(r.key, Record(Completed(r.body), clock))
CreateGroup(who, r)  == r.op = "createGroup" /\ CreateNamed(who, r)
CreateApiKey(who, r) == r.op = "createApiKey" /\ CreateNamed(who, r)

\* createAspect, createFeature: over whatever has the name.
CreateOver(who, r) ==
    /\ IsAdmin(who) /\ Valid(Completed(r.body))
    /\ Tick /\ Put(r.key, Record(Completed(r.body), clock))
CreateAspect(who, r)  == r.op = "createAspect" /\ CreateOver(who, r)
CreateFeature(who, r) == r.op = "createFeature" /\ CreateOver(who, r)

DeleteAs(who, r) ==
    /\ IsAdmin(who) /\ ~IsBuiltin(r.key) /\ store[r.key] # NoRecord
    /\ Put(r.key, NoRecord)
    /\ UNCHANGED clock
DeleteUser(who, r)    == r.op = "deleteUser" /\ DeleteAs(who, r)
DeleteGroup(who, r)   == r.op = "deleteGroup" /\ DeleteAs(who, r)
DeleteApiKey(who, r)  == r.op = "deleteApiKey" /\ DeleteAs(who, r)
DeleteAspect(who, r)  == r.op = "deleteAspect" /\ DeleteAs(who, r)
DeleteFeature(who, r) == r.op = "deleteFeature" /\ DeleteAs(who, r)
DeleteAgent(who, r)   == r.op = "deleteAgent" /\ DeleteAs(who, r)
\* The read that comes first decides nothing the deletion does not, unless it
\* fails: then the request succeeds and nothing is deleted.
DeletePreferences(who, r) ==
    /\ r.op = "deletePreferences" /\ Own(who, r.key) /\ store[r.key] # NoRecord
    /\ \/ Put(r.key, NoRecord)
       \/ /\ told' = [told EXCEPT ![r.key] = NoRecord]
          /\ mixed' = mixed \cup {r.key}
          /\ UNCHANGED <<store, call>>
    /\ UNCHANGED clock

----------------------------------------------------------------------------

(* Operations that read, wait and save: who may, and on what they read. *)

Existing(k) == store[k] # NoRecord
MayCreateUser(who, r, found) == r.op = "createUser" /\ IsAdmin(who) /\ found = NoRecord
MayUpdateUser(who, r) ==
    /\ r.op = "updateUser" /\ ~IsBuiltin(r.key) /\ Existing(r.key)
    /\ Own(who, r.key) \/ IsAdmin(who)
MayUpdateAspect(who, r) == r.op = "updateAspect" /\ IsAdmin(who) /\ ~IsBuiltin(r.key) /\ Existing(r.key)
MayUpdateFeature(who, r) == r.op = "updateFeature" /\ IsAdmin(who) /\ ~IsBuiltin(r.key) /\ Existing(r.key)
\* getFeature, listFeatures: reading saves a record of an older version in
\* the form of today, before it asks whether the reader may have it.
MayReadFeature(who, r) ==
    r.op = "readFeature" /\ ~IsBuiltin(r.key) /\ Existing(r.key) /\ store[r.key].legacy
MayReplaceAgent(who, r) == r.op = "createOrReplaceAgent" /\ IsAdmin(who) /\ ~IsBuiltin(r.key)
MayUpdateAgent(who, r) == r.op = "updateAgent" /\ IsAdmin(who) /\ ~IsBuiltin(r.key) /\ Existing(r.key)
MayCreatePreferences(who, r, found) == r.op = "createPreferences" /\ Own(who, r.key) /\ found = NoRecord
MayUpdatePreferences(who, r) == r.op = "updatePreferences" /\ Own(who, r.key)

Begin(c, who, r) ==
    /\ call[c] = NoCall
    /\ \E found \in Readings(r) :
         /\ \/ MayCreateUser(who, r, found) \/ MayUpdateUser(who, r) \/ MayUpdateAspect(who, r)
            \/ MayUpdateFeature(who, r) \/ MayReadFeature(who, r) \/ MayReplaceAgent(who, r)
            \/ MayUpdateAgent(who, r) \/ MayCreatePreferences(who, r, found) \/ MayUpdatePreferences(who, r)
         /\ Look(c, who, r, found)

\* { ...existing, ...changes, createdTime }: what an update makes of a record.
\* An agent whose prompt is emptied has the default one.
Merged(b, changes) == [field \in Fields[kind] |->
    LET v == IF field \in DOMAIN changes THEN changes[field] ELSE b[field] IN
      IF kind = "agents" /\ v = 0 THEN Defaults[field] ELSE v]
\* Variant: an update starts afresh.
ChangedAfresh(rec, changes) == [rec EXCEPT !.body = Completed(changes)]
Changed(rec, changes) == [rec EXCEPT !.body = Merged(@, changes)]
\* For the properties: the fields a request names, and no others, change.
Meant(rec, changes) == [rec EXCEPT !.body = [field \in Fields[kind] |->
    CASE field \notin DOMAIN changes -> rec.body[field]
      [] field \in DOMAIN changes /\ changes[field] # 0 -> changes[field]
      [] OTHER -> Defaults[field]]]
\* asFeatureData: the fields of a feature, with the source of its function.
Normalised(rec) == [rec EXCEPT !.legacy = FALSE]

\* createUser, createUserPreferences: what was there a moment ago is not asked
\* again, though they are to create and never to replace.
FinishCreate(c) ==
    /\ call[c].ask.op \in {"createUser", "createPreferences"}
    /\ LET rec == Record(Completed(call[c].ask.body), clock)
           k == call[c].ask.key
       IN IF Valid(rec.body) THEN Tick /\ Save(c, rec, IF told[k] = NoRecord THEN rec ELSE told[k])
          ELSE Refuse(c)

\* updateUser, updateAspect, updateAgent.
FinishUpdate(c) ==
    /\ call[c].ask.op \in {"updateUser", "updateAspect", "updateAgent"}
    /\ LET changes == call[c].ask.body
           rec == Changed(call[c].copy, changes)
           k == call[c].ask.key
       IN IF Valid(rec.body)
          THEN /\ Save(c, rec, IF told[k] = NoRecord THEN rec ELSE Meant(told[k], changes))
               /\ UNCHANGED clock
          ELSE Refuse(c)

\* createOrReplaceAgent: whole, but for when the agent was created.
ReplacedAgent(copy, b) ==
    Record(Completed(b), IF copy = NoRecord THEN clock ELSE copy.born)
FinishReplaceAgent(c) ==
    /\ call[c].ask.op = "createOrReplaceAgent"
    /\ LET rec == ReplacedAgent(call[c].copy, call[c].ask.body)
           k == call[c].ask.key
       IN IF Valid(rec.body)
          THEN /\ Save(c, rec, IF told[k] = NoRecord THEN rec ELSE [rec EXCEPT !.born = told[k].born])
               /\ IF call[c].copy = NoRecord THEN Tick ELSE UNCHANGED clock
          ELSE Refuse(c)

\* updateUserPreferences: preferences nobody keeps are empty ones.
FinishPreferences(c) ==
    /\ call[c].ask.op = "updatePreferences"
    /\ LET changes == call[c].ask.body
           k == call[c].ask.key
           Over(rec, new) == IF rec = NoRecord THEN Record(Completed(changes), 0) ELSE new
       IN /\ Save(c, Over(call[c].copy, Changed(call[c].copy, changes)),
                     Over(told[k], Meant(told[k], changes)))
          /\ UNCHANGED clock

\* getFeature, listFeatures and the first save of updateFeature, which goes on
\* with what it has saved.
Normalise(c) ==
    /\ call[c].ask.op \in {"readFeature", "updateFeature"} /\ call[c].copy.legacy
    /\ LET rec == Normalised(call[c].copy)
           k == call[c].ask.key IN
         /\ store' = [store EXCEPT ![k] = rec]
         /\ told' = IF told[k] = NoRecord THEN told ELSE [told EXCEPT ![k].legacy = FALSE]
         /\ mixed' = IF call[c].old THEN mixed \cup {k} ELSE mixed
         /\ call' = [Aged(k) EXCEPT ![c] =
              IF call[c].ask.op = "readFeature" THEN NoCall ELSE [call[c] EXCEPT !.copy = rec]]
    /\ UNCHANGED clock
FinishFeature(c) ==
    /\ call[c].ask.op = "updateFeature" /\ ~call[c].copy.legacy
    /\ LET changes == call[c].ask.body
           rec == Changed(call[c].copy, changes)
           k == call[c].ask.key
       IN IF Valid(rec.body)
          THEN /\ Save(c, rec, IF told[k] = NoRecord THEN rec ELSE Meant(told[k], changes))
               /\ UNCHANGED clock
          ELSE Refuse(c)

----------------------------------------------------------------------------

ConfigurationInit ==
    /\ kind \in Kinds
    \* Features may have been kept by an older version of the program.
    /\ \E b \in Bodies[kind] :
         LET old == [Record(Completed(b), 0) EXCEPT !.legacy = TRUE] IN
         store \in [Keys -> {NoRecord} \cup {r \in {old} : kind = "features" /\ Valid(r.body)}]
    /\ \A k \in Keys \cap BuiltinNames : store[k] = NoRecord
    /\ told = store
    /\ call = [c \in Callers |-> NoCall]
    /\ clock = 1
    /\ mixed = {}

InOneStep(who, r) ==
    \/ CreateGroup(who, r) \/ CreateApiKey(who, r) \/ CreateAspect(who, r) \/ CreateFeature(who, r)
    \/ DeleteUser(who, r) \/ DeleteGroup(who, r) \/ DeleteApiKey(who, r) \/ DeleteAspect(who, r)
    \/ DeleteFeature(who, r) \/ DeleteAgent(who, r) \/ DeletePreferences(who, r)

Finish(c) ==
    /\ call[c] # NoCall
    /\ \/ FinishCreate(c) \/ FinishUpdate(c) \/ FinishReplaceAgent(c)
       \/ FinishPreferences(c) \/ Normalise(c) \/ FinishFeature(c)

ConfigurationNext ==
    /\ \/ \E who \in People, r \in Requests : InOneStep(who, r) \/ \E c \in Callers : Begin(c, who, r)
       \/ \E c \in Callers : Finish(c)
    /\ UNCHANGED kind

ConfigurationSpec == ConfigurationInit /\ [][ConfigurationNext]_configVars

----------------------------------------------------------------------------

MayChange(who, k) == IsAdmin(who) \/ (kind \in {"users", "preferences"} /\ Own(who, k))

\* The whole of what is kept is what the successful requests add up to, one
\* after the other, unless two operations on the record overlapped or one took
\* a failed read for "no record" (updateUserPreferences, createUser,
\* createOrReplaceAgent, deleteUserPreferences): each field changed is changed,
\* every other stays, the time of creation too, nobody is created twice,
\* reading changes nothing, and what was deleted stays so.
ChangesAreKept ==
    \A k \in Keys \ mixed :
      IF told[k] = NoRecord THEN store[k] = NoRecord
      ELSE store[k] # NoRecord /\ store[k].body = told[k].body /\ store[k].born = told[k].born

=============================================================================

--------------------------- MODULE ServicesProofs ---------------------------
(***************************************************************************)
(* The services around the nodes, for any number of callers, readers and   *)
(* writers: what is kept of configuration records, the groups users act    *)
(* with, deletions of notifications, the properties of a node, the limit   *)
(* of tokens, the sessions that answer.  Each service has an inductive     *)
(* invariant of its own, which says what an operation under way may rely   *)
(* on between its reading and its writing.                                 *)
(***************************************************************************)
EXTENDS ConfigurationServices, Accounts, Notifications, NodeAspects, AgentSessions,
        FiniteSetTheorems, SequenceTheorems, TLAPS

----------------------------------------------------------------------------
(* Configuration records                                                   *)

IsRecord(rec) ==
    /\ rec \in Records(kind)
    /\ kind = "agents" => \A field \in Fields[kind] : rec.body[field] = 0 => Defaults[field] = 0
Agree(rec, meant) ==
    IF meant = NoRecord THEN rec = NoRecord
    ELSE rec # NoRecord /\ rec.body = meant.body /\ rec.born = meant.born

\* The requests that change some fields of a record, and those that need one.
Changing == {"updateUser", "updateAspect", "updateAgent", "updateFeature", "updatePreferences"}
Needing == {"updateUser", "updateAspect", "updateAgent", "updateFeature", "readFeature"}
Creating == {"createUser", "createPreferences"}

AskOK(r) ==
    /\ r.key \in Keys
    /\ \A field \in DOMAIN r.body : r.body[field] \in Nat
    /\ r.op \in Changing => kind # "apikeys"

\* An operation whose copy is not old holds what is in the store.
CallOK(q, stored) ==
    /\ q = [who |-> q.who, ask |-> q.ask, copy |-> q.copy, old |-> q.old]
    /\ AskOK(q.ask)
    /\ q.copy = NoRecord \/ IsRecord(q.copy)
    /\ ~q.old => q.copy = stored[q.ask.key]
    /\ q.ask.op \in Needing => q.copy # NoRecord
    /\ q.ask.op \in Creating => q.copy = NoRecord

ConfigInv ==
    /\ kind \in Kinds /\ clock \in Nat
    /\ store = [k \in Keys |-> store[k]] /\ told = [k \in Keys |-> told[k]]
    /\ call = [c \in Callers |-> call[c]]
    /\ \A k \in Keys : /\ store[k] = NoRecord \/ IsRecord(store[k])
                       /\ told[k] = NoRecord \/ IsRecord(told[k])
    /\ \A c \in Callers : call[c] # NoCall => CallOK(call[c], store)
    /\ ChangesAreKept

LEMMA RecordIsSome == ASSUME kind \in Kinds, NEW rec, IsRecord(rec) PROVE rec # NoRecord
  BY BodiesAssumption DEF IsRecord

\* One field of a record changed.
LEMMA OneField ==
  ASSUME NEW rec, NEW k, rec \in Records(k)
  PROVE  /\ Normalised(rec) \in Records(k)
         /\ Normalised(rec).body = rec.body /\ Normalised(rec).born = rec.born
         /\ [rec EXCEPT !.legacy = TRUE] \in Records(k)
         /\ [rec EXCEPT !.legacy = TRUE].body = rec.body
         /\ \A at \in Nat : /\ [rec EXCEPT !.born = at] \in Records(k)
                            /\ [rec EXCEPT !.born = at].body = rec.body
                            /\ [rec EXCEPT !.born = at].born = at
  BY DEF Records, Normalised

LEMMA Asked == ASSUME kind \in Kinds, NEW r \in Requests PROVE AskOK(r)
  <1>1. ASSUME NEW ops, r \in Writes(ops) PROVE r.key \in Keys /\ r.op \in ops /\ r.body \in Bodies[kind]
    BY <1>1 DEF Writes, Ask
  <1>2. ASSUME NEW ops, r \in Others(ops) PROVE r.key \in Keys /\ r.op \in ops /\ r.body = <<>>
    BY <1>2 DEF Others, Ask
  <1>3. ASSUME NEW ops, NEW more, r \in Writes(ops) \cup Others(more)
        PROVE  /\ r.key \in Keys /\ r.op \in ops \cup more
               /\ \A field \in DOMAIN r.body : r.body[field] \in Nat
    BY <1>1, <1>2, <1>3, BodiesAssumption
  <1>4. CASE kind = "apikeys"
    <2>1. r \in Writes({"createApiKey"}) \cup Others({"deleteApiKey"})
      BY <1>4 DEF Requests, ApiKeyRequests
    <2>2. r.op \in {"createApiKey", "deleteApiKey"}
      BY <1>3, <2>1
    <2> QED
      BY <1>3, <2>1, <2>2 DEF AskOK, Changing
  <1>5. CASE kind # "apikeys"
    <2>1. CASE kind = "users"
      BY <1>3, <1>5, <2>1 DEF Requests, UserRequests, AskOK
    <2>2. CASE kind = "groups"
      BY <1>3, <1>5, <2>2 DEF Requests, GroupRequests, AskOK
    <2>3. CASE kind = "aspects"
      BY <1>3, <1>5, <2>3 DEF Requests, AspectRequests, AskOK
    <2>4. CASE kind = "agents"
      BY <1>3, <1>5, <2>4 DEF Requests, AgentRequests, AskOK
    <2>5. CASE kind = "features"
      <3>1. r \in Writes({"createFeature", "updateFeature"}) \cup Others({"deleteFeature", "readFeature"})
        BY <2>5 DEF Requests, FeatureRequests, Writes
      <3> QED
        BY <1>3, <1>5, <3>1 DEF AskOK
    <2>6. CASE kind = "preferences"
      BY <1>3, <1>5, <2>6 DEF Requests, PreferencesRequests, AskOK
    <2> QED
      BY <1>5, <2>1, <2>2, <2>3, <2>4, <2>5, <2>6 DEF Kinds
  <1> QED
    BY <1>4, <1>5

\* The bodies operations make are bodies.
LEMMA MadeBodies ==
  ASSUME kind \in Kinds, NEW b, \A field \in DOMAIN b : b[field] \in Nat, NEW born \in Nat
  PROVE  /\ IsRecord(Record(Completed(b), born))
         /\ \A rec : IsRecord(rec) => /\ IsRecord(Changed(rec, b)) /\ IsRecord(Meant(rec, b))
                                      /\ Changed(rec, b).born = rec.born /\ Meant(rec, b).born = rec.born
  <1>1. \A field \in Fields[kind] : Defaults[field] \in Nat
    BY DEF Defaults
  <1>2. Completed(b) \in [Fields[kind] -> Nat]
    BY <1>1 DEF Completed
  <1>3. \A field \in Fields[kind] : Completed(b)[field] = 0 => Defaults[field] = 0
    BY DEF Completed
  <1>4. IsRecord(Record(Completed(b), born))
    BY <1>2, <1>3 DEF IsRecord, Record, Records
  <1>5. ASSUME NEW rec, IsRecord(rec)
        PROVE  /\ IsRecord(Changed(rec, b)) /\ IsRecord(Meant(rec, b))
               /\ Changed(rec, b).born = rec.born /\ Meant(rec, b).born = rec.born
    <2>1. PICK body \in [Fields[kind] -> Nat], at \in Nat, legacy \in BOOLEAN :
            rec = [body |-> body, born |-> at, legacy |-> legacy]
      BY <1>5 DEF IsRecord, Records
    <2>2. kind = "agents" => \A field \in Fields[kind] : body[field] = 0 => Defaults[field] = 0
      BY <1>5, <2>1 DEF IsRecord
    <2>3. PICK new : new = Merged(body, b)
      OBVIOUS
    <2>4. /\ new \in [Fields[kind] -> Nat]
          /\ kind = "agents" => \A field \in Fields[kind] : new[field] = 0 => Defaults[field] = 0
      BY <1>1, <2>3 DEF Merged
    <2>5. Changed(rec, b) = [body |-> new, born |-> at, legacy |-> legacy]
      BY <2>1, <2>3 DEF Changed
    <2>6. PICK meant : meant = [field \in Fields[kind] |->
            CASE field \notin DOMAIN b -> rec.body[field]
              [] field \in DOMAIN b /\ b[field] # 0 -> b[field]
              [] OTHER -> Defaults[field]]
      OBVIOUS
    <2>7. \A field \in Fields[kind] :
            meant[field] = IF field \notin DOMAIN b THEN body[field]
                           ELSE IF b[field] # 0 THEN b[field] ELSE Defaults[field]
      BY <2>1, <2>6
    <2>8. /\ meant \in [Fields[kind] -> Nat]
          /\ kind = "agents" => \A field \in Fields[kind] : meant[field] = 0 => Defaults[field] = 0
      BY <1>1, <2>2, <2>6, <2>7
    <2>9. Meant(rec, b) = [body |-> meant, born |-> at, legacy |-> legacy]
      BY <2>1, <2>6 DEF Meant
    <2> QED
      BY <2>1, <2>4, <2>5, <2>8, <2>9 DEF IsRecord, Records
  <1> QED
    BY <1>4, <1>5

\* An update changes the fields it names, and no others.
LEMMA ChangedAsMeant ==
  ASSUME kind \in Kinds, kind # "apikeys", NEW b, \A field \in DOMAIN b : b[field] \in Nat,
         NEW rec, IsRecord(rec), NEW old, IsRecord(old), Agree(rec, old)
  PROVE  Agree(Changed(rec, b), Meant(old, b))
  <1>1. PICK body \in [Fields[kind] -> Nat], at \in Nat, legacy \in BOOLEAN, l2 \in BOOLEAN :
          /\ rec = [body |-> body, born |-> at, legacy |-> legacy]
          /\ old = [body |-> body, born |-> at, legacy |-> l2]
    <2>1. rec.body = old.body /\ rec.born = old.born
      BY RecordIsSome DEF Agree
    <2> QED
      BY <2>1 DEF IsRecord, Records
  <1>2. kind = "agents" => \A field \in Fields[kind] : body[field] = 0 => Defaults[field] = 0
    BY <1>1 DEF IsRecord
  <1>3. kind # "agents" => \A field \in Fields[kind] : Defaults[field] = 0
    BY DEF Defaults
  <1>4. PICK new : new = Merged(body, b)
    OBVIOUS
  <1>5. PICK meant : meant = [field \in Fields[kind] |->
          CASE field \notin DOMAIN b -> body[field]
            [] field \in DOMAIN b /\ b[field] # 0 -> b[field]
            [] OTHER -> Defaults[field]]
    OBVIOUS
  <1>6. ASSUME NEW field \in Fields[kind] PROVE new[field] = meant[field]
    <2>1. meant[field] = IF field \notin DOMAIN b THEN body[field]
                         ELSE IF b[field] # 0 THEN b[field] ELSE Defaults[field]
      BY <1>5
    <2>2. new[field] = LET v == IF field \in DOMAIN b THEN b[field] ELSE body[field] IN
                         IF kind = "agents" /\ v = 0 THEN Defaults[field] ELSE v
      BY <1>4 DEF Merged
    <2> QED
      BY <1>2, <1>3, <2>1, <2>2
  <1>7. new = meant
    BY <1>4, <1>5, <1>6 DEF Merged
  <1>8. Changed(rec, b) = [body |-> new, born |-> at, legacy |-> legacy]
    BY <1>1, <1>4 DEF Changed
  <1>9. Meant(old, b) = [body |-> meant, born |-> at, legacy |-> l2]
    BY <1>1, <1>5 DEF Meant
  <1>10. at \in Nat /\ IsRecord(Changed(rec, b)) /\ IsRecord(Meant(old, b))
    BY MadeBodies
  <1>11. Changed(rec, b) # NoRecord /\ Meant(old, b) # NoRecord
    BY <1>10, RecordIsSome
  <1> QED
    BY <1>7, <1>8, <1>9, <1>11 DEF Agree

\* An operation that has read a record another one changes holds an old copy.
LEMMA OthersAge ==
  ASSUME ConfigInv, NEW k \in Keys, NEW rec, NEW c \in Callers
  PROVE  IF call[c] = NoCall THEN Aged(k)[c] = NoCall ELSE CallOK(Aged(k)[c], [store EXCEPT ![k] = rec])
  <1>1. CASE call[c] = NoCall
    BY <1>1 DEF Aged
  <1>2. CASE call[c] # NoCall
    <2>1. PICK who, ask, copy, old : call[c] = [who |-> who, ask |-> ask, copy |-> copy, old |-> old]
      <3>1. call[c] = [who |-> call[c].who, ask |-> call[c].ask, copy |-> call[c].copy, old |-> call[c].old]
        BY <1>2 DEF ConfigInv, CallOK
      <3> QED
        BY <3>1
    <2>2. CallOK(call[c], store)
      BY <1>2 DEF ConfigInv
    <2>3. store = [key \in Keys |-> store[key]]
      BY DEF ConfigInv
    <2>4. CASE ask.key = k
      <3>1. call[c].ask.key = k
        BY <2>1, <2>4
      <3>2. Aged(k)[c] = [call[c] EXCEPT !.old = TRUE]
        BY <1>2, <3>1 DEF Aged
      <3>3. Aged(k)[c] = [[who |-> who, ask |-> ask, copy |-> copy, old |-> old] EXCEPT !.old = TRUE]
        BY <2>1, <3>2, Zenon
      <3>4. Aged(k)[c] = [who |-> who, ask |-> ask, copy |-> copy, old |-> TRUE]
        BY <3>3
      <3> QED
        BY <1>2, <2>1, <2>2, <3>4 DEF CallOK
    <2>5. CASE ask.key # k
      <3>1. Aged(k)[c] = [who |-> who, ask |-> ask, copy |-> copy, old |-> old]
        BY <1>2, <2>1, <2>5 DEF Aged
      <3>2. ask.key \in Keys
        BY <2>1, <2>2 DEF CallOK, AskOK
      <3>3. [store EXCEPT ![k] = rec][ask.key] = store[ask.key]
        BY <2>3, <2>5, <3>2
      <3> QED
        BY <1>2, <2>1, <2>2, <3>1, <3>3 DEF CallOK
    <2> QED
      BY <2>4, <2>5
  <1> QED
    BY <1>1, <1>2

LEMMA PutKeeps ==
  ASSUME ConfigInv, NEW k \in Keys, NEW rec, rec = NoRecord \/ IsRecord(rec), Put(k, rec),
         clock' \in Nat, UNCHANGED kind
  PROVE  ConfigInv'
  <1>1. /\ kind' \in Kinds /\ store' = [key \in Keys |-> store'[key]] /\ told' = [key \in Keys |-> told'[key]]
        /\ call' = [c \in Callers |-> call'[c]]
    BY DEF ConfigInv, Put, Aged
  <1>2. \A key \in Keys : /\ store'[key] = NoRecord \/ IsRecord(store'[key])
                          /\ told'[key] = NoRecord \/ IsRecord(told'[key])
    BY DEF ConfigInv, Put
  <1>3. \A key \in Keys : /\ store'[key] = NoRecord \/ IsRecord(store[key])'
                          /\ told'[key] = NoRecord \/ IsRecord(told[key])'
    BY <1>2 DEF IsRecord, Defaults
  <1>4. ASSUME NEW c \in Callers, call'[c] # NoCall PROVE CallOK(call'[c], store')
    BY <1>4, OthersAge DEF Put, Aged
  <1>5. \A c \in Callers : call'[c] # NoCall => CallOK(call[c], store)'
    BY <1>4 DEF CallOK, AskOK, IsRecord, Defaults
  <1>6. ChangesAreKept'
    BY RecordIsSome DEF ConfigInv, Put, ChangesAreKept
  <1> QED
    BY <1>1, <1>3, <1>5, <1>6 DEF ConfigInv

\* What an operation makes of its copy is what it is to make of the record, if
\* the copy is not old and nothing overlapped before: then every change is kept.
LEMMA CopyKeeps ==
  ASSUME ConfigInv, NEW c \in Callers, call[c] # NoCall, NEW k, k = call[c].ask.key,
         NEW rec, IsRecord(rec), NEW meant, meant = NoRecord \/ IsRecord(meant),
         Agree(call[c].copy, told[k]) => Agree(rec, meant),
         NEW next, next = NoCall \/ CallOK(next, [store EXCEPT ![k] = rec]),
         store' = [store EXCEPT ![k] = rec], told' = [told EXCEPT ![k] = meant],
         mixed' = (IF call[c].old THEN mixed \cup {k} ELSE mixed),
         call' = [Aged(k) EXCEPT ![c] = next], clock' \in Nat, UNCHANGED kind
  PROVE  ConfigInv'
  <1>1. /\ kind' \in Kinds /\ store' = [key \in Keys |-> store'[key]] /\ told' = [key \in Keys |-> told'[key]]
        /\ call' = [d \in Callers |-> call'[d]]
    BY DEF ConfigInv, Aged
  <1>2. k \in Keys /\ (~call[c].old => call[c].copy = store[k])
    BY DEF ConfigInv, CallOK, AskOK
  <1>3. \A key \in Keys : /\ store'[key] = NoRecord \/ IsRecord(store'[key])
                          /\ told'[key] = NoRecord \/ IsRecord(told'[key])
    BY DEF ConfigInv
  <1>4. \A key \in Keys : /\ store'[key] = NoRecord \/ IsRecord(store[key])'
                          /\ told'[key] = NoRecord \/ IsRecord(told[key])'
    BY <1>3 DEF IsRecord, Defaults
  <1>5. ASSUME NEW d \in Callers, call'[d] # NoCall PROVE CallOK(call'[d], store')
    <2>1. CASE d = c
      BY <1>5, <2>1 DEF Aged
    <2>2. CASE d # c
      BY <1>2, <1>5, <2>2, OthersAge DEF Aged
    <2> QED
      BY <2>1, <2>2
  <1>6. \A d \in Callers : call'[d] # NoCall => CallOK(call[d], store)'
    BY <1>5 DEF CallOK, AskOK, IsRecord, Defaults
  <1>7. ASSUME NEW key \in Keys \ mixed' PROVE Agree(store'[key], told'[key])
    <2>1. key \notin mixed /\ Agree(store[key], told[key])
      BY <1>7 DEF ConfigInv, ChangesAreKept, Agree
    <2>2. CASE key = k
      BY <1>2, <1>7, <2>1, <2>2 DEF ConfigInv
    <2>3. CASE key # k
      BY <1>7, <2>1, <2>3 DEF ConfigInv
    <2> QED
      BY <2>2, <2>3
  <1>8. ChangesAreKept'
    BY <1>7 DEF ChangesAreKept, Agree
  <1> QED
    BY <1>1, <1>4, <1>6, <1>8 DEF ConfigInv

LEMMA SaveKeeps ==
  ASSUME ConfigInv, NEW c \in Callers, call[c] # NoCall,
         NEW rec, IsRecord(rec), NEW meant, meant = NoRecord \/ IsRecord(meant),
         Agree(call[c].copy, told[call[c].ask.key]) => Agree(rec, meant),
         Save(c, rec, meant), clock' \in Nat, UNCHANGED kind
  PROVE  ConfigInv'
  BY CopyKeeps DEF Save

LEMMA RefuseKeeps ==
  ASSUME ConfigInv, NEW c \in Callers, Refuse(c), UNCHANGED kind
  PROVE  ConfigInv'
  <1>1. /\ call' = [d \in Callers |-> call'[d]]
        /\ \A d \in Callers : call'[d] # NoCall => CallOK(call'[d], store)
    BY DEF ConfigInv, Refuse
  <1>2. \A d \in Callers : call'[d] # NoCall => CallOK(call[d], store)'
    BY <1>1 DEF Refuse, CallOK, AskOK, IsRecord, Defaults
  <1>3. \A key \in Keys : /\ store'[key] = NoRecord \/ IsRecord(store[key])'
                          /\ told'[key] = NoRecord \/ IsRecord(told[key])'
    BY DEF ConfigInv, Refuse, IsRecord, Defaults
  <1> QED
    BY <1>1, <1>2, <1>3 DEF ConfigInv, Refuse, ChangesAreKept

LEMMA BeginKeeps ==
  ASSUME ConfigInv, NEW c \in Callers, NEW who \in People, NEW r \in Requests, Begin(c, who, r), UNCHANGED kind
  PROVE  ConfigInv'
  <1>1. AskOK(r)
    BY Asked DEF ConfigInv
  <1>2. PICK found \in Readings(r) :
          /\ Look(c, who, r, found)
          /\ r.op \in Needing => store[r.key] # NoRecord
          /\ r.op \in Creating => found = NoRecord
    BY DEF Begin, MayCreateUser, MayUpdateUser, MayUpdateAspect, MayUpdateFeature, MayReadFeature,
           MayReplaceAgent, MayUpdateAgent, MayCreatePreferences, MayUpdatePreferences, Existing, Needing, Creating
  <1>3. CallOK([who |-> who, ask |-> r, copy |-> found, old |-> found # store[r.key]], store)
    <2>1. /\ found = store[r.key] \/ found = NoRecord
          /\ r.op \in Needing => found = store[r.key]
      BY <1>2 DEF Readings, TakesFailureForNone, Needing
    <2> QED
      BY <1>1, <1>2, <2>1 DEF CallOK, ConfigInv, AskOK
  <1>4. /\ call' = [d \in Callers |-> call'[d]]
        /\ \A d \in Callers : call'[d] # NoCall => CallOK(call'[d], store)
    BY <1>2, <1>3 DEF ConfigInv, Look
  <1>5. \A d \in Callers : call'[d] # NoCall => CallOK(call[d], store)'
    BY <1>2, <1>4 DEF Look, CallOK, AskOK, IsRecord, Defaults
  <1>6. \A key \in Keys : /\ store'[key] = NoRecord \/ IsRecord(store[key])'
                          /\ told'[key] = NoRecord \/ IsRecord(told[key])'
    BY <1>2 DEF ConfigInv, Look, IsRecord, Defaults
  <1> QED
    BY <1>2, <1>4, <1>5, <1>6 DEF ConfigInv, Look, ChangesAreKept

LEMMA OneStepKeeps ==
  ASSUME ConfigInv, NEW who \in People, NEW r \in Requests, InOneStep(who, r), UNCHANGED kind
  PROVE  ConfigInv'
  <1>1. AskOK(r) /\ kind \in Kinds /\ clock \in Nat
    BY Asked DEF ConfigInv
  <1>2. ASSUME Tick, Put(r.key, Record(Completed(r.body), clock)) PROVE ConfigInv'
    <2>1. IsRecord(Record(Completed(r.body), clock))
      BY <1>1, MadeBodies DEF AskOK
    <2>2. clock' \in Nat /\ r.key \in Keys
      BY <1>1, <1>2 DEF Tick, AskOK
    <2> QED
      BY <1>2, <2>1, <2>2, PutKeeps
  <1>3. ASSUME Put(r.key, NoRecord), UNCHANGED clock PROVE ConfigInv'
    BY <1>1, <1>3, PutKeeps DEF AskOK
  <1>4. ASSUME told' = [told EXCEPT ![r.key] = NoRecord], mixed' = mixed \cup {r.key}, UNCHANGED <<store, call, clock>>
        PROVE  ConfigInv'
    <2>1. \A key \in Keys : /\ store'[key] = NoRecord \/ IsRecord(store[key])'
                            /\ told'[key] = NoRecord \/ IsRecord(told[key])'
      BY <1>4 DEF ConfigInv, IsRecord, Defaults
    <2>2. \A c \in Callers : call'[c] # NoCall => CallOK(call[c], store)'
      BY <1>4 DEF ConfigInv, CallOK, AskOK, IsRecord, Defaults
    <2>3. ChangesAreKept'
      BY <1>4 DEF ConfigInv, ChangesAreKept
    <2> QED
      BY <1>4, <2>1, <2>2, <2>3 DEF ConfigInv
  <1> QED
    BY <1>2, <1>3, <1>4 DEF InOneStep, CreateGroup, CreateApiKey, CreateNamed, CreateAspect, CreateFeature, CreateOver,
         DeleteUser, DeleteGroup, DeleteApiKey, DeleteAspect, DeleteFeature, DeleteAgent, DeleteAs, DeletePreferences

LEMMA FinishKeeps ==
  ASSUME ConfigInv, NEW c \in Callers, Finish(c), UNCHANGED kind
  PROVE  ConfigInv'
  <1>1. call[c] # NoCall /\ CallOK(call[c], store) /\ kind \in Kinds /\ clock \in Nat
    BY DEF ConfigInv, Finish
  <1> DEFINE copy == call[c].copy
             b == call[c].ask.body
             k == call[c].ask.key
  <1>2. /\ k \in Keys /\ \A field \in DOMAIN b : b[field] \in Nat
        /\ copy = NoRecord \/ IsRecord(copy)
        /\ call[c].ask.op \in Changing => kind # "apikeys"
        /\ call[c].ask.op \in Needing => copy # NoRecord
        /\ call[c].ask.op \in Creating => copy = NoRecord
    BY <1>1 DEF CallOK, AskOK
  <1>3. told[k] = NoRecord \/ IsRecord(told[k])
    BY <1>2 DEF ConfigInv
  <1>4. /\ \A born \in Nat : IsRecord(Record(Completed(b), born))
        /\ \A rec : IsRecord(rec) => /\ IsRecord(Changed(rec, b)) /\ IsRecord(Meant(rec, b))
                                     /\ Changed(rec, b).born = rec.born /\ Meant(rec, b).born = rec.born
    BY <1>1, <1>2, MadeBodies
  <1>5. ASSUME copy # NoRecord, kind # "apikeys"
        PROVE  Agree(copy, told[k]) =>
                 Agree(Changed(copy, b), IF told[k] = NoRecord THEN Changed(copy, b) ELSE Meant(told[k], b))
    <2>1. CASE told[k] = NoRecord
      BY <1>5, <2>1 DEF Agree
    <2>2. CASE told[k] # NoRecord
      BY <1>1, <1>2, <1>3, <1>5, <2>2, ChangedAsMeant
    <2> QED
      BY <2>1, <2>2
  <1>6. CASE FinishCreate(c)
    <2> DEFINE rec == Record(Completed(b), clock)
               meant == IF told[k] = NoRecord THEN rec ELSE told[k]
    <2>1. CASE Refuse(c)
      BY <2>1, RefuseKeeps
    <2>2. CASE Tick /\ Save(c, rec, meant)
      <3>1. IsRecord(rec) /\ IsRecord(meant)
        BY <1>1, <1>3, <1>4
      <3>2. copy = NoRecord
        BY <1>2, <1>6 DEF FinishCreate, Creating
      <3>3. Agree(copy, told[k]) => Agree(rec, meant)
        BY <1>1, <3>1, <3>2, RecordIsSome DEF Agree
      <3>4. clock' \in Nat
        BY <1>1, <2>2 DEF Tick
      <3> HIDE DEF rec, meant
      <3> QED
        BY <1>1, <2>2, <3>1, <3>3, <3>4, SaveKeeps
    <2> QED
      BY <1>6, <2>1, <2>2 DEF FinishCreate
  <1>7. ASSUME call[c].ask.op \in Changing \cap Needing,
               Save(c, Changed(copy, b), IF told[k] = NoRecord THEN Changed(copy, b) ELSE Meant(told[k], b)),
               UNCHANGED clock
        PROVE  ConfigInv'
    <2>1. /\ IsRecord(Changed(copy, b)) /\ clock' \in Nat
          /\ Agree(copy, told[k]) =>
               Agree(Changed(copy, b), IF told[k] = NoRecord THEN Changed(copy, b) ELSE Meant(told[k], b))
      BY <1>1, <1>2, <1>4, <1>5, <1>7
    <2>2. IsRecord(IF told[k] = NoRecord THEN Changed(copy, b) ELSE Meant(told[k], b))
      BY <1>3, <1>4, <2>1
    <2> QED
      BY <1>1, <1>7, <2>1, <2>2, SaveKeeps
  <1>8. CASE FinishUpdate(c)
    BY <1>7, <1>8, RefuseKeeps DEF FinishUpdate, Changing, Needing
  <1>9. CASE FinishFeature(c)
    BY <1>7, <1>9, RefuseKeeps DEF FinishFeature, Changing, Needing
  <1>10. CASE FinishReplaceAgent(c)
    <2> DEFINE rec == ReplacedAgent(copy, b)
               meant == IF told[k] = NoRecord THEN rec ELSE [rec EXCEPT !.born = told[k].born]
    <2>1. IsRecord(rec)
      BY <1>1, <1>2, <1>4 DEF ReplacedAgent, IsRecord, Records
    <2>2. ASSUME told[k] # NoRecord
          PROVE  /\ IsRecord([rec EXCEPT !.born = told[k].born])
                 /\ [rec EXCEPT !.born = told[k].born].body = rec.body
                 /\ [rec EXCEPT !.born = told[k].born].born = told[k].born
      <3>1. told[k].born \in Nat
        BY <1>3, <2>2 DEF IsRecord, Records
      <3> HIDE DEF rec
      <3> QED
        BY <2>1, <3>1, OneField DEF IsRecord, Records
    <2>3. IsRecord(meant)
      BY <2>1, <2>2
    <2>4. Agree(copy, told[k]) => Agree(rec, meant)
      <3>1. CASE told[k] = NoRecord
        BY <3>1 DEF Agree
      <3>2. CASE told[k] # NoRecord
        <4>1. copy # NoRecord => rec.born = copy.born
          BY DEF ReplacedAgent, Record
        <4>2. rec # NoRecord /\ meant # NoRecord
          BY <1>1, <2>1, <2>3, RecordIsSome
        <4>3. meant.body = rec.body /\ meant.born = told[k].born
          BY <2>2, <3>2
        <4> HIDE DEF rec, meant
        <4> QED
          BY <3>2, <4>1, <4>2, <4>3 DEF Agree
      <3> QED
        BY <3>1, <3>2
    <2>5. CASE Save(c, rec, meant) /\ clock' \in Nat
      <3> HIDE DEF rec, meant
      <3> QED
        BY <1>1, <2>1, <2>3, <2>4, <2>5, SaveKeeps
    <2>6. CASE Refuse(c)
      BY <2>6, RefuseKeeps
    <2> QED
      BY <1>1, <1>10, <2>5, <2>6 DEF FinishReplaceAgent, Tick
  <1>11. CASE FinishPreferences(c)
    <2> DEFINE fresh == Record(Completed(b), 0)
               rec == IF copy = NoRecord THEN fresh ELSE Changed(copy, b)
               meant == IF told[k] = NoRecord THEN fresh ELSE Meant(told[k], b)
    <2>1. IsRecord(fresh) /\ IsRecord(rec) /\ IsRecord(meant)
      BY <1>2, <1>3, <1>4
    <2>2. kind # "apikeys"
      BY <1>2, <1>11 DEF FinishPreferences, Changing
    <2>3. Agree(copy, told[k]) => Agree(rec, meant)
      <3>1. CASE copy = NoRecord
        BY <2>1, <3>1, RecordIsSome DEF Agree
      <3>2. CASE copy # NoRecord
        <4>1. CASE told[k] = NoRecord
          BY <3>2, <4>1 DEF Agree
        <4>2. CASE told[k] # NoRecord
          BY <1>5, <2>2, <3>2, <4>2 DEF Agree
        <4> QED
          BY <4>1, <4>2
      <3> QED
        BY <3>1, <3>2
    <2>4. Save(c, rec, meant) /\ clock' \in Nat
      BY <1>1, <1>11 DEF FinishPreferences
    <2> HIDE DEF rec, meant
    <2> QED
      BY <1>1, <2>1, <2>3, <2>4, SaveKeeps
  <1>12. CASE Normalise(c)
    <2>1. copy # NoRecord /\ clock' \in Nat
      BY <1>1, <1>2, <1>12 DEF Normalise, Needing
    <2>2. \A rec : IsRecord(rec) => /\ IsRecord(Normalised(rec))
                                    /\ Normalised(rec).body = rec.body /\ Normalised(rec).born = rec.born
      BY OneField DEF IsRecord
    <2>3. PICK rec : rec = Normalised(copy)
      OBVIOUS
    <2>4. rec # NoRecord /\ copy # NoRecord /\ rec.body = copy.body /\ rec.born = copy.born
      BY <1>1, <1>2, <2>1, <2>2, <2>3, RecordIsSome
    <2>5. IsRecord(rec)
      BY <1>2, <2>1, <2>2, <2>3
    <2>6. PICK meant : meant = IF told[k] = NoRecord THEN NoRecord ELSE Normalised(told[k])
      OBVIOUS
    <2>7. /\ meant = NoRecord \/ IsRecord(meant)
          /\ told[k] = NoRecord <=> meant = NoRecord
          /\ told[k] # NoRecord => meant.body = told[k].body /\ meant.born = told[k].born
      BY <1>1, <1>3, <2>2, <2>6, RecordIsSome
    <2>8. Agree(copy, told[k]) => Agree(rec, meant)
      BY <2>4, <2>7 DEF Agree
    <2>9. told' = [told EXCEPT ![k] = meant]
      BY <1>2, <1>12, <2>6 DEF Normalise, Normalised, ConfigInv
    <2>10. PICK who, ask, old : call[c] = [who |-> who, ask |-> ask, copy |-> copy, old |-> old]
      <3>1. call[c] = [who |-> call[c].who, ask |-> call[c].ask, copy |-> copy, old |-> call[c].old]
        BY <1>1 DEF CallOK
      <3> QED
        BY <3>1
    <2>11. PICK next : next = IF call[c].ask.op = "readFeature" THEN NoCall ELSE [call[c] EXCEPT !.copy = rec]
      OBVIOUS
    <2>12. next = NoCall \/ CallOK(next, [store EXCEPT ![k] = rec])
      <3>1. [call[c] EXCEPT !.copy = rec] = [[who |-> who, ask |-> ask, copy |-> copy, old |-> old] EXCEPT !.copy = rec]
        BY <2>10, Zenon
      <3>2. [call[c] EXCEPT !.copy = rec] = [who |-> who, ask |-> ask, copy |-> rec, old |-> old]
        BY <3>1
      <3>3. ask = call[c].ask /\ [store EXCEPT ![k] = rec][k] = rec /\ rec # NoRecord
        BY <1>1, <1>2, <2>5, <2>10, RecordIsSome DEF ConfigInv
      <3> QED
        BY <1>1, <1>12, <2>5, <2>11, <3>2, <3>3 DEF CallOK, Normalise, Creating
    <2>13. /\ store' = [store EXCEPT ![k] = rec]
           /\ mixed' = (IF call[c].old THEN mixed \cup {k} ELSE mixed)
           /\ call' = [Aged(k) EXCEPT ![c] = next]
      BY <1>12, <2>3, <2>11 DEF Normalise
    <2> QED
      BY <1>1, <2>1, <2>5, <2>7, <2>8, <2>9, <2>12, <2>13, CopyKeeps
  <1> QED
    BY <1>6, <1>8, <1>9, <1>10, <1>11, <1>12 DEF Finish

LEMMA BeginsKept == ConfigurationInit => ConfigInv
  <1> SUFFICES ASSUME ConfigurationInit PROVE ConfigInv
    OBVIOUS
  <1>1. PICK b \in Bodies[kind] :
          store \in [Keys -> {NoRecord} \cup {r \in {[Record(Completed(b), 0) EXCEPT !.legacy = TRUE]} :
                                               kind = "features" /\ Valid(r.body)}]
    BY DEF ConfigurationInit
  <1>2. kind \in Kinds /\ \A field \in DOMAIN b : b[field] \in Nat
    BY BodiesAssumption DEF ConfigurationInit
  <1>3. IsRecord(Record(Completed(b), 0))
    BY <1>2, MadeBodies
  <1>4. PICK old : old = [Record(Completed(b), 0) EXCEPT !.legacy = TRUE]
    OBVIOUS
  <1>5. IsRecord(old)
    BY <1>3, <1>4, OneField DEF IsRecord
  <1>6. \A k \in Keys : store[k] = NoRecord \/ IsRecord(store[k])
    BY <1>1, <1>4, <1>5
  <1>7. store = [k \in Keys |-> store[k]]
    BY <1>1
  <1> QED
    BY <1>2, <1>6, <1>7 DEF ConfigurationInit, ConfigInv, ChangesAreKept

\* What is kept of a user, a group, a key, an aspect, a feature, an agent or a
\* user's preferences is what the successful requests add up to, one after the
\* other, unless two of them overlapped or one took a failed read for "no
\* record": however many records, requests and callers there are, and whatever
\* the requests carry.
THEOREM ChangesKept == ConfigurationSpec => []ChangesAreKept
  <1>1. ConfigurationInit => ConfigInv
    BY BeginsKept
  <1>2. ConfigInv /\ [ConfigurationNext]_configVars => ConfigInv'
    <2>1. ASSUME ConfigInv, ConfigurationNext PROVE ConfigInv'
      BY <2>1, OneStepKeeps, BeginKeeps, FinishKeeps DEF ConfigurationNext
    <2>2. ASSUME ConfigInv, UNCHANGED configVars PROVE ConfigInv'
      <3>1. \A c \in Callers : call'[c] # NoCall => CallOK(call[c], store)'
        BY <2>2 DEF configVars, ConfigInv, CallOK, AskOK, IsRecord, Defaults
      <3> QED
        BY <2>2, <3>1 DEF configVars, ConfigInv, ChangesAreKept, IsRecord, Defaults
    <2> QED
      BY <2>1, <2>2
  <1>3. ConfigInv => ChangesAreKept
    BY DEF ConfigInv
  <1> QED
    BY <1>1, <1>2, <1>3, PTL DEF ConfigurationSpec

----------------------------------------------------------------------------
(* Accounts                                                                *)

\* What the login answers to a token now.
LoginAnswer(token) ==
    LET user == ResolveUser(token) IN
      IF user = None THEN Unauthorized ELSE Result(user.account, user.email)

RequestOK(q) ==
    /\ q = [principal |-> q.principal, current |-> q.current, shown |-> q.shown, bearer |-> q.bearer]
    /\ q.current =>
         LET p == q.principal IN
           \/ p = AnonymousPrincipal
           \/ p.email = ApiKeyUser /\ \E s \in Secrets : ActiveKey(s) /\ p.groups = {keys[s].group}
           \/ p.email = Root /\ rootToken = "fresh" /\ p.groups = {Admins}
           \/ Account(p.email) # None /\ p.groups = AllGroups(Account(p.email))
           \/ Hidden(p.email) /\ p.groups = AllGroups(users[p.email])
    /\ q.current /\ q.shown \in ExternalTokens => q.principal = AuthenticateToken(q.shown)

AnswersOK(a) ==
    /\ a = [token |-> a.token, login |-> a.login, me |-> a.me]
    /\ a.login # None => a.login = LoginAnswer(a.token)
    /\ a.me # None => \/ a.me = LoginAnswer(a.token)
                      \/ a.token.email = Anonymous
                      \/ OfHidden(LoginAnswer(a.token))

AccountInv ==
    /\ request = [c \in Clients |-> request[c]]
    /\ \A c \in Clients : request[c] # None => RequestOK(request[c])
    /\ AnswersOK(answers)

LEMMA Resolved ==
  ASSUME NEW token \in ExternalTokens, ResolveUser(token) # None,
         NEW user, user = ResolveUser(token)
  PROVE  /\ user = [email |-> user.email, account |-> user.account]
         /\ \/ /\ user.account = Account(user.email) /\ Account(user.email) # None
               /\ user.email = Anonymous => token.email = Anonymous
            \/ /\ Hidden(user.email) /\ user.account = users[user.email] /\ user.email \in Emails
  <1>1. user # None
    OBVIOUS
  <1>2. user = FindUser(Identity(token))
    BY <1>1 DEF ResolveUser
  <1>3. CASE Identity(token).email # None /\ Account(Identity(token).email) # None
    BY <1>1, <1>2, <1>3 DEF FindUser, Identity
  <1>4. CASE ~(Identity(token).email # None /\ Account(Identity(token).email) # None)
    <2>1. PICK e \in Emails : users[e] # None /\ user = [email |-> e, account |-> users[e]]
      <3> DEFINE found == {e \in Emails : users[e] # None /\ users[e].phone = Identity(token).phone}
      <3>1. found # {} /\ user = [email |-> CHOOSE e \in found : TRUE, account |-> users[CHOOSE e \in found : TRUE]]
        BY <1>1, <1>2, <1>4 DEF FindUser
      <3>2. (CHOOSE e \in found : TRUE) \in found
        BY <3>1
      <3> QED
        BY <3>1, <3>2
    <2>2. CASE e \in DOMAIN BuiltinUsers
      BY <2>1, <2>2 DEF Hidden
    <2>3. CASE e \notin DOMAIN BuiltinUsers
      BY <2>1, <2>3, BuiltinAssumption DEF Account
    <2> QED
      BY <2>2, <2>3
  <1> QED
    BY <1>3, <1>4

\* Authentication takes the groups from the accounts.
LEMMA PrincipalCurrent ==
  ASSUME NEW cred \in Credentials, ~Fails(cred),
         GetToken(cred) = None \/ GetToken(cred) \in Tokens
  PROVE  LET p == Principal(cred) IN
           \/ p = AnonymousPrincipal
           \/ p.email = ApiKeyUser /\ \E s \in Secrets : ActiveKey(s) /\ p.groups = {keys[s].group}
           \/ p.email = Root /\ rootToken = "fresh" /\ p.groups = {Admins}
           \/ Account(p.email) # None /\ p.groups = AllGroups(Account(p.email))
           \/ Hidden(p.email) /\ p.groups = AllGroups(users[p.email])
  <1>1. CASE GetApiKey(cred) # None
    <2>1. GetApiKey(cred) \in Secrets
      BY <1>1 DEF GetApiKey, Credentials
    <2> QED
      BY <1>1, <2>1 DEF Principal, AuthenticateApiKey
  <1>2. CASE GetApiKey(cred) = None /\ GetToken(cred) = None
    BY <1>2 DEF Principal
  <1>3. CASE GetApiKey(cred) = None /\ GetToken(cred) # None /\ GetToken(cred) = RootToken
    BY <1>3 DEF Principal, AuthenticateRoot
  <1>4. CASE GetApiKey(cred) = None /\ GetToken(cred) # None /\ GetToken(cred) # RootToken
    <2>1. GetToken(cred) \in ExternalTokens
      BY <1>4 DEF Fails, Tokens
    <2>2. Principal(cred) = AuthenticateToken(GetToken(cred))
      BY <1>4 DEF Principal
    <2>3. CASE ResolveUser(GetToken(cred)) = None
      BY <2>2, <2>3 DEF AuthenticateToken
    <2>4. CASE ResolveUser(GetToken(cred)) # None
      <3>1. PICK user : user = ResolveUser(GetToken(cred))
        OBVIOUS
      <3>2. \/ user.account = Account(user.email) /\ Account(user.email) # None
            \/ user.account = users[user.email] /\ Hidden(user.email)
        BY <2>1, <2>4, <3>1, Resolved
      <3>3. Principal(cred) = [email |-> user.email, groups |-> AllGroups(user.account)]
        BY <2>2, <2>4, <3>1 DEF AuthenticateToken
      <3> QED
        BY <3>2, <3>3
    <2> QED
      BY <2>3, <2>4
  <1> QED
    BY <1>1, <1>2, <1>3, <1>4

\* What is right of a request and of the answers stays so with the accounts.
LEMMA OfAccounts ==
  ASSUME UNCHANGED <<users, keys>>, rootToken' = rootToken \/ rootToken' = "fresh"
  PROVE  /\ \A q : RequestOK(q) => RequestOK(q)'
         /\ \A a : AnswersOK(a) => AnswersOK(a)'
  <1>1. \A e : Account(e)' = Account(e)
    BY DEF Account
  <1>2. \A t : ResolveUser(t)' = ResolveUser(t)
    BY DEF ResolveUser, FindUser, Account
  <1>3. \A t : AuthenticateToken(t)' = AuthenticateToken(t) /\ LoginAnswer(t)' = LoginAnswer(t)
    BY <1>1, <1>2 DEF AuthenticateToken, LoginAnswer, Result
  <1>4. \A q : RequestOK(q) => RequestOK(q)'
    BY <1>1, <1>3 DEF RequestOK, ActiveKey, Hidden
  <1>5. \A a : AnswersOK(a) => AnswersOK(a)'
    BY <1>3 DEF AnswersOK, OfHidden, Hidden, Result
  <1> QED
    BY <1>4, <1>5

\* A step that changes no account, for one client.
LEMMA ForClient ==
  ASSUME AccountInv, NEW c \in Clients, NEW q, UNCHANGED <<users, keys>>,
         rootToken' = rootToken \/ rootToken' = "fresh",
         request' = [request EXCEPT ![c] = q], q # None => RequestOK(q),
         AnswersOK(answers')
  PROVE  AccountInv'
  BY OfAccounts DEF AccountInv

\* Whatever changes an account begins the answers anew and makes every request
\* one of the past.
LEMMA ChangeKeeps == ASSUME AccountInv, AccountsChange PROVE AccountInv'
  <1>1. ASSUME NEW c \in Clients, request'[c] # None
        PROVE  /\ request'[c] = [principal |-> request'[c].principal, current |-> request'[c].current,
                                 shown |-> request'[c].shown, bearer |-> request'[c].bearer]
               /\ request'[c].current = FALSE
    <2>1. PICK q, r : q = request[c] /\ r = request'[c]
      OBVIOUS
    <2>2. q # None /\ r = [q EXCEPT !.current = FALSE]
      BY <1>1, <2>1 DEF AccountsChange
    <2>3. PICK p, b, t, h : q = [principal |-> p, current |-> b, shown |-> t, bearer |-> h]
      BY <2>1, <2>2 DEF AccountInv, RequestOK
    <2>4. r = [principal |-> p, current |-> FALSE, shown |-> t, bearer |-> h]
      BY <2>2, <2>3
    <2> QED
      BY <2>1, <2>4
  <1>2. ASSUME NEW c \in Clients, request'[c] # None PROVE RequestOK(request[c])'
    BY <1>1, <1>2 DEF RequestOK
  <1>3. AnswersOK(answers)'
    BY DEF AccountsChange, AnswersOK, Unanswered
  <1>4. request' = [c \in Clients |-> request'[c]]
    BY DEF AccountsChange
  <1> QED
    BY <1>2, <1>3, <1>4 DEF AccountInv

LEMMA AuthenticateKeeps ==
  ASSUME AccountInv, NEW c \in Clients, Authenticate(c) PROVE AccountInv'
  <1>1. PICK cred \in Credentials :
          /\ ~Fails(cred)
          /\ request' = [request EXCEPT ![c] =
               [principal |-> Principal(cred), current |-> TRUE,
                shown |-> IF GetApiKey(cred) = None THEN GetToken(cred) ELSE None,
                bearer |-> GetBearerToken(cred)]]
    BY DEF Authenticate
  <1>2. PICK q : q = [principal |-> Principal(cred), current |-> TRUE,
                      shown |-> IF GetApiKey(cred) = None THEN GetToken(cred) ELSE None,
                      bearer |-> GetBearerToken(cred)]
    OBVIOUS
  <1>3. GetToken(cred) = None \/ GetToken(cred) \in Tokens
    BY DEF GetToken, Credentials, Tokens
  <1>4. q.shown \in ExternalTokens => q.principal = AuthenticateToken(q.shown)
    BY <1>2, BuiltinAssumption DEF Principal
  <1>5. RequestOK(q)
    BY <1>1, <1>2, <1>3, <1>4, PrincipalCurrent DEF RequestOK
  <1> QED
    BY <1>1, <1>2, <1>5, ForClient DEF Authenticate, AccountInv

LEMMA LoginAnswers == ASSUME AccountInv, NEW c \in Clients, Login(c) PROVE AccountInv'
  <1>1. PICK token : token = request[c].bearer
    OBVIOUS
  <1>2. CASE token \in ExternalTokens
    <2>1. answers' = [AnswersTo(token) EXCEPT !.login = LoginAnswer(token)]
      BY <1>1, <1>2 DEF Login, LoginAnswer
    <2>2. AnswersOK(AnswersTo(token)) /\ AnswersTo(token).token = token
      BY DEF AnswersTo, Unanswered, AnswersOK, AccountInv
    <2>3. PICK a : a = AnswersTo(token)
      OBVIOUS
    <2>4. answers' = [token |-> token, login |-> LoginAnswer(token), me |-> a.me]
      BY <2>1, <2>2, <2>3 DEF AnswersOK
    <2>5. AnswersOK(answers')
      BY <2>2, <2>3, <2>4 DEF AnswersOK
    <2> QED
      BY <2>5, ForClient DEF Login
  <1>3. CASE token \notin ExternalTokens
    <2>1. answers' = answers
      BY <1>1, <1>3 DEF Login
    <2> QED
      BY <2>1, ForClient DEF Login, AccountInv
  <1> QED
    BY <1>2, <1>3

LEMMA MeAnswers ==
  ASSUME AccountInv, NEW c \in Clients, Me(c) PROVE AccountInv'
  <1>1. PICK q : q = request[c]
    OBVIOUS
  <1>2. RequestOK(q)
    BY <1>1 DEF Me, AccountInv
  <1>3. CASE q.shown \in ExternalTokens /\ q.current
    <2>1. PICK token \in ExternalTokens : token = q.shown
      BY <1>3
    <2>2. q.principal = AuthenticateToken(token)
      BY <1>2, <1>3, <2>1 DEF RequestOK
    <2>3. \/ MeAnswer(q.principal) = LoginAnswer(token) \/ token.email = Anonymous
          \/ OfHidden(LoginAnswer(token))
      <3>1. PICK user : user = ResolveUser(token)
        OBVIOUS
      <3>2. CASE user = None
        BY <2>2, <3>1, <3>2 DEF AuthenticateToken, AnonymousPrincipal, MeAnswer, LoginAnswer
      <3>3. CASE user # None
        <4>1. q.principal = [email |-> user.email, groups |-> AllGroups(user.account)]
          BY <2>2, <3>1, <3>3 DEF AuthenticateToken
        <4>2. CASE /\ user.account = Account(user.email) /\ Account(user.email) # None
                   /\ user.email = Anonymous => token.email = Anonymous
          <5>1. user.email = Root => Admins \in AllGroups(user.account)
            BY <4>2, BuiltinAssumption DEF Account, AllGroups
          <5> QED
            BY <3>1, <3>3, <4>1, <4>2, <5>1 DEF MeAnswer, GetsOwn, LoginAnswer
        <4>3. CASE Hidden(user.email) /\ user.account = users[user.email] /\ user.email \in Emails
          <5>1. LoginAnswer(token) = Result(user.account, user.email)
            BY <3>1, <3>3 DEF LoginAnswer
          <5> QED
            BY <4>3, <5>1 DEF OfHidden
        <4> QED
          BY <3>1, <3>3, <4>2, <4>3, Resolved
      <3> QED
        BY <3>2, <3>3
    <2>4. AnswersOK(AnswersTo(token)) /\ AnswersTo(token).token = token
      BY DEF AnswersTo, Unanswered, AnswersOK, AccountInv
    <2>5. PICK a : a = AnswersTo(token)
      OBVIOUS
    <2>6. answers' = [token |-> token, login |-> a.login, me |-> MeAnswer(q.principal)]
      BY <1>1, <1>3, <2>1, <2>4, <2>5 DEF Me, AnswersOK
    <2>7. AnswersOK(answers')
      BY <2>3, <2>4, <2>5, <2>6 DEF AnswersOK
    <2> QED
      BY <2>7, ForClient DEF Me
  <1>4. CASE ~(q.shown \in ExternalTokens /\ q.current)
    <2>1. answers' = answers
      BY <1>1, <1>4 DEF Me
    <2> QED
      BY <2>1, ForClient DEF Me, AccountInv
  <1> QED
    BY <1>3, <1>4

\* A request acts with the groups the accounts give its principal, unless they
\* changed after it was authenticated, and the login and the account page give
\* a token each of them reads one answer (authentication_middleware.ts,
\* externalLoginHandler, meHandler); with a record whose e-mail is a builtin
\* user's, which createUser lets in, the exception.
THEOREM GroupsStayCurrent == AccountsSpec => []GroupsAreCurrent
  <1>1. AccountsInit => AccountInv
    BY DEF AccountsInit, AccountInv, AnswersOK, Unanswered
  <1>2. AccountInv /\ [AccountsNext]_accountVars => AccountInv'
    <2> SUFFICES ASSUME AccountInv, [AccountsNext]_accountVars PROVE AccountInv'
      OBVIOUS
    <2>1. CASE UNCHANGED accountVars
      BY <2>1, OfAccounts DEF accountVars, AccountInv
    <2>2. ASSUME NEW c \in Clients, RootLogin(c) \/ Logout(c) PROVE AccountInv'
      <3>1. request' = [request EXCEPT ![c] = request[c]]
        BY <2>2 DEF RootLogin, Logout, AccountInv
      <3>2. PICK q : q = request[c]
        OBVIOUS
      <3> QED
        BY <2>2, <3>1, <3>2, ForClient DEF RootLogin, Logout, AccountInv
    <2> QED
      BY <2>1, <2>2, ChangeKeeps, AuthenticateKeeps, LoginAnswers, MeAnswers
         DEF AccountsNext, ChangeUser, ChangeKey, Expire
  <1>3. AccountInv => GroupsAreCurrent
    BY DEF AccountInv, RequestOK, AnswersOK, GroupsAreCurrent
  <1> QED
    BY <1>1, <1>2, <1>3, PTL DEF AccountsSpec

----------------------------------------------------------------------------
(* Notifications                                                           *)

Deletion == [reader : Readers, op : {"delete", "clearAll"}, asked : Seq(Notes),
             left : Seq(Notes), found : BOOLEAN, met : BOOLEAN, unread : SUBSET Notes]

\* A deletion under way has deleted what it has gone through and could read, and
\* what it has found or listed is still there unless another met it.
DeletionOK(d, k, s) ==
    /\ d \in Deletion /\ ToSet(d.asked) \subseteq s
    /\ ToSet(d.left) \subseteq ToSet(d.asked)
    /\ (ToSet(d.asked) \ ToSet(d.left)) \cap k \subseteq d.unread
    /\ d.op = "delete" /\ d.found => d.left # <<>> /\ (d.met \/ Head(d.left) \in k)
    /\ d.op = "clearAll" =>
          /\ \A i, j \in DOMAIN d.left : i # j => d.left[i] # d.left[j]
          /\ d.met \/ ToSet(d.left) \subseteq k

Answered(d, result, broke) ==
    [result |-> result, asked |-> d.asked, reader |-> d.reader, met |-> d.met, unread |-> d.unread, broke |-> broke]

OutcomeOK(o, k, s) ==
    /\ ToSet(o.asked) \subseteq s
    /\ o.result = "done" => ToSet(o.asked) \cap k \subseteq o.unread
    /\ o.result = "failed" => o.met \/ o.broke
    /\ o.result = "refused" => \E note \in ToSet(o.asked) : ~Accessible(o.reader, note)

NoteInv ==
    /\ kept \subseteq sent /\ sent \subseteq Notes /\ IsFiniteSet(kept)
    /\ deletion = [c \in Deleters |-> deletion[c]]
    /\ outcome = [c \in Deleters |-> outcome[c]]
    /\ \A c \in Deleters : /\ deletion[c] # NoDeletion => DeletionOK(deletion[c], kept, sent)
                           /\ outcome[c] # NoDeletion => OutcomeOK(outcome[c], kept, sent)

LEMMA SetOfParts ==
  ASSUME NEW S, NEW s \in Seq(S), s # <<>>
  PROVE  /\ Head(s) \in ToSet(s) /\ Head(s) \in S
         /\ Tail(s) \in Seq(S) /\ ToSet(Tail(s)) \subseteq ToSet(s)
         /\ ToSet(s) \subseteq {Head(s)} \cup ToSet(Tail(s))
  <1>1. Len(s) \in Nat /\ Len(s) > 0 /\ DOMAIN s = 1..Len(s) /\ Head(s) = s[1]
    OBVIOUS
  <1>2. /\ Tail(s) \in Seq(S) /\ DOMAIN Tail(s) = 1..(Len(s) - 1)
        /\ \A i \in 1..(Len(s) - 1) : Tail(s)[i] = s[i + 1]
    OBVIOUS
  <1>3. ASSUME NEW i \in DOMAIN s PROVE s[i] = Head(s) \/ s[i] \in ToSet(Tail(s))
    <2>1. CASE i = 1
      BY <1>1, <2>1
    <2>2. CASE i # 1
      <3>1. i - 1 \in 1..(Len(s) - 1) /\ Tail(s)[i - 1] = s[i]
        BY <1>1, <1>2, <2>2
      <3> QED
        BY <1>2, <3>1 DEF ToSet
    <2> QED
      BY <2>1, <2>2
  <1>4. ASSUME NEW i \in DOMAIN Tail(s) PROVE Tail(s)[i] \in ToSet(s)
    <2>1. i + 1 \in DOMAIN s /\ Tail(s)[i] = s[i + 1]
      BY <1>1, <1>2
    <2> QED
      BY <2>1 DEF ToSet
  <1>5. Head(s) \in ToSet(s) /\ Head(s) \in S
    BY <1>1 DEF ToSet
  <1>6. ToSet(s) \subseteq {Head(s)} \cup ToSet(Tail(s))
    BY <1>3 DEF ToSet
  <1>7. ToSet(Tail(s)) \subseteq ToSet(s)
    <2>1. ToSet(Tail(s)) = {Tail(s)[i] : i \in DOMAIN Tail(s)}
      BY DEF ToSet
    <2> QED
      BY <1>4, <2>1
  <1> QED
    BY <1>2, <1>5, <1>6, <1>7

\* In a sequence without repetitions the head is not in the tail.
LEMMA HeadOnce ==
  ASSUME NEW S, NEW s \in Seq(S), s # <<>>,
         \A i, j \in DOMAIN s : i # j => s[i] # s[j]
  PROVE  /\ Head(s) \notin ToSet(Tail(s))
         /\ \A i, j \in DOMAIN Tail(s) : i # j => Tail(s)[i] # Tail(s)[j]
  <1>1. Len(s) \in Nat /\ Len(s) > 0 /\ DOMAIN s = 1..Len(s) /\ Head(s) = s[1]
    OBVIOUS
  <1>2. /\ DOMAIN Tail(s) = 1..(Len(s) - 1)
        /\ \A i \in 1..(Len(s) - 1) : Tail(s)[i] = s[i + 1]
    OBVIOUS
  <1>3. ASSUME NEW i \in DOMAIN Tail(s)
        PROVE  i + 1 \in DOMAIN s /\ i + 1 # 1 /\ Tail(s)[i] = s[i + 1] /\ 1 \in DOMAIN s
    BY <1>1, <1>2
  <1>4. Head(s) \notin ToSet(Tail(s))
    BY <1>1, <1>3 DEF ToSet
  <1>5. ASSUME NEW i \in DOMAIN Tail(s), NEW j \in DOMAIN Tail(s), i # j
        PROVE  Tail(s)[i] # Tail(s)[j]
    <2>1. i + 1 # j + 1
      BY <1>2, <1>5
    <2> QED
      BY <1>3, <2>1
  <1> QED
    BY <1>4, <1>5

\* A step that is about one client, and keeps what the others rely on.
LEMMA NotesKept ==
  ASSUME NoteInv, NEW c \in Deleters, NEW d, NEW o,
         deletion' = [deletion EXCEPT ![c] = d], outcome' = [outcome EXCEPT ![c] = o],
         UNCHANGED <<kept, sent>>,
         d # NoDeletion => DeletionOK(d, kept, sent), o # NoDeletion => OutcomeOK(o, kept, sent)
  PROVE  NoteInv'
  <1>1. \A e \in Deleters : /\ deletion'[e] = IF e = c THEN d ELSE deletion[e]
                           /\ outcome'[e] = IF e = c THEN o ELSE outcome[e]
    BY DEF NoteInv
  <1>2. \A x : (DeletionOK(x, kept', sent') <=> DeletionOK(x, kept, sent)) /\ (OutcomeOK(x, kept', sent') <=> OutcomeOK(x, kept, sent))
    BY DEF DeletionOK, OutcomeOK
  <1>3. deletion' = [e \in Deleters |-> deletion'[e]] /\ outcome' = [e \in Deleters |-> outcome'[e]]
    BY DEF NoteInv
  <1>4. \A e \in Deleters : /\ deletion'[e] # NoDeletion => DeletionOK(deletion'[e], kept', sent')
                           /\ outcome'[e] # NoDeletion => OutcomeOK(outcome'[e], kept', sent')
    BY <1>1, <1>2 DEF NoteInv
  <1> QED
    BY <1>3, <1>4 DEF NoteInv

LEMMA SendKeeps == ASSUME NoteInv, NEW note \in Notes, Send(note) PROVE NoteInv'
  <1>1. \A x : (DeletionOK(x, kept, sent) => DeletionOK(x, kept', sent')) /\ (OutcomeOK(x, kept, sent) => OutcomeOK(x, kept', sent'))
    BY DEF DeletionOK, OutcomeOK, Send
  <1>2. IsFiniteSet(kept')
    BY FS_AddElement DEF NoteInv, Send
  <1> QED
    BY <1>1, <1>2 DEF NoteInv, Send

LEMMA StartKeepsNotes ==
  ASSUME NoteInv, NEW c \in Deleters, NEW reader \in Readers,
         Delete(c, reader) \/ ClearAll(c, reader)
  PROVE  NoteInv'
  <1>1. CASE Delete(c, reader)
    <2>1. PICK uuids \in Lists : ToSet(uuids) \subseteq sent /\ Start(c, reader, "delete", uuids)
      BY <1>1 DEF Delete
    <2>2. uuids \in Seq(Notes)
      BY NotesAssumption
    <2>3. PICK d : d = [reader |-> reader, op |-> "delete", asked |-> uuids, left |-> uuids,
                        found |-> FALSE, met |-> FALSE, unread |-> {}]
      OBVIOUS
    <2>4. DeletionOK(d, kept, sent)
      BY <2>1, <2>2, <2>3 DEF DeletionOK, Deletion
    <2> QED
      BY <2>1, <2>3, <2>4, NotesKept DEF Start
  <1>2. CASE ClearAll(c, reader)
    <2> DEFINE own == {note \in kept : Direct(reader, note)}
    <2>1. PICK uuids \in SetToSeqs(own) : Start(c, reader, "clearAll", uuids)
      BY <1>2 DEF ClearAll
    <2>2. Cardinality(own) \in Nat
      BY FS_Subset, FS_CardinalityType DEF NoteInv
    <2>3. /\ uuids \in [1..Cardinality(own) -> own]
          /\ \A i, j \in 1..Cardinality(own) : i # j => uuids[i] # uuids[j]
      BY <2>1 DEF SetToSeqs
    <2>4. uuids \in Seq(Notes) /\ ToSet(uuids) \subseteq own
      <3>1. own \subseteq Notes /\ DOMAIN uuids = 1..Cardinality(own)
        BY <2>3 DEF NoteInv
      <3>2. uuids \in [1..Cardinality(own) -> Notes]
        BY <2>3, <3>1
      <3>3. uuids \in Seq(Notes)
        <4>1. PICK n \in Nat : n = Cardinality(own)
          BY <2>2
        <4>2. uuids \in [1..n -> Notes]
          BY <3>2, <4>1
        <4> HIDE DEF own
        <4> QED
          BY <4>2
      <3>4. \A i \in DOMAIN uuids : uuids[i] \in own
        BY <2>3, <3>1
      <3> HIDE DEF own
      <3>5. ToSet(uuids) \subseteq own
        BY <3>4 DEF ToSet
      <3> QED
        BY <3>3, <3>5
    <2>5. PICK d : d = [reader |-> reader, op |-> "clearAll", asked |-> uuids, left |-> uuids,
                        found |-> FALSE, met |-> FALSE, unread |-> {}]
      OBVIOUS
    <2>6. DeletionOK(d, kept, sent)
      BY <2>3, <2>4, <2>5 DEF DeletionOK, Deletion, NoteInv
    <2> QED
      BY <2>1, <2>5, <2>6, NotesKept DEF Start
  <1> QED
    BY <1>1, <1>2

LEMMA EndKeeps ==
  ASSUME NoteInv, NEW c \in Deleters, deletion[c] # NoDeletion, NEW result, NEW broke,
         End(c, deletion, result, broke), UNCHANGED <<kept, sent>>,
         OutcomeOK(Answered(deletion[c], result, broke), kept, sent)
  PROVE  NoteInv'
  BY NotesKept DEF End, Answered

LEMMA ReadKeepsNotes == ASSUME NoteInv, NEW c \in Deleters, ReadNext(c) PROVE NoteInv'
  <1>1. PICK d : d = deletion[c]
    OBVIOUS
  <1>2. d # NoDeletion /\ d.op = "delete" /\ d.left # <<>> /\ ~d.found /\ UNCHANGED <<kept, sent>>
    BY <1>1 DEF ReadNext, Reads
  <1>3. DeletionOK(d, kept, sent) /\ d \in Deletion /\ d.left \in Seq(Notes)
    BY <1>1, <1>2 DEF NoteInv, DeletionOK, Deletion
  <1>4. PICK note : note = Head(d.left)
    OBVIOUS
  <1>5. /\ note \in ToSet(d.left) /\ note \in Notes /\ Tail(d.left) \in Seq(Notes)
        /\ ToSet(Tail(d.left)) \subseteq ToSet(d.left)
        /\ ToSet(d.left) \subseteq {note} \cup ToSet(Tail(d.left))
    BY <1>2, <1>3, <1>4, SetOfParts
  <1>6. CASE Skip(c) /\ UNCHANGED outcome
    <2>1. PICK more \in SUBSET {note} :
            /\ note \in kept => note \in more
            /\ \/ more = {} /\ deletion' = [deletion EXCEPT ![c].left = Tail(@)]
               \/ more = {note} /\ deletion' = [deletion EXCEPT ![c].left = Tail(@), ![c].unread = @ \cup {note}]
      BY <1>1, <1>4, <1>6 DEF Skip
    <2>2. PICK e : e = [d EXCEPT !.left = Tail(@), !.unread = @ \cup more]
      OBVIOUS
    <2>3. DeletionOK(e, kept, sent)
      BY <1>2, <1>3, <1>5, <2>1, <2>2 DEF DeletionOK, Deletion
    <2>4. outcome' = [outcome EXCEPT ![c] = outcome[c]]
      BY <1>6 DEF NoteInv
    <2>5. deletion' = [deletion EXCEPT ![c] = e]
      <3>1. CASE more = {} /\ deletion' = [deletion EXCEPT ![c].left = Tail(@)]
        <4>1. e = [d EXCEPT !.left = Tail(@)]
          BY <1>3, <2>2, <3>1 DEF Deletion
        <4> QED
          BY <1>1, <3>1, <4>1 DEF NoteInv
      <3>2. CASE more = {note} /\ deletion' = [deletion EXCEPT ![c].left = Tail(@), ![c].unread = @ \cup {note}]
        BY <1>1, <2>2, <3>2 DEF NoteInv
      <3> QED
        BY <2>1, <3>1, <3>2
    <2> QED
      BY <1>2, <2>3, <2>4, <2>5, NotesKept DEF NoteInv
  <1>7. CASE /\ note \in kept /\ Accessible(d.reader, note)
             /\ deletion' = [deletion EXCEPT ![c].found = TRUE] /\ UNCHANGED outcome
    <2>1. PICK e : e = [d EXCEPT !.found = TRUE]
      OBVIOUS
    <2>2. DeletionOK(e, kept, sent)
      BY <1>2, <1>3, <1>4, <1>7, <2>1 DEF DeletionOK, Deletion
    <2>3. deletion' = [deletion EXCEPT ![c] = e] /\ outcome' = [outcome EXCEPT ![c] = outcome[c]]
      BY <1>1, <1>7, <2>1 DEF NoteInv
    <2> QED
      BY <1>2, <2>2, <2>3, NotesKept DEF NoteInv
  <1>8. CASE note \in kept /\ ~Accessible(d.reader, note) /\ End(c, deletion, "refused", FALSE)
    <2>1. OutcomeOK(Answered(d, "refused", FALSE), kept, sent)
      BY <1>3, <1>5, <1>8 DEF OutcomeOK, DeletionOK, Answered
    <2> QED
      BY <1>1, <1>2, <1>8, <2>1, EndKeeps
  <1> QED
    BY <1>1, <1>4, <1>6, <1>7, <1>8 DEF ReadNext

\* Another deletion that had the notification before it has been met.
LEMMA MetKeeps ==
  ASSUME NEW note \in kept, kept' = kept \ {note}, UNCHANGED sent, NEW d, DeletionOK(d, kept, sent)
  PROVE  /\ DeletionOK([d EXCEPT !.met = TRUE], kept', sent')
         /\ note \notin ToSet(d.left) => DeletionOK(d, kept', sent')
  <1>1. PICK e : e = [d EXCEPT !.met = TRUE]
    OBVIOUS
  <1>2. DeletionOK(e, kept', sent')
    <2>1. d \in Deletion
      BY DEF DeletionOK
    <2>2. /\ e \in Deletion /\ e.met /\ e.asked = d.asked /\ e.left = d.left /\ e.op = d.op
          /\ e.found = d.found /\ e.unread = d.unread
      BY <1>1, <2>1 DEF Deletion
    <2> QED
      BY <2>2 DEF DeletionOK
  <1>3. ASSUME note \notin ToSet(d.left) PROVE DeletionOK(d, kept', sent')
    <2>1. d.left # <<>> => Head(d.left) \in ToSet(d.left)
      BY SetOfParts DEF DeletionOK, Deletion
    <2> QED
      BY <1>3, <2>1 DEF DeletionOK
  <1> QED
    BY <1>1, <1>2, <1>3

\* A step in which a notification is removed, whatever comes of the deletion
\* that removes it.
LEMMA RemovalKeepsNotes ==
  ASSUME NoteInv, NEW c \in Deleters, deletion[c] # NoDeletion, NEW note \in kept, NEW d, NEW o,
         kept' = kept \ {note}, UNCHANGED sent,
         deletion' = [Met(c, note) EXCEPT ![c] = d], outcome' = [outcome EXCEPT ![c] = o],
         d # NoDeletion => DeletionOK(d, kept', sent), o # NoDeletion => OutcomeOK(o, kept', sent)
  PROVE  NoteInv'
  <1>1. /\ deletion'[c] = d /\ outcome'[c] = o
        /\ \A b \in Deleters \ {c} : deletion'[b] = Met(c, note)[b] /\ outcome'[b] = outcome[b]
        /\ deletion' = [b \in Deleters |-> deletion'[b]] /\ outcome' = [b \in Deleters |-> outcome'[b]]
    BY DEF Met, NoteInv
  <1>2. ASSUME NEW b \in Deleters, deletion'[b] # NoDeletion PROVE DeletionOK(deletion'[b], kept', sent')
    <2>1. CASE b = c
      BY <1>1, <1>2, <2>1
    <2>2. CASE b # c /\ deletion[b] # NoDeletion /\ note \in ToSet(deletion[b].left)
      BY <1>1, <2>2, MetKeeps DEF Met, NoteInv
    <2>3. CASE b # c /\ ~(deletion[b] # NoDeletion /\ note \in ToSet(deletion[b].left))
      BY <1>1, <1>2, <2>3, MetKeeps DEF Met, NoteInv
    <2> QED
      BY <2>1, <2>2, <2>3
  <1>3. ASSUME NEW b \in Deleters, outcome'[b] # NoDeletion PROVE OutcomeOK(outcome'[b], kept', sent')
    <2>1. CASE b = c
      BY <1>1, <1>3, <2>1
    <2>2. CASE b # c
      BY <1>1, <1>3, <2>2 DEF NoteInv, OutcomeOK
    <2> QED
      BY <2>1, <2>2
  <1>4. IsFiniteSet(kept')
    BY FS_Subset DEF NoteInv
  <1> QED
    BY <1>1, <1>2, <1>3, <1>4 DEF NoteInv

LEMMA DeleteKeepsNotes == ASSUME NoteInv, NEW c \in Deleters, DeleteFound(c) PROVE NoteInv'
  <1>1. PICK d : d = deletion[c]
    OBVIOUS
  <1>2. d # NoDeletion /\ d.left # <<>> /\ (d.op = "delete" => d.found) /\ UNCHANGED sent
    BY <1>1 DEF DeleteFound
  <1>3. DeletionOK(d, kept, sent) /\ d \in Deletion /\ d.left \in Seq(Notes)
    BY <1>1, <1>2 DEF NoteInv, DeletionOK, Deletion
  <1>4. PICK note : note = Head(d.left)
    OBVIOUS
  <1>5. /\ note \in ToSet(d.left) /\ Tail(d.left) \in Seq(Notes)
        /\ ToSet(Tail(d.left)) \subseteq ToSet(d.left)
        /\ ToSet(d.left) \subseteq {note} \cup ToSet(Tail(d.left))
    BY <1>2, <1>3, <1>4, SetOfParts
  <1>6. CASE /\ note \in kept /\ kept' = kept \ {note} /\ UNCHANGED outcome
             /\ deletion' = [Met(c, note) EXCEPT ![c].left = Tail(@), ![c].found = FALSE]
    <2>1. PICK e : e = [d EXCEPT !.left = Tail(@), !.found = FALSE]
      OBVIOUS
    <2>2. d.op = "clearAll" => /\ note \notin ToSet(Tail(d.left))
                               /\ \A i, j \in DOMAIN Tail(d.left) :
                                     i # j => Tail(d.left)[i] # Tail(d.left)[j]
      BY <1>2, <1>3, <1>4, HeadOnce DEF DeletionOK
    <2>3. /\ e \in Deletion /\ e.asked = d.asked /\ e.left = Tail(d.left) /\ e.found = FALSE
          /\ e.op = d.op /\ e.met = d.met /\ e.unread = d.unread
      BY <1>3, <1>5, <2>1 DEF Deletion
    <2>4. DeletionOK(e, kept', sent)
      <3>1. /\ (ToSet(e.asked) \ ToSet(e.left)) \cap kept' \subseteq e.unread
            /\ ToSet(e.left) \subseteq ToSet(e.asked)
        BY <1>3, <1>5, <1>6, <2>3 DEF DeletionOK
      <3>2. e.op = "clearAll" => e.met \/ ToSet(e.left) \subseteq kept'
        BY <1>3, <1>5, <1>6, <2>2, <2>3 DEF DeletionOK
      <3> QED
        BY <1>2, <1>3, <2>2, <2>3, <3>1, <3>2 DEF DeletionOK
    <2>5. Met(c, note)[c] = d /\ Met(c, note) = [b \in Deleters |-> Met(c, note)[b]]
      BY <1>1 DEF Met
    <2>6. deletion' = [Met(c, note) EXCEPT ![c] = e]
      BY <1>6, <2>1, <2>5
    <2>7. outcome' = [outcome EXCEPT ![c] = outcome[c]]
      BY <1>6 DEF NoteInv
    <2>8. outcome[c] # NoDeletion => OutcomeOK(outcome[c], kept', sent)
      BY <1>6 DEF NoteInv, OutcomeOK
    <2> QED
      BY <1>1, <1>2, <1>6, <2>4, <2>6, <2>7, <2>8, RemovalKeepsNotes
  <1>7. CASE note \in kept /\ kept' = kept \ {note} /\ End(c, Met(c, note), "failed", TRUE)
    <2>1. OutcomeOK(Answered(d, "failed", TRUE), kept', sent)
      BY <1>3 DEF OutcomeOK, DeletionOK, Answered
    <2>2. /\ deletion' = [Met(c, note) EXCEPT ![c] = NoDeletion]
          /\ outcome' = [outcome EXCEPT ![c] = Answered(d, "failed", TRUE)]
      BY <1>1, <1>7 DEF End, Answered
    <2> QED
      BY <1>1, <1>2, <1>7, <2>1, <2>2, RemovalKeepsNotes
  <1>8. ASSUME NEW broke \in BOOLEAN, note \in kept => broke, UNCHANGED kept, End(c, deletion, "failed", broke)
        PROVE  NoteInv'
    <2>1. d.met \/ broke
      BY <1>2, <1>3, <1>4, <1>5, <1>8 DEF DeletionOK, Deletion
    <2>2. OutcomeOK(Answered(d, "failed", broke), kept, sent)
      BY <1>3, <2>1 DEF OutcomeOK, DeletionOK, Answered
    <2> QED
      BY <1>1, <1>2, <1>8, <2>2, EndKeeps
  <1> QED
    BY <1>1, <1>4, <1>6, <1>7, <1>8 DEF DeleteFound

LEMMA AllDeletedKeeps == ASSUME NoteInv, NEW c \in Deleters, AllDeleted(c) PROVE NoteInv'
  <1>1. DeletionOK(deletion[c], kept, sent) /\ deletion[c].left = <<>> /\ deletion[c] # NoDeletion
    BY DEF AllDeleted, NoteInv
  <1>2. ToSet(deletion[c].left) = {}
    BY <1>1 DEF ToSet
  <1>3. OutcomeOK(Answered(deletion[c], "done", FALSE), kept, sent)
    BY <1>1, <1>2 DEF OutcomeOK, DeletionOK, Answered
  <1> QED
    BY <1>1, <1>3, EndKeeps DEF AllDeleted

\* A deletion of notifications that reports success has left none of them but
\* those it failed to read, one that fails was met by another or by a failing
\* repository, and one is refused only over a notification that is not the
\* reader's (NotificationsService.delete and clearAll).
THEOREM DeletionsEnd == NotesSpec => []EndsForAReason
  <1>1. NotesInit => NoteInv
    BY FS_EmptySet DEF NotesInit, NoteInv
  <1>2. NoteInv /\ [NotesNext]_noteVars => NoteInv'
    <2> SUFFICES ASSUME NoteInv, [NotesNext]_noteVars PROVE NoteInv'
      OBVIOUS
    <2>1. CASE UNCHANGED noteVars
      BY <2>1 DEF noteVars, NoteInv, DeletionOK, OutcomeOK
    <2> QED
      BY <2>1, SendKeeps, StartKeepsNotes, ReadKeepsNotes, DeleteKeepsNotes, AllDeletedKeeps
         DEF NotesNext
  <1>3. NoteInv => EndsForAReason
    BY DEF NoteInv, EndsForAReason, OutcomeOK
  <1> QED
    BY <1>1, <1>2, <1>3, PTL DEF NotesSpec

----------------------------------------------------------------------------
(* The properties of a node                                                *)

Steps == {"filter", "validate", "references", "write"}

\* A node on record: its keys are of its aspects, and none is undefined.
NodeShape(n) ==
    /\ n.aspects \subseteq AspectNames
    /\ \A key \in DOMAIN n.properties :
          /\ key[1] \in n.aspects /\ key[2] \in PropertyNames /\ key = <<key[1], key[2]>>
          /\ n.properties[key] # Undefined

ReadonlyIn(read, key) ==
    /\ read[key[1]] # NoAspect /\ key[2] \in DOMAIN read[key[1]]
    /\ read[key[1]][key[2]].readonly
\* The readonly properties keep what the writer found.
KeptBy(op, read) ==
    \A key \in DOMAIN op.old.properties : key[1] \in op.next.aspects /\ ReadonlyIn(read, key) =>
       key \in DOMAIN op.next.properties /\ op.next.properties[key] = op.old.properties[key]

\* What the writer read of the aspects is what they are, but for those changed.
ReadOK(op, asp) ==
    /\ op.next.aspects \subseteq AspectNames /\ DOMAIN op.read = op.next.aspects
    /\ \A a \in op.next.aspects : /\ op.read[a] \in Definitions
                                  /\ a \notin op.changed => op.read[a] = asp[a]
FitsOK(read, properties) ==
    /\ \A key \in DOMAIN properties : key \in DefinedKeys(read) /\ properties[key] # Undefined
    /\ \A key \in DefinedKeys(read) :
          read[key[1]][key[2]].default # Undefined => key \in DOMAIN properties
Checked(op, ts) ==
    /\ AspectsHold(op.read, op.next.properties)
    /\ References(op.read, op.next.properties) \subseteq (ts \cap Fitting) \cup op.gone

\* Of an operation when the node, the aspects and the other nodes are these.
StepOK(op, n, asp, ts) ==
    /\ op.step \in Steps
    /\ op.next = [aspects |-> op.next.aspects, properties |-> op.next.properties]
    /\ op.old # NoNode => NodeShape(op.old) /\ (~op.overlapped => op.old = n)
    /\ op.step \in {"filter", "validate"} =>
          op = [step |-> op.step, old |-> op.old, overlapped |-> op.overlapped, free |-> op.free,
                next |-> op.next]
    /\ op.step \in {"references", "write"} =>
          op = [step |-> op.step, old |-> op.old, overlapped |-> op.overlapped, free |-> op.free,
                read |-> op.read, changed |-> op.changed, gone |-> op.gone, next |-> op.next]
    /\ op.step = "filter" =>
          /\ op.old # NoNode
          /\ op.next.aspects = Undefined \/ op.next.aspects \subseteq AspectNames
          /\ op.next.properties # Undefined =>
                DOMAIN op.old.properties \subseteq DOMAIN op.next.properties
    /\ op.step = "validate" =>
          /\ op.next.aspects \subseteq AspectNames
          /\ op.old # NoNode /\ ~op.overlapped /\ ~op.free => KeptBy(op, asp)
    /\ op.step \in {"references", "write"} =>
          /\ ReadOK(op, asp) /\ FitsOK(op.read, op.next.properties)
          /\ op.old # NoNode /\ ~op.overlapped /\ ~op.free => KeptBy(op, op.read)
    /\ op.step = "write" => Checked(op, ts)

AspectInv ==
    /\ aspects \in [AspectNames -> Definitions \cup {NoAspect}]
    /\ writing = [w \in Writers |-> writing[w]]
    /\ node # NoNode => NodeShape(node)
    /\ \A w \in Writers : writing[w] # Idle => StepOK(writing[w], node, aspects, targets)
    /\ ValidWhenWritten

\* A step of one writer that writes nothing.
LEMMA WriterKeeps ==
  ASSUME AspectInv, NEW w \in Writers, NEW op, writing' = [writing EXCEPT ![w] = op], Unwritten,
         op # Idle => StepOK(op, node, aspects, targets)
  PROVE  AspectInv' /\ node' = node
  <1>1. UNCHANGED <<node, aspects, targets, outdated, lost>>
    BY DEF Unwritten
  <1>2. ValidWhenWritten'
    BY <1>1 DEF AspectInv, ValidWhenWritten
  <1>3. \A v \in Writers : writing'[v] # Idle => StepOK(writing'[v], node', aspects', targets')
    BY <1>1 DEF AspectInv
  <1> QED
    BY <1>1, <1>2, <1>3 DEF AspectInv

LEMMA CreateBegins ==
  ASSUME AspectInv, NEW w \in Writers, NEW given \in Updates, CreateBegin(w, given)
  PROVE  AspectInv' /\ node' = node
  <1>1. PICK op : op = [step |-> "validate", old |-> NoNode, overlapped |-> FALSE, free |-> FALSE,
              next |-> [aspects |-> IF given.aspects = Undefined THEN {} ELSE given.aspects,
                        properties |-> IF given.properties = Undefined THEN <<>> ELSE given.properties]]
    OBVIOUS
  <1>2. StepOK(op, node, aspects, targets)
    BY <1>1, AspectsAssumption DEF StepOK, Steps
  <1> QED
    BY <1>1, <1>2, WriterKeeps DEF CreateBegin, Go

LEMMA UpdateBegins ==
  ASSUME AspectInv, NEW w \in Writers, NEW given \in Updates, UpdateBegin(w, given)
  PROVE  AspectInv' /\ node' = node
  <1>1. PICK op : op = [step |-> "filter", old |-> node, overlapped |-> FALSE, free |-> FALSE,
              next |-> [aspects |-> given.aspects, properties |-> Merge(node, given)]]
    OBVIOUS
  <1>2. Merge(node, given) # Undefined => DOMAIN node.properties \subseteq DOMAIN Merge(node, given)
    BY DEF Merge
  <1>3. StepOK(op, node, aspects, targets)
    BY <1>1, <1>2, AspectsAssumption DEF StepOK, Steps, UpdateBegin, AspectInv
  <1> QED
    BY <1>1, <1>3, WriterKeeps DEF UpdateBegin, Go

LEMMA FilterKeeps ==
  ASSUME AspectInv, NEW w \in Writers, UpdateFilter(w) PROVE AspectInv' /\ node' = node
  <1>1. PICK op : op = writing[w]
    OBVIOUS
  <1>2. op # Idle /\ op.step = "filter" /\ StepOK(op, node, aspects, targets)
    BY <1>1 DEF UpdateFilter, AspectInv
  <1>3. PICK old, next, overlapped : old = op.old /\ next = op.next /\ overlapped = op.overlapped
    OBVIOUS
  <1>4. PICK filtered : filtered = Filtered(old, next.properties)
    OBVIOUS
  <1>5. PICK names, base : /\ names = IF next.aspects = Undefined THEN old.aspects ELSE next.aspects
                           /\ base = IF filtered = Undefined THEN old.properties ELSE filtered
    OBVIOUS
  <1>6. PICK properties :
          properties = IF next.aspects = Undefined /\ filtered = Undefined THEN old.properties
                       ELSE Prefixed(Defined(base), names)
    OBVIOUS
  <1>7. Applied(old, [next EXCEPT !.properties = filtered])
          = [aspects |-> names, properties |-> properties]
    BY <1>2, <1>3, <1>5, <1>6 DEF Applied, StepOK
  <1>13. PICK b \in BOOLEAN : b <=> ~AllFound(old.aspects)
    OBVIOUS
  <1>8. PICK new : new = [step |-> "validate", old |-> old, overlapped |-> overlapped, free |-> b,
                          next |-> [aspects |-> names, properties |-> properties]]
    OBVIOUS
  <1>9. writing' = [writing EXCEPT ![w] = new] /\ Unwritten
    <2>1. PICK free : op = [step |-> "filter", old |-> old, overlapped |-> overlapped, free |-> free,
                            next |-> next]
      BY <1>2, <1>3 DEF StepOK
    <2>3. Applied(op.old, [op.next EXCEPT !.properties = Filtered(op.old, op.next.properties)])
            = [aspects |-> names, properties |-> properties]
      BY <1>3, <1>4, <1>7
    <2>4. PICK z : z = Applied(op.old, [op.next EXCEPT !.properties = Filtered(op.old, op.next.properties)])
      OBVIOUS
    <2>5. new = [op EXCEPT !.step = "validate", !.free = b, !.next = z]
      <3>1. z = [aspects |-> names, properties |-> properties]
        BY <2>3, <2>4
      <3>2. PICK q : q = [op EXCEPT !.step = "validate", !.free = b, !.next = z]
        OBVIOUS
      <3>3. /\ q = [x \in DOMAIN op |-> q[x]]
            /\ q.step = "validate" /\ q.old = old /\ q.overlapped = overlapped /\ q.free = b /\ q.next = z
        BY <2>1, <3>2
      <3>4. DOMAIN op = {"step", "old", "overlapped", "free", "next"}
        BY <2>1
      <3>5. new = q
        BY <1>8, <3>1, <3>3, <3>4
      <3> QED
        BY <3>2, <3>5
    <2>6. writing' = [writing EXCEPT ![w] = [op EXCEPT !.step = "validate", !.free = b, !.next = z]]
      <3>1. b = (~AllFound(op.old.aspects))
        BY <1>3, <1>13, Zenon
      <3> QED
        BY <1>1, <2>4, <3>1 DEF UpdateFilter, Go
    <2> QED
      BY <1>1, <2>5, <2>6 DEF UpdateFilter
  <1>10. old # NoNode /\ NodeShape(old) /\ names \subseteq AspectNames
    BY <1>2, <1>3, <1>5 DEF StepOK, NodeShape
  <1>11. ASSUME AllFound(old.aspects), NEW key \in DOMAIN old.properties, key[1] \in names,
                ReadonlyIn(aspects, key)
         PROVE  key \in DOMAIN properties /\ properties[key] = old.properties[key]
    <2>1. old.properties[key] # Undefined /\ key[1] \in old.aspects
      BY <1>10, <1>11 DEF NodeShape
    <2>2. key \in DOMAIN base /\ base[key] = old.properties[key]
      <3>1. CASE filtered = Undefined
        BY <1>5, <3>1
      <3>2. CASE filtered # Undefined
        <4>1. next.properties # Undefined
          BY <1>4, <3>2 DEF Filtered
        <4>2. key \in DOMAIN next.properties
          BY <1>2, <1>3, <4>1 DEF StepOK
        <4>3. filtered = [k \in DOMAIN next.properties |->
                IF k[1] \in old.aspects /\ Readonly(k) THEN At(old.properties, k) ELSE next.properties[k]]
          BY <1>4, <1>11, <4>1 DEF Filtered
        <4>4. Readonly(key)
          BY <1>11 DEF ReadonlyIn, Readonly
        <4> QED
          BY <1>5, <2>1, <3>2, <4>2, <4>3, <4>4 DEF At
      <3> QED
        BY <3>1, <3>2
    <2> QED
      BY <1>6, <1>11, <2>1, <2>2 DEF Prefixed, Defined
  <1>12. StepOK(new, node, aspects, targets)
    BY <1>2, <1>3, <1>8, <1>10, <1>11, <1>13 DEF StepOK, Steps, KeptBy
  <1> QED
    BY <1>9, <1>12, WriterKeeps

LEMMA GetKeeps ==
  ASSUME AspectInv, NEW w \in Writers, GetAspects(w) PROVE AspectInv' /\ node' = node
  <1>1. PICK op : op = writing[w]
    OBVIOUS
  <1>2. op # Idle /\ op.step = "validate" /\ StepOK(op, node, aspects, targets) /\ Unwritten
    BY <1>1 DEF GetAspects, AspectInv
  <1>3. CASE ~AllFound(op.next.aspects)
    BY <1>1, <1>2, <1>3, WriterKeeps DEF GetAspects, Go
  <1>4. CASE AllFound(op.next.aspects)
    <2>1. PICK names, given : names = op.next.aspects /\ given = op.next.properties
      OBVIOUS
    <2>2. PICK read : read = Found(names)
      OBVIOUS
    <2>3. PICK properties : properties = AspectProperties(read, given)
      OBVIOUS
    <2>4. names \subseteq AspectNames
      BY <1>2, <2>1 DEF StepOK
    <2>5. DOMAIN read = names /\ \A a \in names : read[a] = aspects[a] /\ read[a] \in Definitions
      BY <1>4, <2>1, <2>2, <2>4 DEF AllFound, Found, AspectInv
    <2>6. PICK all : all = [key \in DefinedKeys(read) |->
             IF At(given, key) # Undefined THEN given[key] ELSE read[key[1]][key[2]].default]
      OBVIOUS
    <2>7. properties = [key \in {k \in DOMAIN all : all[k] # Undefined} |-> all[key]]
      BY <2>3, <2>6 DEF AspectProperties, Defined
    <2>8. FitsOK(read, properties)
      BY <2>6, <2>7 DEF FitsOK, At
    <2>9. PICK new : new = [step |-> "references", old |-> op.old, overlapped |-> op.overlapped,
                            free |-> op.free, read |-> read, changed |-> {}, gone |-> {},
                            next |-> [aspects |-> names, properties |-> properties]]
      OBVIOUS
    <2>10. ASSUME op.old # NoNode, ~op.overlapped, ~op.free PROVE KeptBy(new, read)
      <3> SUFFICES ASSUME NEW key \in DOMAIN op.old.properties, key[1] \in names, ReadonlyIn(read, key)
                   PROVE  key \in DOMAIN properties /\ properties[key] = op.old.properties[key]
        BY <2>9 DEF KeptBy
      <3>1. NodeShape(op.old)
        BY <1>2, <2>10 DEF StepOK
      <3>2. op.old.properties[key] # Undefined /\ key = <<key[1], key[2]>> /\ key[2] \in PropertyNames
        BY <3>1 DEF NodeShape
      <3>3. ReadonlyIn(aspects, key)
        BY <2>5 DEF ReadonlyIn
      <3>4. key \in DOMAIN given /\ given[key] = op.old.properties[key]
        BY <1>2, <2>1, <2>10, <3>3 DEF StepOK, KeptBy
      <3>5. key \in DefinedKeys(read)
        BY <2>5, <3>2 DEF DefinedKeys, PropertyKeys, ReadonlyIn
      <3> QED
        BY <2>6, <2>7, <3>2, <3>4, <3>5 DEF At
    <2>11. new.step \in Steps /\ ReadOK(new, aspects)
      BY <2>4, <2>5, <2>9 DEF Steps, ReadOK
    <2>12. new.old # NoNode => NodeShape(new.old) /\ (~new.overlapped => new.old = node)
      BY <1>2, <2>9 DEF StepOK
    <2>13. StepOK(new, node, aspects, targets)
      BY <2>8, <2>9, <2>10, <2>11, <2>12 DEF StepOK
    <2>14. writing' = [writing EXCEPT ![w] = new]
      BY <1>1, <1>4, <2>1, <2>2, <2>3, <2>9 DEF GetAspects, Go
    <2> QED
      BY <1>2, <2>13, <2>14, WriterKeeps
  <1> QED
    BY <1>3, <1>4

LEMMA ValidateKeeps ==
  ASSUME AspectInv, NEW w \in Writers, Validate(w) PROVE AspectInv' /\ node' = node
  <1>1. PICK op : op = writing[w]
    OBVIOUS
  <1>2. op # Idle /\ op.step = "references" /\ StepOK(op, node, aspects, targets) /\ Unwritten
    BY <1>1 DEF Validate, AspectInv
  <1>3. CASE writing' = [writing EXCEPT ![w] = Idle]
    BY <1>2, <1>3, WriterKeeps
  <1>4. CASE /\ writing' = [writing EXCEPT ![w] = [op EXCEPT !.step = "write"]]
             /\ AspectsHold(op.read, op.next.properties)
             /\ AcceptsReferences(op.read, op.next.properties)
    <2>1. PICK new : new = [op EXCEPT !.step = "write"]
      OBVIOUS
    <2>2. new = [step |-> "write", old |-> op.old, overlapped |-> op.overlapped, free |-> op.free,
                 read |-> op.read, changed |-> op.changed, gone |-> op.gone, next |-> op.next]
      BY <1>2, <2>1 DEF StepOK
    <2>3. Checked(new, targets)
      BY <1>4, <2>2 DEF Checked, AcceptsReferences
    <2>4. StepOK(new, node, aspects, targets)
      BY <1>2, <2>2, <2>3 DEF StepOK, Steps, ReadOK, KeptBy
    <2> QED
      BY <1>2, <1>4, <2>1, <2>4, WriterKeeps
  <1> QED
    BY <1>1, <1>2, <1>3, <1>4 DEF Validate, Go

\* Whoever has met another writer, or a change of aspects before it read them,
\* is only to be well formed.
LEMMA OverlapKeeps ==
  ASSUME NEW op, NEW n, NEW asp, NEW ts, StepOK(op, n, asp, ts), NEW m, NEW asp2,
         op.step \in {"filter", "validate"} \/ asp2 = asp
  PROVE  LET new == [op EXCEPT !.overlapped = TRUE] IN StepOK(new, m, asp2, ts) /\ new.step = op.step
  <1>1. PICK new : new = [op EXCEPT !.overlapped = TRUE]
    OBVIOUS
  <1>2. /\ new.step = op.step /\ new.old = op.old /\ new.overlapped = TRUE /\ new.free = op.free
        /\ new.next = op.next
        /\ op.step \in {"references", "write"} =>
              new.read = op.read /\ new.changed = op.changed /\ new.gone = op.gone
    BY <1>1 DEF StepOK, Steps
  <1>3. op.step \in {"filter", "validate"} =>
          new = [step |-> new.step, old |-> new.old, overlapped |-> new.overlapped,
                 free |-> new.free, next |-> new.next]
    BY <1>1 DEF StepOK
  <1>4. op.step \in {"references", "write"} =>
          new = [step |-> new.step, old |-> new.old, overlapped |-> new.overlapped,
                 free |-> new.free, read |-> new.read, changed |-> new.changed, gone |-> new.gone,
                 next |-> new.next]
    BY <1>1 DEF StepOK
  <1>5. op.step \in {"references", "write"} => ReadOK(new, asp2)
    BY <1>2 DEF StepOK, ReadOK
  <1>6. op.step = "write" => Checked(new, ts)
    BY <1>2 DEF StepOK, Checked
  <1>7. StepOK(new, m, asp2, ts)
    BY <1>2, <1>3, <1>4, <1>5, <1>6 DEF StepOK
  <1> QED
    BY <1>1, <1>2, <1>7

\* What a write leaves is valid, and readonly properties are as they were.
LEMMA WrittenIsValid ==
  ASSUME AspectInv, NEW w \in Writers, Write(w)
  PROVE  NodeShape(node') /\ ValidWhenWritten' /\ (~writing[w].free => KeepsReadonly(w))
  <1>1. PICK op : op = writing[w]
    OBVIOUS
  <1>2. op # Idle /\ op.step = "write" /\ StepOK(op, node, aspects, targets)
    BY <1>1 DEF Write, AspectInv
  <1>3. UNCHANGED <<aspects, targets>> /\ node' = op.next /\ outdated' = op.changed /\ lost' = op.gone
    BY <1>1 DEF Write
  <1>4. PICK names, read, properties :
          names = op.next.aspects /\ read = op.read /\ properties = op.next.properties
    OBVIOUS
  <1>5. /\ names \subseteq AspectNames /\ DOMAIN read = names
        /\ \A a \in names : /\ read[a] \in Definitions
                            /\ a \notin op.changed => read[a] = aspects[a]
        /\ FitsOK(read, properties) /\ AspectsHold(read, properties)
        /\ References(read, properties) \subseteq (targets \cap Fitting) \cup op.gone
    BY <1>2, <1>4 DEF StepOK, ReadOK, Checked
  <1>6. node'.aspects = names /\ node'.properties = properties
    BY <1>3, <1>4
  <1>7. ASSUME NEW key \in DOMAIN properties
        PROVE  /\ key[1] \in names /\ key[2] \in PropertyNames /\ key = <<key[1], key[2]>>
               /\ key[2] \in DOMAIN read[key[1]] /\ properties[key] # Undefined
    BY <1>5 DEF FitsOK, DefinedKeys, PropertyKeys
  <1>8. NodeShape(node')
    BY <1>5, <1>6, <1>7 DEF NodeShape
  <1>9. ASSUME NEW a \in names, a \notin op.changed
        PROVE  aspects[a] # NoAspect /\ aspects[a] = read[a] /\ DOMAIN read[a] \subseteq PropertyNames
    BY <1>5, <1>9, AspectsAssumption
  <1>10. ASSUME NEW a \in names, a \notin op.changed, NEW p \in DOMAIN aspects[a],
                NEW d, d = aspects[a][p], NEW value, value = At(properties, <<a, p>>)
         PROVE  /\ d.required \/ d.default # Undefined => value # Undefined
                /\ d.required => ~Empty(value)
                /\ Empty(value) \/ d.type \notin {"string", "number", "boolean"} \/ value.type = d.type
                /\ d.type = "string" /\ d.allowed # Undefined /\ ~Empty(value) => value.v \in d.allowed
                /\ d.type = "uuid" /\ ~Empty(value) => value.v \in (targets \cap Fitting) \cup op.gone
    <2>1. p \in DOMAIN read[a] /\ d = read[a][p] /\ PropertyHolds(d, value)
      BY <1>5, <1>9, <1>10 DEF AspectsHold
    <2>2. <<a, p>> \in DefinedKeys(read)
      <3>1. p \in PropertyNames /\ a \in DOMAIN read
        BY <1>5, <1>9, <1>10, <2>1
      <3>2. PICK key : key = <<a, p>>
        OBVIOUS
      <3>3. key \in PropertyKeys(DOMAIN read) /\ key[1] = a /\ key[2] = p
        BY <3>1, <3>2 DEF PropertyKeys
      <3> QED
        BY <2>1, <3>2, <3>3 DEF DefinedKeys
    <2>3. d.default # Undefined => value # Undefined
      BY <1>5, <1>7, <1>10, <2>1, <2>2 DEF FitsOK, At
    <2>4. ASSUME d.type = "uuid", ~Empty(value) PROVE value.v \in (targets \cap Fitting) \cup op.gone
      <3>1. <<a, p>> \in DOMAIN properties /\ value = properties[<<a, p>>]
        BY <1>10, <2>4 DEF At, Empty
      <3>2. value.v \in References(read, properties)
        BY <2>1, <2>2, <2>4, <3>1 DEF References
      <3> QED
        BY <1>5, <3>2
    <2> QED
      BY <2>1, <2>3, <2>4 DEF PropertyHolds, RequiredHolds, TypeHolds, ListHolds, Empty
  <1>11. ValidWhenWritten'
    BY <1>3, <1>5, <1>6, <1>7, <1>9, <1>10 DEF ValidWhenWritten
  <1>12. ASSUME ~op.free PROVE KeepsReadonly(w)
    <2> SUFFICES ASSUME op.old # NoNode, ~op.overlapped, NEW key \in DOMAIN node.properties,
                        key[1] \in node'.aspects \ op.changed, Readonly(key)
                 PROVE  At(node'.properties, key) = node.properties[key]
      BY <1>1 DEF KeepsReadonly
    <2>1. op.old = node /\ KeptBy(op, read)
      BY <1>2, <1>4, <1>12 DEF StepOK
    <2>2. key[1] \in names /\ read[key[1]] = aspects[key[1]]
      BY <1>5, <1>6
    <2>3. ReadonlyIn(read, key)
      BY <2>2 DEF Readonly, ReadonlyIn
    <2> QED
      BY <1>4, <1>6, <2>1, <2>2, <2>3 DEF KeptBy, At
  <1> QED
    BY <1>1, <1>8, <1>11, <1>12

LEMMA WriteKeeps == ASSUME AspectInv, NEW w \in Writers, Write(w) PROVE AspectInv'
  <1>1. UNCHANGED <<aspects, targets>>
    BY DEF Write
  <1>2. writing' = [v \in Writers |->
         IF v = w THEN Idle
         ELSE IF writing[v] = Idle THEN Idle ELSE [writing[v] EXCEPT !.overlapped = TRUE]]
    BY DEF Write
  <1>3. ASSUME NEW v \in Writers, writing'[v] # Idle PROVE StepOK(writing'[v], node', aspects', targets')
    <2>1. PICK op, m : op = writing[v] /\ m = node'
      OBVIOUS
    <2>2. op # Idle /\ writing'[v] = [op EXCEPT !.overlapped = TRUE] /\ StepOK(op, node, aspects, targets)
      BY <1>2, <1>3, <2>1 DEF AspectInv
    <2>3. StepOK([op EXCEPT !.overlapped = TRUE], m, aspects, targets)
      BY <2>2, OverlapKeeps
    <2> QED
      BY <1>1, <2>1, <2>2, <2>3
  <1>4. writing' = [v \in Writers |-> writing'[v]]
    BY <1>2
  <1> QED
    BY <1>1, <1>3, <1>4, WrittenIsValid DEF AspectInv

LEMMA SetKeeps ==
  ASSUME AspectInv, NEW a \in AspectNames, NEW d \in Definitions \cup {NoAspect}, SetAspect(a, d)
  PROVE  AspectInv' /\ node' = node
  <1>1. /\ UNCHANGED <<targets, node, lost>> /\ outdated' = outdated \cup {a}
        /\ aspects' = [aspects EXCEPT ![a] = d]
    BY DEF SetAspect
  <1>2. PICK asp : asp = aspects'
    OBVIOUS
  <1>3. asp \in [AspectNames -> Definitions \cup {NoAspect}] /\ \A b \in AspectNames \ {a} : asp[b] = aspects[b]
    BY <1>1, <1>2 DEF AspectInv
  <1>4. writing' = [w \in Writers |->
         IF writing[w] # Idle /\ writing[w].step \in {"references", "write"}
         THEN [writing[w] EXCEPT !.changed = @ \cup {a}]
         ELSE IF writing[w] # Idle THEN [writing[w] EXCEPT !.overlapped = TRUE] ELSE Idle]
    BY DEF SetAspect
  <1>5. ASSUME NEW w \in Writers, writing'[w] # Idle PROVE StepOK(writing'[w], node, asp, targets)
    <2>1. PICK op : op = writing[w]
      OBVIOUS
    <2>2. op # Idle /\ StepOK(op, node, aspects, targets)
      BY <1>4, <1>5, <2>1 DEF AspectInv
    <2>3. CASE op.step \notin {"references", "write"}
      <3>1. writing'[w] = [op EXCEPT !.overlapped = TRUE] /\ op.step \in {"filter", "validate"}
        BY <1>4, <2>1, <2>2, <2>3 DEF StepOK, Steps
      <3> QED
        BY <2>2, <3>1, OverlapKeeps
    <2>4. CASE op.step \in {"references", "write"}
      <3>1. PICK new : new = [op EXCEPT !.changed = @ \cup {a}]
        OBVIOUS
      <3>2. writing'[w] = new
        BY <1>4, <2>1, <2>2, <2>4, <3>1
      <3>3. new = [step |-> op.step, old |-> op.old, overlapped |-> op.overlapped, free |-> op.free,
                   read |-> op.read, changed |-> op.changed \cup {a}, gone |-> op.gone, next |-> op.next]
        BY <2>2, <2>4, <3>1 DEF StepOK
      <3>4. ReadOK(new, asp)
        BY <1>3, <2>2, <2>4, <3>3 DEF StepOK, ReadOK
      <3>5. op.step = "write" => Checked(new, targets)
        BY <2>2, <3>3 DEF StepOK, Checked
      <3>6. StepOK(new, node, asp, targets)
        BY <2>2, <2>4, <3>3, <3>4, <3>5 DEF StepOK, KeptBy
      <3> QED
        BY <3>2, <3>6
    <2> QED
      BY <2>3, <2>4
  <1>6. ValidWhenWritten'
    BY <1>1, <1>2, <1>3 DEF AspectInv, ValidWhenWritten, NodeShape
  <1>7. writing' = [w \in Writers |-> writing'[w]]
    BY <1>4
  <1> QED
    BY <1>1, <1>2, <1>3, <1>5, <1>6, <1>7 DEF AspectInv

LEMMA TargetKeeps ==
  ASSUME AspectInv, NEW t \in Targets, DeleteTarget(t) PROVE AspectInv' /\ node' = node
  <1>1. /\ UNCHANGED <<aspects, node, outdated>> /\ lost' = lost \cup {t}
        /\ targets' = targets \ {t}
    BY DEF DeleteTarget
  <1>2. writing' = [w \in Writers |->
         IF writing[w] # Idle /\ writing[w].step \in {"references", "write"}
         THEN [writing[w] EXCEPT !.gone = @ \cup {t}] ELSE writing[w]]
    BY DEF DeleteTarget
  <1>3. ASSUME NEW w \in Writers, writing'[w] # Idle PROVE StepOK(writing'[w], node, aspects, targets \ {t})
    <2>1. PICK op : op = writing[w]
      OBVIOUS
    <2>2. CASE op # Idle /\ op.step \in {"references", "write"}
      <3>1. PICK new : new = [op EXCEPT !.gone = @ \cup {t}]
        OBVIOUS
      <3>2. StepOK(op, node, aspects, targets) /\ writing'[w] = new
        BY <1>2, <2>1, <2>2, <3>1 DEF AspectInv
      <3>3. new = [step |-> op.step, old |-> op.old, overlapped |-> op.overlapped, free |-> op.free,
                   read |-> op.read, changed |-> op.changed, gone |-> op.gone \cup {t}, next |-> op.next]
        BY <2>2, <3>1, <3>2 DEF StepOK
      <3>4. op.step = "write" => Checked(new, targets \ {t})
        BY <3>2, <3>3 DEF StepOK, Checked
      <3>5. StepOK(new, node, aspects, targets \ {t})
        BY <2>2, <3>2, <3>3, <3>4 DEF StepOK, KeptBy, ReadOK
      <3> QED
        BY <3>2, <3>5
    <2>3. CASE ~(op # Idle /\ op.step \in {"references", "write"})
      BY <1>2, <1>3, <2>1, <2>3 DEF AspectInv, StepOK
    <2> QED
      BY <2>2, <2>3
  <1>4. ValidWhenWritten'
    BY <1>1 DEF AspectInv, ValidWhenWritten
  <1>5. writing' = [w \in Writers |-> writing'[w]]
    BY <1>2
  <1> QED
    BY <1>1, <1>3, <1>4, <1>5 DEF AspectInv

ReadonlyStep == \A w \in Writers : (writing[w] # Idle => ~writing[w].free) => KeepsReadonly(w)

\* Only the writer whose step it is ends with a write.
LEMMA WriteKeepsReadonly == ASSUME AspectInv, NEW v \in Writers, Write(v) PROVE ReadonlyStep
  <1> SUFFICES ASSUME NEW w \in Writers, writing[w] # Idle, ~writing[w].free PROVE KeepsReadonly(w)
    BY DEF ReadonlyStep, KeepsReadonly
  <1>1. CASE w = v
    BY <1>1, WrittenIsValid
  <1>2. CASE w # v
    <2>1. PICK op : op = writing[w]
      OBVIOUS
    <2>2. writing'[w] = [op EXCEPT !.overlapped = TRUE] /\ StepOK(op, node, aspects, targets)
      BY <1>2, <2>1 DEF Write, AspectInv
    <2>3. [op EXCEPT !.overlapped = TRUE].step = op.step /\ op.step \in Steps
      BY <2>2, OverlapKeeps DEF StepOK
    <2>4. writing'[w] # Idle
      BY <2>2, <2>3, AspectsAssumption DEF Steps
    <2> QED
      BY <2>4 DEF KeepsReadonly
  <1> QED
    BY <1>1, <1>2

LEMMA AspectsInitial == AspectsInit => AspectInv
  BY DEF AspectsInit, AspectInv, ValidWhenWritten

LEMMA AspectsStep == AspectInv /\ [AspectsNext]_aspectVars => AspectInv' /\ ReadonlyStep
  <1> SUFFICES ASSUME AspectInv, [AspectsNext]_aspectVars PROVE AspectInv' /\ ReadonlyStep
    OBVIOUS
  <1>1. ASSUME node' = node PROVE ReadonlyStep
    BY <1>1 DEF ReadonlyStep, KeepsReadonly
  <1>2. CASE UNCHANGED aspectVars
    BY <1>1, <1>2 DEF aspectVars, AspectInv, ValidWhenWritten
  <1>3. ASSUME NEW w \in Writers, Write(w) PROVE AspectInv' /\ ReadonlyStep
    BY <1>3, WriteKeeps, WriteKeepsReadonly
  <1> QED
    BY <1>1, <1>2, <1>3, CreateBegins, UpdateBegins, FilterKeeps, GetKeeps, ValidateKeeps, SetKeeps,
       TargetKeeps DEF AspectsNext

\* Unless an aspect changed since its validation began, a node on record has
\* every required property, and what it has is as its aspects ask for, however
\* writers and changes of aspects interleave (NodeService.create and update,
\* #validateNodeAspectsThenUpdate).
THEOREM NodesAreValid == AspectsSpec => []ValidWhenWritten
  <1>1. AspectInv => ValidWhenWritten
    BY DEF AspectInv
  <1> QED
    BY <1>1, AspectsInitial, AspectsStep, PTL DEF AspectsSpec

\* A write keeps the readonly properties of the node it replaces, for a writer
\* that met no other writer and no change of aspects, and found the aspects of
\* the node (#filterReadonlyProperties, WithAspectMixin.update).
THEOREM ReadonlyStays == AspectsSpec => ReadonlyKept
  <1>1. AspectInv /\ [AspectsNext]_aspectVars
          => [\A w \in Writers : (writing[w] # Idle => ~writing[w].free) => KeepsReadonly(w)]_aspectVars
    BY AspectsStep DEF ReadonlyStep
  <1> QED
    BY <1>1, AspectsInitial, AspectsStep, PTL DEF AspectsSpec, ReadonlyKept

----------------------------------------------------------------------------
(* Conversations with agents.  LimitIsKept follows from what a month's     *)
(* account is while nothing escaped the guard: either nothing is under     *)
(* way, or one interaction that found the log below the limit, which is    *)
(* calling the model or waits to be logged.                                *)

TalkTypes ==
    /\ talks \in [Talkers -> {NoTalk, "guard", "model"}]
    /\ unlogged \in Seq(Costs)
    /\ logged \in Nat /\ spent \in Nat /\ unseen \in BOOLEAN

Settled == Calling = {} /\ unlogged = <<>> /\ spent = logged
UnderWay == \E p \in Talkers : Calling = {p} /\ unlogged = <<>> /\ spent = logged /\ logged < TokenLimit
ToBeLogged == \E c \in Costs : Calling = {} /\ unlogged = <<c>> /\ spent = logged + c /\ logged < TokenLimit

MonthAccount == unseen \/ Settled \/ UnderWay \/ ToBeLogged

SpendInv == TalkTypes /\ MonthAccount /\ LimitIsKept

----------------------------------------------------------------------------

LEMMA SessionsInitial == SessionsInit => SpendInv
<1> SUFFICES ASSUME SessionsInit PROVE SpendInv
  OBVIOUS
<1>1. TalkTypes /\ Settled
  <2>1. Calling = {}
    BY SessionsAssumption DEF SessionsInit, Calling
  <2>2. unlogged \in Seq(Costs)
    <3>1. unlogged = <<>>
      BY DEF SessionsInit
    <3> QED
      BY <3>1
  <2> QED
    BY <2>1, <2>2 DEF SessionsInit, TalkTypes, Settled
<1>2. LimitIsKept
  BY SessionsAssumption DEF SessionsInit, LimitIsKept
<1> QED
  BY <1>1, <1>2 DEF SpendInv, MonthAccount

\* What touches neither the account nor who calls the model.
LEMMA SpendUntouched ==
  ASSUME SpendInv, talks' \in [Talkers -> {NoTalk, "guard", "model"}], Calling' = Calling,
         UNCHANGED <<unlogged, logged, spent, unseen>>
  PROVE  SpendInv'
<1>1. TalkTypes' /\ LimitIsKept'
  BY DEF SpendInv, TalkTypes, LimitIsKept
<1>2. MonthAccount'
  BY DEF SpendInv, MonthAccount, Settled, UnderWay, ToBeLogged
<1> QED
  BY <1>1, <1>2 DEF SpendInv

\* A guard lets one interaction begin; a second is not seen by its guard.
LEMMA AskKeeps ==
  ASSUME SpendInv, NEW p \in Talkers, AskGuard(p) PROVE SpendInv'
<1> USE SessionsAssumption
<1>1. CASE OverLimit
  <2>1. talks' = [talks EXCEPT ![p] = NoTalk] /\ UNCHANGED <<unlogged, logged, spent, unseen>>
    BY <1>1 DEF AskGuard, Talk
  <2>2. Calling' = Calling
    BY <2>1 DEF Calling, AskGuard, SpendInv, TalkTypes
  <2> QED
    BY <2>1, <2>2, SpendUntouched DEF SpendInv, TalkTypes
<1>2. CASE ~OverLimit
  <2>1. /\ talks' = [talks EXCEPT ![p] = "model"] /\ UNCHANGED <<unlogged, logged, spent>>
        /\ unseen' = (unseen \/ Calling # {} \/ unlogged # <<>>) /\ logged < TokenLimit
    BY <1>2 DEF AskGuard, Talk, OverLimit, SpendInv, TalkTypes
  <2>2. Calling' = Calling \cup {p}
    BY <2>1 DEF Calling, SpendInv, TalkTypes
  <2>3. TalkTypes'
    BY <2>1 DEF SpendInv, TalkTypes
  <2>4. ASSUME ~unseen' PROVE UnderWay' /\ ~unseen
    <3>1. ~unseen /\ Calling = {} /\ unlogged = <<>>
      BY <2>1, <2>4
    <3>2. Settled
      BY <3>1 DEF SpendInv, MonthAccount, UnderWay, ToBeLogged, Settled
    <3> QED
      BY <2>1, <2>2, <3>1, <3>2 DEF Settled, UnderWay
  <2>5. LimitIsKept'
    BY <2>1, <2>4 DEF SpendInv, LimitIsKept
  <2> QED
    BY <2>3, <2>4, <2>5 DEF SpendInv, MonthAccount
<1> QED
  BY <1>1, <1>2

\* Who stops calling the model was the only one, or the account is open.
LEMMA StopsCalling ==
  ASSUME SpendInv, NEW p \in Talkers, talks[p] = "model", Talk(p, NoTalk)
  PROVE  /\ talks' \in [Talkers -> {NoTalk, "guard", "model"}]
         /\ ~unseen => /\ Calling' = {} /\ unlogged = <<>> /\ spent = logged /\ logged < TokenLimit
<1> USE SessionsAssumption
<1>1. talks' = [talks EXCEPT ![p] = NoTalk] /\ talks \in [Talkers -> {NoTalk, "guard", "model"}] /\ p \in Calling
  BY DEF Talk, SpendInv, TalkTypes, Calling
<1>2. Calling' = Calling \ {p}
  BY <1>1 DEF Calling
<1>3. ~unseen => UnderWay
  BY <1>1 DEF SpendInv, MonthAccount, Settled, ToBeLogged
<1> QED
  BY <1>1, <1>2, <1>3 DEF UnderWay

LEMMA AnswerKeeps ==
  ASSUME SpendInv, NEW p \in Talkers, NEW cost \in Costs, Answer(p, cost) PROVE SpendInv'
<1> USE SessionsAssumption
<1>1. /\ talks[p] = "model" /\ Talk(p, NoTalk) /\ spent' = spent + cost
      /\ unlogged' = Append(unlogged, cost) /\ UNCHANGED <<logged, unseen>>
  BY DEF Answer
<1>2. TalkTypes'
  BY <1>1, StopsCalling DEF SpendInv, TalkTypes
<1>3. ASSUME ~unseen' PROVE ToBeLogged'
  <2>1. Calling' = {} /\ unlogged = <<>> /\ spent = logged /\ logged < TokenLimit
    BY <1>1, <1>3, StopsCalling
  <2>2. unlogged' = <<cost>>
    BY <1>1, <2>1
  <2> QED
    BY <1>1, <2>1, <2>2 DEF ToBeLogged
<1>4. LimitIsKept'
  <2> SUFFICES ASSUME ~unseen', NEW c \in Costs, \A d \in Costs : d <= c PROVE spent' < TokenLimit + c
    BY DEF LimitIsKept
  <2>1. PICK d \in Costs : spent' = logged + d /\ logged < TokenLimit
    BY <1>1, <1>3 DEF ToBeLogged
  <2> QED
    BY <2>1 DEF SpendInv, TalkTypes
<1> QED
  BY <1>2, <1>3, <1>4 DEF SpendInv, MonthAccount

LEMMA LogKeeps == ASSUME SpendInv, LogUsage PROVE SpendInv'
<1> USE SessionsAssumption
<1>1. unlogged \in Seq(Costs) /\ unlogged # <<>> /\ unlogged' = Tail(unlogged)
      /\ UNCHANGED <<talks, spent>> /\ Calling' = Calling
  BY DEF SpendInv, TalkTypes, LogUsage, Calling
<1>2. Head(unlogged) \in Costs /\ unlogged' \in Seq(Costs)
  BY <1>1
<1>3. TalkTypes'
  <2>1. logged' \in Nat
    <3>1. Head(unlogged) \in Nat /\ logged \in Nat
      BY <1>2 DEF SpendInv, TalkTypes
    <3>2. logged' = logged + Head(unlogged) \/ logged' = logged
      BY DEF LogUsage
    <3> QED
      BY <3>1, <3>2
  <2>2. unseen' \in BOOLEAN
    BY DEF SpendInv, TalkTypes, LogUsage
  <2> QED
    BY <1>1, <1>2, <2>1, <2>2 DEF SpendInv, TalkTypes
<1>4. ASSUME ~unseen' PROVE Settled' /\ ~unseen
  <2>1. ~unseen /\ logged' = logged + Head(unlogged)
    BY <1>4 DEF LogUsage
  <2>2. PICK c \in Costs : Calling = {} /\ unlogged = <<c>> /\ spent = logged + c
    BY <1>1, <2>1 DEF SpendInv, MonthAccount, Settled, UnderWay, ToBeLogged
  <2>3. Head(unlogged) = c /\ unlogged' = <<>>
    BY <1>1, <2>2
  <2> QED
    BY <1>1, <2>1, <2>2, <2>3 DEF Settled
<1>5. LimitIsKept'
  BY <1>1, <1>4 DEF SpendInv, LimitIsKept
<1> QED
  BY <1>3, <1>4, <1>5 DEF SpendInv, MonthAccount

LEMMA RestartKeeps == ASSUME SpendInv, Restart PROVE SpendInv'
<1> USE SessionsAssumption
<1>1. TalkTypes' /\ Calling' = {} /\ unlogged' = <<>>
  BY DEF SpendInv, TalkTypes, Restart, Calling
<1>2. ASSUME ~unseen' PROVE Settled' /\ ~unseen
  <2>1. ~unseen /\ unlogged = <<>> /\ Calling = {} /\ UNCHANGED <<logged, spent>>
    BY <1>2 DEF Restart
  <2>2. Settled
    BY <2>1 DEF SpendInv, MonthAccount, Settled, UnderWay, ToBeLogged
  <2> QED
    BY <1>1, <2>1, <2>2 DEF Settled
<1>3. LimitIsKept'
  BY <1>2 DEF SpendInv, LimitIsKept, Restart
<1> QED
  BY <1>1, <1>2, <1>3 DEF SpendInv, MonthAccount

LEMMA SessionsStep == SpendInv /\ [SessionsNext]_sessionVars => SpendInv'
<1> SUFFICES ASSUME SpendInv, [SessionsNext]_sessionVars PROVE SpendInv'
  OBVIOUS
<1> USE SessionsAssumption
<1>1. ASSUME UNCHANGED <<talks, unlogged, logged, spent, unseen>> PROVE SpendInv'
  BY <1>1, SpendUntouched DEF SpendInv, TalkTypes, Calling
<1>2. ASSUME NEW p \in Talkers, talks[p] = NoTalk, BeginTalk(p), UNCHANGED <<unlogged, logged, spent, unseen>>
      PROVE  SpendInv'
  <2>1. talks' = [talks EXCEPT ![p] = "guard"] /\ talks \in [Talkers -> {NoTalk, "guard", "model"}]
    BY <1>2 DEF BeginTalk, Talk, SpendInv, TalkTypes
  <2>2. Calling' = Calling
    BY <1>2, <2>1 DEF Calling
  <2> QED
    BY <1>2, <2>1, <2>2, SpendUntouched
<1>3. ASSUME NEW p \in Talkers, StartTalk(p) PROVE SpendInv'
  BY <1>2, <1>3 DEF StartTalk
<1>4. ASSUME NEW p \in Talkers, NEW a \in Agents, NEW id \in 1..MaxSessions, TalkInSession(p, id, a) PROVE SpendInv'
  BY <1>1, <1>2, <1>4 DEF TalkInSession
<1>5. ASSUME NEW p \in Talkers, RefuseTalk(p) PROVE SpendInv'
  <2>1. talks[p] = "model" /\ Talk(p, NoTalk) /\ UNCHANGED <<unlogged, logged, spent, unseen>>
    BY <1>5 DEF RefuseTalk
  <2>2. TalkTypes' /\ LimitIsKept'
    BY <2>1, StopsCalling DEF SpendInv, TalkTypes, LimitIsKept
  <2>3. ~unseen' => Settled'
    BY <2>1, StopsCalling DEF Settled
  <2> QED
    BY <2>2, <2>3 DEF SpendInv, MonthAccount
<1>6. ASSUME NEW p \in Talkers, NEW c \in Costs, FailedAnswer(p, c) PROVE SpendInv'
  <2>1. talks[p] = "model" /\ Talk(p, NoTalk) /\ spent' = spent + c /\ unseen' = TRUE /\ UNCHANGED <<unlogged, logged>>
    BY <1>6 DEF FailedAnswer
  <2>2. TalkTypes'
    BY <2>1, StopsCalling DEF SpendInv, TalkTypes
  <2> QED
    BY <2>1, <2>2 DEF SpendInv, MonthAccount, LimitIsKept
<1>7. ASSUME NextMonth PROVE SpendInv'
  <2>1. TalkTypes' /\ Settled' /\ spent' = 0
    BY <1>7 DEF NextMonth, SpendInv, TalkTypes, Settled, Calling
  <2> QED
    BY <2>1 DEF SpendInv, MonthAccount, LimitIsKept
<1>8. ASSUME \/ \E id \in 1..MaxSessions : CloseChatSession(id)
             \/ \E a \in Agents : OpenChatSession(a)
             \/ SessionTick \/ UNCHANGED sessionVars
      PROVE  SpendInv'
  BY <1>1, <1>8 DEF CloseChatSession, OpenChatSession, SessionTick, sessionVars
<1> QED
  BY <1>3, <1>4, <1>5, <1>6, <1>7, <1>8, AskKeeps, AnswerKeeps, LogKeeps, RestartKeeps DEF SessionsNext

\* While interactions follow one another and no usage is lost, a month costs
\* less than its limit and the dearest interaction (TenantLimitsGuard.
\* ensureCanRunAgent, and the log written after the interaction).
THEOREM LimitKept == SessionsSpec => []LimitIsKept
<1>1. SpendInv => LimitIsKept
  BY DEF SpendInv
<1> QED
  BY SessionsInitial, SessionsStep, <1>1, PTL DEF SessionsSpec
----------------------------------------------------------------------------
(* Sessions.                                                               *)

IsTurn(places, turn) ==
    /\ turn \in [1 .. Cardinality(places) -> places]
    /\ \A a, b \in DOMAIN turn : a < b => turn[a] < turn[b]

\* Some places of a sequence have an order: each place has as many of them
\* before it as its turn says.
LEMMA TurnExists ==
  ASSUME NEW n \in Nat, NEW places \in SUBSET (1..n)
  PROVE  \E turn : IsTurn(places, turn)
<1> DEFINE Below(x) == {y \in places : y < x}
           N == Cardinality(places)
           rank == [x \in places |-> Cardinality(Below(x)) + 1]
<1>0. 1 \in Int /\ n \in Int /\ \A x \in places : x \in Nat /\ x \in Int /\ x >= 1
  OBVIOUS
<1>1. IsFiniteSet(places) /\ N \in Nat
  BY <1>0, FS_Interval, FS_Subset, FS_CardinalityType
<1>2. \A x \in places : IsFiniteSet(Below(x)) /\ Cardinality(Below(x)) \in Nat
  BY <1>1, FS_Subset, FS_CardinalityType
<1>3. ASSUME NEW x \in places PROVE Cardinality(Below(x)) + 1 \in 1..N
  <2>1. Below(x) \subseteq places \ {x}
    OBVIOUS
  <2>2. IsFiniteSet(places \ {x}) /\ Cardinality(places \ {x}) = N - 1
    BY <1>1, FS_RemoveElement
  <2>3. Cardinality(Below(x)) <= N - 1
    BY <2>1, <2>2, FS_Subset
  <2>4. Cardinality(Below(x)) \in Nat
    BY <1>2
  <2> HIDE DEF Below
  <2> QED BY <1>1, <2>3, <2>4
<1>4. ASSUME NEW x \in places, NEW y \in places, x < y PROVE rank[x] < rank[y]
  <2>0. x \in Int /\ y \in Int /\ \A z \in places : z \in Int
    BY <1>0
  <2>1. Below(x) \cup {x} \subseteq Below(y) /\ x \notin Below(x)
    <3>1. \A z \in places : z < x => z < y
      BY <1>4, <2>0
    <3>2. ~(x < x)
      BY <2>0
    <3> QED BY <1>4, <3>1, <3>2
  <2>2. Cardinality(Below(x) \cup {x}) = Cardinality(Below(x)) + 1
    BY <1>2, <2>1, FS_AddElement
  <2>3. Cardinality(Below(x) \cup {x}) <= Cardinality(Below(y))
    BY <1>2, <2>1, FS_Subset
  <2>4. rank[x] = Cardinality(Below(x)) + 1 /\ rank[y] = Cardinality(Below(y)) + 1
    OBVIOUS
  <2>5. Cardinality(Below(x)) \in Nat /\ Cardinality(Below(y)) \in Nat
    BY <1>2
  <2> HIDE DEF Below, rank
  <2> QED BY <2>2, <2>3, <2>4, <2>5
<1>5. rank \in [places -> 1..N] /\ \A x \in places : rank[x] \in Nat
  BY <1>2, <1>3
<1>6. \A x, y \in places : rank[x] = rank[y] => x = y
  <2> SUFFICES ASSUME NEW x \in places, NEW y \in places, rank[x] = rank[y], x # y PROVE FALSE
    OBVIOUS
  <2>1. x \in Int /\ y \in Int
    OBVIOUS
  <2>2. x < y \/ y < x
    BY <2>1
  <2> HIDE DEF rank
  <2> QED BY <1>4, <1>5, <2>2
<1>7. \A i \in 1..N : \E x \in places : rank[x] = i
  <2> HIDE DEF rank
  <2>1. rank \in Injection(places, 1..N)
    BY <1>5, <1>6 DEF Injection, IsInjective
  <2>2. IsFiniteSet(1..N) /\ Cardinality(1..N) = N
    BY <1>1, FS_Interval
  <2>3. rank \in Surjection(places, 1..N)
    BY <2>1, <2>2, FS_Injection
  <2> QED BY <2>3 DEF Surjection
<1> DEFINE turn == [i \in 1..N |-> CHOOSE x \in places : rank[x] = i]
<1> HIDE DEF rank
<1>8. \A i \in 1..N : turn[i] \in places /\ rank[turn[i]] = i
  BY <1>7
<1>9. turn \in [1..N -> places]
  BY <1>8
<1> HIDE DEF turn
<1>10. ASSUME NEW a \in 1..N, NEW b \in 1..N, a < b PROVE turn[a] < turn[b]
  <2>1. turn[a] # turn[b]
    BY <1>8, <1>10
  <2>2. turn[a] \in places /\ turn[b] \in places /\ turn[a] \in Int /\ turn[b] \in Int
    <3>1. turn[a] \in places /\ turn[b] \in places
      BY <1>9
    <3> QED BY <1>0, <3>1
  <2>3. ~(turn[b] < turn[a])
    <3>1. turn[b] < turn[a] => b < a
      BY <1>4, <1>8, <2>2
    <3> QED BY <1>10, <3>1
  <2> QED BY <2>1, <2>2, <2>3
<1> QED BY <1>9, <1>10 DEF IsTurn

\* A turn reaches every place and none too early.
WholeTurn(places, N, turn) ==
    /\ N \in Nat /\ IsTurn(places, turn)
    /\ \A x \in places : \E i \in 1..N : turn[i] = x
    /\ \A i \in 1..N : turn[i] >= i

LEMMA InTurnIs ==
  ASSUME NEW n \in Nat, NEW places \in SUBSET (1..n)
  PROVE  WholeTurn(places, Cardinality(places), InTurn(places))
<1> DEFINE turn == InTurn(places)
           N == Cardinality(places)
<1>0. 1 \in Int /\ n \in Int /\ \A x \in places : x \in Nat /\ x \in Int /\ x >= 1
  OBVIOUS
<1>1. IsFiniteSet(places) /\ N \in Nat
  BY <1>0, FS_Interval, FS_Subset, FS_CardinalityType
<1>2. IsTurn(places, turn)
  BY TurnExists DEF IsTurn, InTurn
<1> HIDE DEF turn
<1>3. turn \in [1..N -> places] /\ \A a, b \in 1..N : a < b => turn[a] < turn[b]
  BY <1>2 DEF IsTurn
<1>4. \A a, b \in 1..N : turn[a] = turn[b] => a = b
  <2> SUFFICES ASSUME NEW a \in 1..N, NEW b \in 1..N, turn[a] = turn[b], a # b PROVE FALSE
    OBVIOUS
  <2>1. turn[a] \in Int /\ turn[b] \in Int
    <3>1. turn[a] \in places /\ turn[b] \in places
      BY <1>3
    <3> QED BY <1>0, <3>1
  <2>2. a < b \/ b < a
    BY <1>1
  <2> QED BY <1>3, <2>1, <2>2
<1>5. IsFiniteSet(1..N) /\ Cardinality(1..N) = N
  BY <1>1, FS_Interval
<1>6. turn \in Surjection(1..N, places)
  <2>1. turn \in Injection(1..N, places)
    BY <1>3, <1>4 DEF Injection, IsInjective
  <2> QED BY <1>1, <1>5, <2>1, FS_Injection
<1>7. ASSUME NEW i \in 1..N PROVE turn[i] >= i
  <2> DEFINE early == [a \in 1..i |-> turn[a]]
  <2>1. i \in Nat /\ turn[i] \in Nat /\ 1..i \subseteq 1..N
    <3>1. turn[i] \in places
      BY <1>3
    <3>2. i \in Nat /\ 1..i \subseteq 1..N
      BY <1>1
    <3> QED BY <1>0, <3>1, <3>2
  <2>2. \A a \in 1..i : turn[a] \in 1..turn[i]
    <3> SUFFICES ASSUME NEW a \in 1..i PROVE turn[a] \in 1..turn[i]
      OBVIOUS
    <3>1. a \in 1..N /\ turn[a] \in Nat /\ turn[a] >= 1 /\ (a < i \/ a = i)
      <4>1. a \in 1..N
        BY <2>1
      <4>2. turn[a] \in places
        BY <1>3, <4>1
      <4>3. a < i \/ a = i
        BY <2>1
      <4>4. turn[a] \in Nat /\ turn[a] >= 1
        BY <1>0, <4>2
      <4> QED BY <4>1, <4>3, <4>4
    <3> QED BY <1>3, <2>1, <3>1
  <2>3. early \in Injection(1..i, 1..turn[i])
    BY <1>4, <2>1, <2>2 DEF Injection, IsInjective
  <2>4. Cardinality(1..i) = i /\ IsFiniteSet(1..turn[i]) /\ Cardinality(1..turn[i]) = turn[i]
    <3>1. 1 \in Int /\ i \in Int /\ turn[i] \in Int
      BY <2>1
    <3>2. turn[i] >= 1 /\ i >= 1
      <4>1. turn[i] \in places
        BY <1>3
      <4> QED BY <1>0, <2>1, <4>1
    <3>3. IsFiniteSet(1..turn[i]) /\ Cardinality(1..turn[i]) = turn[i]
      BY <3>1, <3>2, FS_Interval
    <3>4. Cardinality(1..i) = i
      BY <3>1, <3>2, FS_Interval
    <3> QED BY <3>3, <3>4
  <2> HIDE DEF early
  <2>5. Cardinality(1..i) <= Cardinality(1..turn[i])
    BY <2>3, <2>4, FS_Injection
  <2> QED BY <2>1, <2>4, <2>5
<1>8. \A x \in places : \E i \in 1..N : turn[i] = x
  BY <1>6 DEF Surjection
<1>9. WholeTurn(places, N, turn)
  BY <1>1, <1>2, <1>7, <1>8 DEF WholeTurn
<1> QED BY <1>9 DEF turn

\* What is picked of a sequence, and in which order.
PickedInTurn(S, s, places, turn, picked) ==
    /\ picked \in Seq(S) /\ Len(picked) = Cardinality(places) /\ Len(picked) \in Nat
    /\ \A i \in 1..Len(picked) : turn[i] \in places /\ turn[i] >= i /\ picked[i] = s[turn[i]]
    /\ \A i, j \in 1..Len(picked) : i < j => turn[i] < turn[j]
    /\ \A x \in places : \E i \in 1..Len(picked) : turn[i] = x

LEMMA PickedIs ==
  ASSUME NEW S, NEW s \in Seq(S), NEW places \in SUBSET (1..Len(s))
  PROVE  PickedInTurn(S, s, places, InTurn(places), Picked(s, places))
<1> DEFINE turn == InTurn(places)
           N == Cardinality(places)
           picked == Picked(s, places)
<1>1. Len(s) \in Nat
  OBVIOUS
<1>2. /\ N \in Nat /\ IsTurn(places, turn)
      /\ \A x \in places : \E i \in 1..N : turn[i] = x
      /\ \A i \in 1..N : turn[i] >= i
  <2>1. WholeTurn(places, Cardinality(places), InTurn(places))
    BY <1>1, InTurnIs
  <2> QED BY <2>1 DEF WholeTurn
<1> HIDE DEF turn
<1>3. turn \in [1..N -> places] /\ DOMAIN turn = 1..N
  BY <1>2 DEF IsTurn
<1>4. picked = [i \in 1..N |-> s[turn[i]]]
  BY <1>3 DEF Picked, turn
<1>5. \A i \in 1..N : turn[i] \in 1..Len(s) /\ s[turn[i]] \in S
  <2>1. \A i \in 1..N : turn[i] \in 1..Len(s)
    BY <1>3
  <2>2. \A k \in 1..Len(s) : s[k] \in S
    OBVIOUS
  <2> QED BY <2>1, <2>2
<1> HIDE DEF picked
<1>6. picked \in Seq(S) /\ Len(picked) = N
  BY <1>2, <1>4, <1>5
<1>7. \A i, j \in 1..N : i < j => turn[i] < turn[j]
  BY <1>2, <1>3 DEF IsTurn
<1>8. \A i \in 1..N : turn[i] \in places /\ picked[i] = s[turn[i]]
  BY <1>3, <1>4
<1> HIDE DEF N
<1>9. PickedInTurn(S, s, places, turn, picked)
  BY <1>2, <1>6, <1>7, <1>8 DEF PickedInTurn, N
<1> QED BY <1>9 DEF turn, picked

Entries == [id : Nat, agent : Agents, created : Nat, lastUsed : Nat]
DistinctIds(s) == \A i, j \in 1..Len(s) : s[i].id = s[j].id => i = j

\* The entries of s are some of all, in their order.
InUseOrder(s, all) ==
    /\ \A i \in 1..Len(s) : \E a \in 1..Len(all) : all[a] = s[i]
    /\ \A i, j \in 1..Len(s) : i < j => \E a, b \in 1..Len(all) : a < b /\ all[a] = s[i] /\ all[b] = s[j]

\* The store holds some of the sessions opened, as they are, the last used
\* last, and all that the property asks for.
RecentInv ==
    /\ time \in Nat
    /\ known \in Seq(Entries) /\ entries \in Seq(Entries)
    /\ \A i \in 1..Len(known) : known[i].id \in 1..Len(known)
    /\ DistinctIds(known) /\ InUseOrder(entries, known)
    /\ RecentSessionsAnswer

\* Without one of its sessions.
IsRest(s, id, rest) ==
    /\ rest \in Seq(Entries) /\ Len(rest) \in Nat
    /\ \A i \in 1..Len(rest) : \E x \in 1..Len(s) : x >= i /\ rest[i] = s[x] /\ s[x].id # id
    /\ \A i, j \in 1..Len(rest) : i < j => \E x, y \in 1..Len(s) : x < y /\ rest[i] = s[x] /\ rest[j] = s[y]
    /\ \A x, y \in 1..Len(s) : x < y /\ s[x].id # id /\ s[y].id # id =>
         \E i, j \in 1..Len(rest) : i < j /\ rest[i] = s[x] /\ rest[j] = s[y]
    /\ \A x \in 1..Len(s) : s[x].id # id => \E i \in 1..Len(rest) : rest[i] = s[x]
    /\ \A x \in 1..Len(s) : s[x].id = id /\ DistinctIds(s) => Len(rest) = Len(s) - 1

LEMMA WithoutIs ==
  ASSUME NEW s \in Seq(Entries), NEW id
  PROVE  IsRest(s, id, Without(s, id))
<1> DEFINE places == {i \in 1..Len(s) : s[i].id # id}
           turn == InTurn(places)
           rest == Without(s, id)
<1>1. DOMAIN s = 1..Len(s) /\ Len(s) \in Nat /\ places \in SUBSET (1..Len(s))
  OBVIOUS
<1>2. rest = Picked(s, places)
  BY <1>1 DEF Without
<1>3. /\ rest \in Seq(Entries) /\ Len(rest) = Cardinality(places) /\ Len(rest) \in Nat
      /\ \A i \in 1..Len(rest) : turn[i] \in places /\ turn[i] >= i /\ rest[i] = s[turn[i]]
      /\ \A i, j \in 1..Len(rest) : i < j => turn[i] < turn[j]
      /\ \A x \in places : \E i \in 1..Len(rest) : turn[i] = x
  <2> HIDE DEF places, rest
  <2>1. PickedInTurn(Entries, s, places, InTurn(places), Picked(s, places))
    BY <1>1, PickedIs
  <2>2. PickedInTurn(Entries, s, places, turn, rest)
    BY <1>2, <2>1
  <2> HIDE DEF turn
  <2> QED BY <2>2 DEF PickedInTurn
<1> HIDE DEF rest, turn
<1>4. \A i, j \in 1..Len(rest) : i < j => turn[i] < turn[j]
  BY <1>3
<1>5. \A i \in 1..Len(rest) : \E x \in 1..Len(s) : x >= i /\ rest[i] = s[x] /\ s[x].id # id
  BY <1>3
<1>6. ASSUME NEW i \in 1..Len(rest), NEW j \in 1..Len(rest), i < j
      PROVE  \E x, y \in 1..Len(s) : x < y /\ rest[i] = s[x] /\ rest[j] = s[y]
  <2>1. turn[i] \in 1..Len(s) /\ turn[j] \in 1..Len(s) /\ turn[i] < turn[j]
    BY <1>3, <1>4, <1>6
  <2> QED BY <1>3, <2>1
<1>7. ASSUME NEW x \in 1..Len(s), s[x].id # id PROVE \E i \in 1..Len(rest) : turn[i] = x /\ rest[i] = s[x]
  <2>1. x \in places
    BY <1>7
  <2> HIDE DEF places
  <2>2. PICK i \in 1..Len(rest) : turn[i] = x
    BY <1>3, <2>1
  <2>3. rest[i] = s[turn[i]]
    BY <1>3
  <2> QED BY <2>2, <2>3
<1>8. ASSUME NEW x \in 1..Len(s), NEW y \in 1..Len(s), x < y, s[x].id # id, s[y].id # id
      PROVE  \E i, j \in 1..Len(rest) : i < j /\ rest[i] = s[x] /\ rest[j] = s[y]
  <2>1. PICK i \in 1..Len(rest) : turn[i] = x /\ rest[i] = s[x]
    BY <1>7, <1>8
  <2>2. PICK j \in 1..Len(rest) : turn[j] = y /\ rest[j] = s[y]
    BY <1>7, <1>8
  <2>3. i \in Int /\ j \in Int /\ x \in Int /\ y \in Int
    OBVIOUS
  <2>4. ~(j < i) /\ i # j
    BY <1>4, <1>8, <2>1, <2>2, <2>3
  <2>5. i < j
    BY <2>3, <2>4
  <2> QED BY <2>1, <2>2, <2>5
<1>9. ASSUME NEW x \in 1..Len(s), s[x].id = id, DistinctIds(s) PROVE Len(rest) = Len(s) - 1
  <2>1. places = (1..Len(s)) \ {x}
    BY <1>9 DEF DistinctIds
  <2>2. 1 \in Int /\ Len(s) \in Int
    BY <1>1
  <2>3. IsFiniteSet(1..Len(s)) /\ Cardinality(1..Len(s)) = Len(s)
    BY <1>1, <2>2, FS_Interval
  <2>4. Cardinality((1..Len(s)) \ {x}) = Len(s) - 1
    BY <2>3, FS_RemoveElement
  <2> QED BY <1>3, <2>1, <2>4
<1>10. \A x \in 1..Len(s) : s[x].id # id => \E i \in 1..Len(rest) : rest[i] = s[x]
  BY <1>7
<1>11. \A x, y \in 1..Len(s) : x < y /\ s[x].id # id /\ s[y].id # id =>
         \E i, j \in 1..Len(rest) : i < j /\ rest[i] = s[x] /\ rest[j] = s[y]
  BY <1>8
<1>12. IsRest(s, id, rest)
  BY <1>3, <1>5, <1>6, <1>9, <1>10, <1>11 DEF IsRest
<1> QED BY <1>12 DEF rest

\* What a full store keeps: the live entries with few live ones after them.
IsCapped(s, capped) ==
    /\ capped \in Seq(Entries) /\ InUseOrder(capped, s)
    /\ \A x \in 1..Len(s) :
         Live(s[x]) /\ Cardinality({j \in 1..Len(s) : Live(s[j]) /\ j > x}) < MaxEntries
         => \E i \in 1..Len(capped) : capped[i] = s[x]

LEMMA CappedIs ==
  ASSUME NEW s \in Seq(Entries)
  PROVE  IsCapped(s, Capped(s))
<1> DEFINE After(x) == {j \in 1..Len(s) : Live(s[j]) /\ j > x}
           places == {i \in 1..Len(s) : Live(s[i]) /\ Cardinality(After(i)) < MaxEntries}
           turn == InTurn(places)
           capped == Capped(s)
<1>1. places \in SUBSET (1..Len(s))
  OBVIOUS
<1>2. capped = Picked(s, places)
  <2> DEFINE live == {i \in DOMAIN s : Live(s[i])}
  <2>1. \A i : i \in live <=> i \in 1..Len(s) /\ Live(s[i])
    OBVIOUS
  <2>2. \A i : Cardinality({j \in live : j > i}) = Cardinality(After(i))
    <3>1. \A i : {j \in live : j > i} = After(i)
      OBVIOUS
    <3> HIDE DEF After, live
    <3> QED BY <3>1
  <2>3. {i \in live : Cardinality({j \in live : j > i}) < MaxEntries} = places
    <3> HIDE DEF After, live
    <3> QED BY <2>1, <2>2
  <2> QED BY <2>3 DEF Capped
<1>3. /\ capped \in Seq(Entries)
      /\ \A i \in 1..Len(capped) : turn[i] \in places /\ capped[i] = s[turn[i]]
      /\ \A i, j \in 1..Len(capped) : i < j => turn[i] < turn[j]
      /\ \A x \in places : \E i \in 1..Len(capped) : turn[i] = x
  <2> HIDE DEF places, capped
  <2>1. PickedInTurn(Entries, s, places, InTurn(places), Picked(s, places))
    BY <1>1, PickedIs
  <2>2. PickedInTurn(Entries, s, places, turn, capped)
    BY <1>2, <2>1
  <2> HIDE DEF turn
  <2> QED BY <2>2 DEF PickedInTurn
<1>4. \A x \in 1..Len(s) : Live(s[x]) /\ Cardinality(After(x)) < MaxEntries => x \in places
  OBVIOUS
<1> HIDE DEF capped, turn, places, After
<1>5. \A i, j \in 1..Len(capped) : i < j => turn[i] < turn[j]
  BY <1>3
<1>6. InUseOrder(capped, s)
  <2>1. \A i \in 1..Len(capped) : turn[i] \in 1..Len(s) /\ s[turn[i]] = capped[i]
    BY <1>1, <1>3
  <2> QED BY <1>5, <2>1 DEF InUseOrder
<1>7. \A x \in 1..Len(s) : Live(s[x]) /\ Cardinality(After(x)) < MaxEntries => \E i \in 1..Len(capped) : capped[i] = s[x]
  BY <1>3, <1>4
<1>8. IsCapped(s, capped)
  BY <1>3, <1>6, <1>7 DEF IsCapped, After
<1> QED BY <1>8 DEF capped

LEMMA OrderChains ==
  ASSUME NEW r, NEW s, NEW all \in Seq(Entries), DistinctIds(all), s \in Seq(Entries),
         InUseOrder(r, s), InUseOrder(s, all)
  PROVE  InUseOrder(r, all)
<1>1. \A i \in 1..Len(r) : \E a \in 1..Len(all) : all[a] = r[i]
  BY DEF InUseOrder
<1>2. ASSUME NEW i \in 1..Len(r), NEW j \in 1..Len(r), i < j
      PROVE  \E a, b \in 1..Len(all) : a < b /\ all[a] = r[i] /\ all[b] = r[j]
  <2>1. PICK x \in 1..Len(s), y \in 1..Len(s) : x < y /\ s[x] = r[i] /\ s[y] = r[j]
    BY <1>2 DEF InUseOrder
  <2> QED BY <2>1 DEF InUseOrder
<1> QED BY <1>1, <1>2 DEF InUseOrder

\* Whatever is after an entry is of a session used later.
LEMMA FewAfter ==
  ASSUME NEW s \in Seq(Entries), NEW all \in Seq(Entries), InUseOrder(s, all), DistinctIds(all),
         NEW x \in 1..Len(s), NEW a \in 1..Len(all), all[a] = s[x], a > Len(all) - MaxEntries,
         NEW S, S \subseteq {j \in 1..Len(s) : j > x}
  PROVE  Cardinality(S) < MaxEntries
<1> DEFINE place == [j \in S |-> CHOOSE b \in 1..Len(all) : all[b] = s[j]]
           later == (a + 1) .. Len(all)
<1>1. Len(s) \in Nat /\ Len(all) \in Nat /\ a \in Nat /\ MaxEntries \in Nat \ {0}
  BY SessionsAssumption
<1>2. ASSUME NEW j \in S PROVE place[j] \in 1..Len(all) /\ all[place[j]] = s[j]
  <2>1. \E b \in 1..Len(all) : all[b] = s[j]
    BY DEF InUseOrder
  <2> QED BY <2>1
<1> HIDE DEF place
<1>3. \A b, c \in 1..Len(all) : all[b] = all[c] => b = c
  BY DEF DistinctIds
<1>4. ASSUME NEW i \in 1..Len(s), NEW j \in 1..Len(s), i < j,
             NEW b \in 1..Len(all), all[b] = s[i], NEW c \in 1..Len(all), all[c] = s[j]
      PROVE  b < c
  <2>1. PICK d \in 1..Len(all), e \in 1..Len(all) : d < e /\ all[d] = s[i] /\ all[e] = s[j]
    BY <1>4 DEF InUseOrder
  <2>2. d = b /\ e = c
    BY <1>3, <1>4, <2>1
  <2> QED BY <2>1, <2>2
<1>5. ASSUME NEW j \in S PROVE place[j] \in later
  <2>1. j \in 1..Len(s) /\ x < j
    OBVIOUS
  <2>2. a < place[j]
    BY <1>2, <1>4, <2>1
  <2>3. place[j] \in 1..Len(all)
    BY <1>2
  <2> QED BY <1>1, <2>2, <2>3
<1>6. ASSUME NEW i \in S, NEW j \in S, place[i] = place[j] PROVE i = j
  <2>1. i \in 1..Len(s) /\ j \in 1..Len(s) /\ i \in Int /\ j \in Int
    OBVIOUS
  <2>2. ~(i < j)
    BY <1>1, <1>2, <1>4, <1>6, <2>1
  <2>3. ~(j < i)
    BY <1>1, <1>2, <1>4, <1>6, <2>1
  <2> QED BY <2>1, <2>2, <2>3
<1>7. place \in Injection(S, later)
  <2>1. place \in [S -> later]
    BY <1>5 DEF place
  <2> QED BY <1>6, <2>1 DEF Injection, IsInjective
<1>8. IsFiniteSet(later) /\ Cardinality(later) = Len(all) - a
  <2>1. a + 1 \in Int /\ Len(all) \in Int /\ a <= Len(all)
    BY <1>1
  <2>2. Cardinality(later) = IF a + 1 > Len(all) THEN 0 ELSE Len(all) - (a + 1) + 1
    BY <2>1, FS_Interval
  <2>3. IsFiniteSet(later)
    BY <2>1, FS_Interval
  <2> QED BY <1>1, <2>1, <2>2, <2>3
<1>9. IsFiniteSet(S) /\ Cardinality(S) <= Cardinality(later)
  BY <1>7, <1>8, FS_Injection
<1>10. Cardinality(S) \in Nat
  BY <1>9, FS_CardinalityType
<1> QED BY <1>1, <1>8, <1>9, <1>10

LEMMA FoundIs ==
  ASSUME NEW s \in Seq(Entries), NEW id
  PROVE  /\ \A entry \in Find(s, id) : entry.id = id /\ \E i \in 1..Len(s) : s[i] = entry
         /\ Find(s, id) # {} <=> \E i \in 1..Len(s) : s[i].id = id
<1>1. DOMAIN s = 1..Len(s)
  OBVIOUS
<1> QED BY <1>1 DEF Find

LEMMA OpenKeepsRecent ==
  ASSUME RecentInv, NEW agent \in Agents, OpenChatSession(agent)
  PROVE  RecentInv'
<1> DEFINE entry == [id |-> Len(known) + 1, agent |-> agent, created |-> time, lastUsed |-> time]
           s == Append(entries, entry)
           all == Append(known, entry)
<1>0. /\ time \in Nat /\ known \in Seq(Entries) /\ entries \in Seq(Entries)
      /\ \A i \in 1..Len(known) : known[i].id \in 1..Len(known)
      /\ DistinctIds(known) /\ InUseOrder(entries, known) /\ RecentSessionsAnswer
  BY DEF RecentInv
<1>1. time' = time /\ closed' = closed /\ entries' = Capped(s) /\ known' = all
  BY DEF OpenChatSession
<1>2. entry \in Entries /\ entry.id = Len(known) + 1
  BY <1>0 DEF Entries
<1> HIDE DEF entry
<1>3. Len(known) \in Nat /\ Len(entries) \in Nat /\ MaxEntries \in Nat \ {0}
  BY <1>0, SessionsAssumption
<1>4. /\ s \in Seq(Entries) /\ Len(s) = Len(entries) + 1
      /\ s[Len(s)] = entry /\ \A i \in 1..Len(entries) : s[i] = entries[i]
  BY <1>0, <1>2
<1>5. /\ all \in Seq(Entries) /\ Len(all) = Len(known) + 1
      /\ all[Len(all)] = entry /\ \A i \in 1..Len(known) : all[i] = known[i]
  BY <1>0, <1>2
<1> HIDE DEF s, all
<1>6. \A i \in 1..Len(s) : i \in 1..Len(entries) \/ i = Len(s)
  BY <1>3, <1>4
<1>7. \A i \in 1..Len(all) : i \in 1..Len(known) \/ i = Len(all)
  BY <1>3, <1>5
<1>8. (\A i \in 1..Len(all) : all[i].id \in 1..Len(all)) /\ DistinctIds(all)
  <2>1. \A i \in 1..Len(all) : all[i].id \in 1..Len(all)
    BY <1>0, <1>2, <1>3, <1>5, <1>7
  <2>2. \A i \in 1..Len(known) : all[i].id # all[Len(all)].id
    BY <1>0, <1>2, <1>3, <1>5
  <2> QED BY <1>0, <1>3, <1>5, <1>7, <2>1, <2>2 DEF DistinctIds
<1>9. InUseOrder(s, all)
  <2>0. 1..Len(known) \subseteq 1..Len(all) /\ Len(all) \in 1..Len(all)
    BY <1>3, <1>5
  <2>1. ASSUME NEW i \in 1..Len(s) PROVE \E a \in 1..Len(all) : all[a] = s[i]
    <3>1. CASE i \in 1..Len(entries)
      <4>1. PICK a \in 1..Len(known) : known[a] = entries[i]
        BY <1>0, <3>1 DEF InUseOrder
      <4> QED BY <1>4, <1>5, <2>0, <3>1, <4>1
    <3>2. CASE i = Len(s)
      BY <1>4, <1>5, <2>0, <3>2
    <3> QED BY <1>6, <3>1, <3>2
  <2>2. ASSUME NEW i \in 1..Len(s), NEW j \in 1..Len(s), i < j
        PROVE  \E a, b \in 1..Len(all) : a < b /\ all[a] = s[i] /\ all[b] = s[j]
    <3>1. i \in 1..Len(entries)
      BY <1>3, <1>4, <1>6, <2>2
    <3>2. CASE j \in 1..Len(entries)
      <4>1. PICK a \in 1..Len(known), b \in 1..Len(known) : a < b /\ known[a] = entries[i] /\ known[b] = entries[j]
        BY <1>0, <2>2, <3>1, <3>2 DEF InUseOrder
      <4> QED BY <1>4, <1>5, <2>0, <3>1, <3>2, <4>1
    <3>3. CASE j = Len(s)
      <4>1. PICK a \in 1..Len(known) : known[a] = entries[i]
        BY <1>0, <3>1 DEF InUseOrder
      <4>2. a < Len(all)
        BY <1>3, <1>5
      <4> QED BY <1>4, <1>5, <2>0, <3>1, <3>3, <4>1, <4>2
    <3> QED BY <1>6, <3>2, <3>3
  <2> QED BY <2>1, <2>2 DEF InUseOrder
<1>10. /\ Capped(s) \in Seq(Entries) /\ InUseOrder(Capped(s), s)
       /\ \A x \in 1..Len(s) :
            Live(s[x]) /\ Cardinality({j \in 1..Len(s) : Live(s[j]) /\ j > x}) < MaxEntries
            => \E i \in 1..Len(Capped(s)) : Capped(s)[i] = s[x]
  <2>1. IsCapped(s, Capped(s))
    BY <1>4, CappedIs
  <2> QED BY <2>1 DEF IsCapped
<1>11. InUseOrder(Capped(s), all)
  BY <1>4, <1>5, <1>8, <1>9, <1>10, OrderChains
<1>12. ASSUME NEW i \in 1..Len(all), all[i].id \notin closed, Live(all[i]), i > Len(all) - MaxEntries
       PROVE  Find(Capped(s), all[i].id) # {}
  <2>1. PICK x \in 1..Len(s) : s[x] = all[i]
    <3>1. CASE i = Len(all)
      <4>1. Len(s) \in 1..Len(s)
        BY <1>3, <1>4
      <4> QED BY <1>4, <1>5, <3>1, <4>1
    <3>2. CASE i \in 1..Len(known)
      <4>1. known[i].id \notin closed /\ Live(known[i]) /\ i > Len(known) - MaxEntries
        BY <1>3, <1>5, <1>12, <3>2
      <4>2. i \in DOMAIN known
        BY <1>0, <3>2
      <4>3. Find(entries, known[i].id) # {}
        BY <1>0, <4>1, <4>2 DEF RecentSessionsAnswer
      <4>4. PICK k \in 1..Len(entries) : entries[k].id = known[i].id
        BY <1>0, <4>3, FoundIs
      <4>5. PICK a \in 1..Len(known) : known[a] = entries[k]
        BY <1>0 DEF InUseOrder
      <4>6. a = i
        BY <1>0, <3>2, <4>4, <4>5 DEF DistinctIds
      <4>7. k \in 1..Len(s)
        BY <1>3, <1>4
      <4> QED BY <1>4, <1>5, <3>2, <4>5, <4>6, <4>7
    <3> QED BY <1>7, <3>1, <3>2
  <2> DEFINE S == {j \in 1..Len(s) : Live(s[j]) /\ j > x}
  <2>2. S \subseteq {j \in 1..Len(s) : j > x}
    OBVIOUS
  <2>3. Cardinality(S) < MaxEntries
    <3> HIDE DEF S
    <3> QED BY <1>4, <1>5, <1>8, <1>9, <1>12, <2>1, <2>2, FewAfter
  <2>4. \E k \in 1..Len(Capped(s)) : Capped(s)[k] = s[x]
    BY <1>10, <1>12, <2>1, <2>3
  <2>5. \E k \in 1..Len(Capped(s)) : Capped(s)[k].id = all[i].id
    BY <2>1, <2>4
  <2>6. Capped(s) \in Seq(Entries)
    BY <1>10
  <2> QED BY <2>5, <2>6, FoundIs
<1>13. RecentSessionsAnswer'
  <2>1. \A e : Live(e)' <=> Live(e)
    BY <1>1 DEF Live, Expired
  <2>2. DOMAIN all = 1..Len(all)
    BY <1>5
  <2> QED BY <1>1, <1>12, <2>1, <2>2 DEF RecentSessionsAnswer, Find
<1> QED BY <1>0, <1>1, <1>5, <1>8, <1>10, <1>11, <1>13 DEF RecentInv, DistinctIds, InUseOrder

\* The other sessions stay, in their order.
LEMMA OthersStay ==
  ASSUME RecentInv, NEW id
  PROVE  /\ Without(entries, id) \in Seq(Entries) /\ InUseOrder(Without(entries, id), known)
         /\ \A c : c # id /\ Find(entries, c) # {} => Find(Without(entries, id), c) # {}
<1> DEFINE rest == Without(entries, id)
<1>0. known \in Seq(Entries) /\ entries \in Seq(Entries) /\ DistinctIds(known) /\ InUseOrder(entries, known)
  BY DEF RecentInv
<1>1. /\ rest \in Seq(Entries) /\ Len(rest) \in Nat
      /\ \A i \in 1..Len(rest) : \E y \in 1..Len(entries) : rest[i] = entries[y] /\ entries[y].id # id
      /\ \A i, j \in 1..Len(rest) : i < j =>
           \E y, z \in 1..Len(entries) : y < z /\ rest[i] = entries[y] /\ rest[j] = entries[z]
      /\ \A y \in 1..Len(entries) : entries[y].id # id => \E i \in 1..Len(rest) : rest[i] = entries[y]
  <2>1. IsRest(entries, id, Without(entries, id))
    BY <1>0, WithoutIs
  <2>2. IsRest(entries, id, rest)
    BY <2>1
  <2> HIDE DEF rest
  <2> QED BY <2>2 DEF IsRest
<1> HIDE DEF rest
<1>2. InUseOrder(rest, entries)
  BY <1>1 DEF InUseOrder
<1>3. InUseOrder(rest, known)
  BY <1>0, <1>2, OrderChains
<1>4. ASSUME NEW c, c # id, Find(entries, c) # {} PROVE Find(rest, c) # {}
  <2>1. PICK k \in 1..Len(entries) : entries[k].id = c
    BY <1>0, <1>4, FoundIs
  <2>2. PICK j \in 1..Len(rest) : rest[j] = entries[k]
    BY <1>1, <1>4, <2>1
  <2>3. rest[j].id = c
    BY <2>1, <2>2
  <2> QED BY <1>1, <2>3, FoundIs
<1> QED BY <1>1, <1>3, <1>4 DEF rest

\* A session that goes away, or is no longer asked for.
LEMMA RemovalKeepsRecent ==
  ASSUME RecentInv, NEW id, entries' = Without(entries, id), UNCHANGED <<known, time>>,
         closed \subseteq closed',
         \A i \in 1..Len(known) : known[i].id = id => id \in closed' \/ ~Live(known[i])
  PROVE  RecentInv'
<1>0. /\ time \in Nat /\ known \in Seq(Entries) /\ entries \in Seq(Entries)
      /\ \A i \in 1..Len(known) : known[i].id \in 1..Len(known)
      /\ DistinctIds(known) /\ RecentSessionsAnswer
  BY DEF RecentInv
<1>1. /\ entries' \in Seq(Entries) /\ InUseOrder(entries', known)
      /\ \A c : c # id /\ Find(entries, c) # {} => Find(entries', c) # {}
  BY OthersStay
<1>2. ASSUME NEW i \in DOMAIN known, known[i].id \notin closed', Live(known[i]), i > Len(known) - MaxEntries
      PROVE  Find(entries', known[i].id) # {}
  <2>1. i \in 1..Len(known)
    BY <1>0
  <2>2. known[i].id # id
    BY <1>2, <2>1
  <2>3. Find(entries, known[i].id) # {}
    BY <1>0, <1>2 DEF RecentSessionsAnswer
  <2> QED BY <1>1, <2>2, <2>3
<1>3. RecentSessionsAnswer'
  <2>1. \A e : Live(e)' <=> Live(e)
    BY DEF Live, Expired
  <2> QED BY <1>2, <2>1 DEF RecentSessionsAnswer, Find
<1> QED BY <1>0, <1>1, <1>3 DEF RecentInv, DistinctIds, InUseOrder

IsAppended(s, entry, t) ==
    /\ t \in Seq(Entries) /\ Len(t) = Len(s) + 1
    /\ t[Len(s) + 1] = entry /\ \A i \in 1..Len(s) : t[i] = s[i]

LEMMA AppendIs ==
  ASSUME NEW s \in Seq(Entries), NEW entry \in Entries
  PROVE  IsAppended(s, entry, Append(s, entry))
BY DEF IsAppended

LEMMA UseKeepsRecent ==
  ASSUME RecentInv, NEW id, NEW entry \in Find(entries, id), UNCHANGED <<time, closed>>,
         entries' = Used(entries, entry),
         known' = Append(Without(known, id), [entry EXCEPT !.lastUsed = time])
  PROVE  RecentInv'
<1> DEFINE now == [entry EXCEPT !.lastUsed = time]
           rest == Without(entries, id)
           others == Without(known, id)
<1>0. /\ time \in Nat /\ known \in Seq(Entries) /\ entries \in Seq(Entries)
      /\ \A i \in 1..Len(known) : known[i].id \in 1..Len(known)
      /\ DistinctIds(known) /\ InUseOrder(entries, known) /\ RecentSessionsAnswer
  BY DEF RecentInv
<1>1. PICK x \in 1..Len(entries) : entries[x] = entry /\ entry.id = id
  BY <1>0, FoundIs
<1>2. entry \in Entries
  BY <1>0, <1>1
<1>3. now \in Entries /\ now.id = id
  BY <1>0, <1>1, <1>2 DEF Entries
<1>4. PICK q \in 1..Len(known) : known[q] = entry
  BY <1>0, <1>1 DEF InUseOrder
<1>5. entries' = Append(rest, now) /\ known' = Append(others, now)
  BY <1>1 DEF Used
<1> HIDE DEF now
<1>6. /\ rest \in Seq(Entries) /\ Len(rest) \in Nat
      /\ \A i \in 1..Len(rest) : \E y \in 1..Len(entries) : rest[i] = entries[y] /\ entries[y].id # id
      /\ \A i, j \in 1..Len(rest) : i < j =>
           \E y, z \in 1..Len(entries) : y < z /\ rest[i] = entries[y] /\ rest[j] = entries[z]
      /\ \A y \in 1..Len(entries) : entries[y].id # id => \E i \in 1..Len(rest) : rest[i] = entries[y]
  <2>1. IsRest(entries, id, Without(entries, id))
    BY <1>0, WithoutIs
  <2>2. IsRest(entries, id, rest)
    BY <2>1
  <2> HIDE DEF rest
  <2> QED BY <2>2 DEF IsRest
<1>7. /\ others \in Seq(Entries) /\ Len(others) \in Nat /\ Len(others) = Len(known) - 1
      /\ \A i \in 1..Len(others) : \E y \in 1..Len(known) : y >= i /\ others[i] = known[y] /\ known[y].id # id
      /\ \A i, j \in 1..Len(others) : i < j =>
           \E y, z \in 1..Len(known) : y < z /\ others[i] = known[y] /\ others[j] = known[z]
      /\ \A y, z \in 1..Len(known) : y < z /\ known[y].id # id /\ known[z].id # id =>
           \E i, j \in 1..Len(others) : i < j /\ others[i] = known[y] /\ others[j] = known[z]
      /\ \A y \in 1..Len(known) : known[y].id # id => \E i \in 1..Len(others) : others[i] = known[y]
  <2>1. known[q].id = id
    BY <1>1, <1>4
  <2>2. IsRest(known, id, Without(known, id))
    BY <1>0, WithoutIs
  <2>3. IsRest(known, id, others)
    BY <2>2
  <2> HIDE DEF others
  <2>4. Len(others) = Len(known) - 1
    BY <1>0, <2>1, <2>3 DEF IsRest
  <2> QED BY <2>3, <2>4 DEF IsRest
<1> HIDE DEF rest, others
<1>8. /\ entries' \in Seq(Entries) /\ Len(entries') = Len(rest) + 1
      /\ entries'[Len(rest) + 1] = now /\ \A i \in 1..Len(rest) : entries'[i] = rest[i]
  BY <1>3, <1>5, <1>6
<1>9. /\ known' \in Seq(Entries) /\ Len(known') = Len(known) /\ Len(known') = Len(others) + 1
      /\ known'[Len(others) + 1] = now /\ \A i \in 1..Len(others) : known'[i] = others[i]
  <2>1. /\ known' \in Seq(Entries) /\ Len(known') = Len(others) + 1
        /\ known'[Len(others) + 1] = now /\ \A i \in 1..Len(others) : known'[i] = others[i]
    <3>1. others \in Seq(Entries)
      BY <1>7
    <3>2. IsAppended(others, now, Append(others, now))
      BY <1>3, <3>1, AppendIs
    <3>3. IsAppended(others, now, known')
      BY <1>5, <3>2, Zenon
    <3> QED BY <3>3 DEF IsAppended
  <2>2. Len(known) \in Nat /\ Len(others) = Len(known) - 1
    BY <1>0, <1>7
  <2> QED BY <2>1, <2>2
<1>10. /\ \A i \in 1..Len(entries') : i \in 1..Len(rest) \/ i = Len(rest) + 1
       /\ \A i \in 1..Len(known') : i \in 1..Len(others) \/ i = Len(others) + 1
       /\ 1..Len(others) \subseteq 1..Len(known') /\ Len(others) + 1 \in 1..Len(known')
       /\ 1..Len(rest) \subseteq 1..Len(entries') /\ Len(rest) + 1 \in 1..Len(entries')
  <2> DEFINE m == Len(rest)
             n == Len(others)
  <2>1. m \in Nat /\ n \in Nat /\ Len(entries') = m + 1 /\ Len(known') = n + 1
    BY <1>6, <1>7, <1>8, <1>9
  <2> HIDE DEF m, n
  <2>2. /\ \A i \in 1..(m + 1) : i \in 1..m \/ i = m + 1
        /\ \A i \in 1..(n + 1) : i \in 1..n \/ i = n + 1
        /\ 1..n \subseteq 1..(n + 1) /\ n + 1 \in 1..(n + 1)
        /\ 1..m \subseteq 1..(m + 1) /\ m + 1 \in 1..(m + 1)
    BY <2>1
  <2>3. /\ \A i \in 1..Len(entries') : i \in 1..m \/ i = m + 1
        /\ \A i \in 1..Len(known') : i \in 1..n \/ i = n + 1
        /\ 1..n \subseteq 1..Len(known') /\ n + 1 \in 1..Len(known')
        /\ 1..m \subseteq 1..Len(entries') /\ m + 1 \in 1..Len(entries')
    BY <2>1, <2>2
  <2> QED BY <2>3 DEF m, n
<1>11. ASSUME NEW i \in 1..Len(known') PROVE known'[i].id \in 1..Len(known')
  <2>1. CASE i \in 1..Len(others)
    BY <1>0, <1>7, <1>9, <2>1
  <2>2. CASE i = Len(others) + 1
    BY <1>0, <1>1, <1>3, <1>4, <1>9, <2>2
  <2> QED BY <1>10, <2>1, <2>2
<1>12. DistinctIds(known')
  <2>1. ASSUME NEW i \in 1..Len(others), NEW j \in 1..Len(others), i < j PROVE others[i].id # others[j].id
    <3>1. PICK y \in 1..Len(known), z \in 1..Len(known) : y < z /\ others[i] = known[y] /\ others[j] = known[z]
      BY <1>7, <2>1
    <3>2. y # z
      <4>1. y \in Int /\ z \in Int
        OBVIOUS
      <4> QED BY <3>1, <4>1
    <3>3. known[y].id # known[z].id
      BY <1>0, <3>2 DEF DistinctIds
    <3> QED BY <3>1, <3>3
  <2>2. \A i \in 1..Len(others) : others[i].id # id
    BY <1>7
  <2>3. ASSUME NEW i \in 1..Len(known'), NEW j \in 1..Len(known'), known'[i].id = known'[j].id, i < j PROVE FALSE
    <3>1. i \in 1..Len(others)
      BY <1>7, <1>9, <2>3
    <3>2. CASE j \in 1..Len(others)
      BY <1>9, <2>1, <2>3, <3>1, <3>2
    <3>3. CASE j = Len(others) + 1
      BY <1>3, <1>9, <2>2, <2>3, <3>1, <3>3
    <3> QED BY <1>10, <3>2, <3>3
  <2>4. \A i, j \in 1..Len(known') : i # j => i < j \/ j < i
    OBVIOUS
  <2> QED BY <2>3, <2>4 DEF DistinctIds
<1>13. ASSUME NEW i \in 1..Len(entries') PROVE \E a \in 1..Len(known') : known'[a] = entries'[i]
  <2>1. CASE i \in 1..Len(rest)
    <3>1. PICK y \in 1..Len(entries) : rest[i] = entries[y] /\ entries[y].id # id
      BY <1>6, <2>1
    <3>2. PICK b \in 1..Len(known) : known[b] = entries[y]
      BY <1>0 DEF InUseOrder
    <3>3. PICK a \in 1..Len(others) : others[a] = known[b]
      BY <1>7, <3>1, <3>2
    <3> QED BY <1>8, <1>9, <1>10, <2>1, <3>1, <3>2, <3>3
  <2>2. CASE i = Len(rest) + 1
    BY <1>8, <1>9, <1>10, <2>2
  <2> QED BY <1>10, <2>1, <2>2
<1>14. ASSUME NEW i \in 1..Len(entries'), NEW j \in 1..Len(entries'), i < j
       PROVE  \E a, b \in 1..Len(known') : a < b /\ known'[a] = entries'[i] /\ known'[b] = entries'[j]
  <2>1. i \in 1..Len(rest)
    BY <1>6, <1>8, <1>14
  <2>2. CASE j \in 1..Len(rest)
    <3>1. PICK y \in 1..Len(entries), z \in 1..Len(entries) : y < z /\ rest[i] = entries[y] /\ rest[j] = entries[z]
      BY <1>6, <1>14, <2>1, <2>2
    <3>2. rest[i].id # id /\ rest[j].id # id
      BY <1>6, <2>1, <2>2
    <3>3. PICK c \in 1..Len(known), d \in 1..Len(known) : c < d /\ known[c] = entries[y] /\ known[d] = entries[z]
      BY <1>0, <3>1 DEF InUseOrder
    <3>4. PICK a \in 1..Len(others), b \in 1..Len(others) : a < b /\ others[a] = known[c] /\ others[b] = known[d]
      <4>1. known[c].id # id /\ known[d].id # id
        BY <3>1, <3>2, <3>3
      <4> QED BY <1>7, <3>3, <4>1
    <3>5. a \in 1..Len(known') /\ b \in 1..Len(known') /\ known'[a] = others[a] /\ known'[b] = others[b]
      BY <1>9, <1>10
    <3>6. entries'[i] = rest[i] /\ entries'[j] = rest[j]
      BY <1>8, <2>1, <2>2
    <3> QED BY <3>1, <3>3, <3>4, <3>5, <3>6
  <2>3. CASE j = Len(rest) + 1
    <3>1. PICK y \in 1..Len(entries) : rest[i] = entries[y] /\ entries[y].id # id
      BY <1>6, <2>1
    <3>2. PICK b \in 1..Len(known) : known[b] = entries[y]
      BY <1>0 DEF InUseOrder
    <3>3. PICK a \in 1..Len(others) : others[a] = known[b]
      BY <1>7, <3>1, <3>2
    <3>4. a < Len(others) + 1
      BY <1>7
    <3>5. a \in 1..Len(known') /\ known'[a] = entries'[i]
      BY <1>8, <1>9, <1>10, <2>1, <3>1, <3>2, <3>3
    <3>6. Len(others) + 1 \in 1..Len(known') /\ known'[Len(others) + 1] = entries'[j]
      BY <1>8, <1>9, <1>10, <2>3
    <3> QED BY <3>4, <3>5, <3>6
  <2> QED BY <1>10, <2>2, <2>3
<1>18. \A c : Find(entries', c) # {} <=> \E k \in 1..Len(entries') : entries'[k].id = c
  BY <1>8, FoundIs
<1>15. ASSUME NEW i \in 1..Len(known'), known'[i].id \notin closed, Live(known'[i]), i > Len(known') - MaxEntries
       PROVE  Find(entries', known'[i].id) # {}
  <2>1. CASE i \in 1..Len(others)
    <3>1. PICK y \in 1..Len(known) : y >= i /\ others[i] = known[y] /\ known[y].id # id
      BY <1>7, <2>1
    <3>2. MaxEntries \in Nat /\ Len(known) \in Nat /\ y \in DOMAIN known
      BY <1>0, SessionsAssumption
    <3>3. Find(entries, known[y].id) # {}
      <4>1. known[y].id \notin closed /\ Live(known[y])
        BY <1>9, <1>15, <2>1, <3>1
      <4>2. y > Len(known) - MaxEntries
        BY <1>9, <1>15, <3>1, <3>2
      <4> QED BY <1>0, <3>2, <4>1, <4>2 DEF RecentSessionsAnswer
    <3>4. PICK k \in 1..Len(entries) : entries[k].id = known[y].id
      BY <1>0, <3>3, FoundIs
    <3>5. PICK j \in 1..Len(rest) : rest[j] = entries[k]
      BY <1>6, <3>1, <3>4
    <3>6. entries'[j].id = known'[i].id /\ j \in 1..Len(entries')
      BY <1>8, <1>9, <1>10, <2>1, <3>1, <3>4, <3>5
    <3> QED BY <1>18, <3>6
  <2>2. CASE i = Len(others) + 1
    <3>1. entries'[Len(rest) + 1].id = known'[i].id /\ Len(rest) + 1 \in 1..Len(entries')
      BY <1>8, <1>9, <1>10, <2>2
    <3> QED BY <1>18, <3>1
  <2> QED BY <1>10, <2>1, <2>2
<1>16. RecentSessionsAnswer'
  <2>1. \A e : Live(e)' <=> Live(e)
    BY DEF Live, Expired
  <2>2. DOMAIN known' = 1..Len(known')
    BY <1>9
  <2> QED BY <1>15, <2>1, <2>2 DEF RecentSessionsAnswer, Find
<1>17. InUseOrder(entries', known')
  BY <1>13, <1>14 DEF InUseOrder
<1> QED BY <1>0, <1>8, <1>9, <1>11, <1>12, <1>16, <1>17 DEF RecentInv, DistinctIds, InUseOrder

LEMMA RecentStep == RecentInv /\ [SessionsNext]_sessionVars => RecentInv'
<1> SUFFICES ASSUME RecentInv, [SessionsNext]_sessionVars PROVE RecentInv'
  OBVIOUS
<1>0. /\ time \in Nat /\ known \in Seq(Entries) /\ entries \in Seq(Entries)
      /\ \A i \in 1..Len(known) : known[i].id \in 1..Len(known)
      /\ DistinctIds(known) /\ InUseOrder(entries, known) /\ RecentSessionsAnswer
  BY DEF RecentInv
<1>1. ASSUME UNCHANGED <<entries, known, closed, time>> PROVE RecentInv'
  BY <1>1 DEF RecentInv, DistinctIds, InUseOrder, RecentSessionsAnswer, Live, Expired, Find
<1>2. ASSUME SessionTick PROVE RecentInv'
  <2>1. time' = time + 1 /\ UNCHANGED <<entries, known, closed>>
    BY <1>2 DEF SessionTick
  <2>2. ASSUME NEW i \in DOMAIN known, known[i].id \notin closed, i > Len(known) - MaxEntries,
               ~(time' >= known[i].created + HardTtlMs \/ time' - known[i].lastUsed > TtlMs)
        PROVE  Find(entries, known[i].id) # {}
    <3>1. known[i] \in Entries
      BY <1>0
    <3>2. known[i].created \in Nat /\ known[i].lastUsed \in Nat
      BY <3>1 DEF Entries
    <3>3. Live(known[i])
      BY <1>0, <2>1, <2>2, <3>2, SessionsAssumption DEF Live, Expired
    <3> QED BY <1>0, <2>2, <3>3 DEF RecentSessionsAnswer
  <2>3. RecentSessionsAnswer'
    <3> SUFFICES ASSUME NEW i \in DOMAIN known', known'[i].id \notin closed', Live(known[i])',
                        i > Len(known') - MaxEntries
                 PROVE  Find(entries, known[i].id)' # {}
      BY DEF RecentSessionsAnswer
    <3>1. ~(time' >= known[i].created + HardTtlMs \/ time' - known[i].lastUsed > TtlMs)
      BY <2>1 DEF Live, Expired
    <3>2. Find(entries, known[i].id) # {}
      BY <2>1, <2>2, <3>1
    <3>3. entries' = entries /\ known' = known
      BY <2>1
    <3>4. Find(entries', known'[i].id) = Find(entries, known[i].id)
      BY <3>3
    <3> QED BY <3>2, <3>4
  <2>4. /\ time' \in Nat /\ known' \in Seq(Entries) /\ entries' \in Seq(Entries)
        /\ \A i \in 1..Len(known') : known'[i].id \in 1..Len(known')
    BY <1>0, <2>1
  <2>5. DistinctIds(known)' /\ InUseOrder(entries, known)'
    BY <1>0, <2>1 DEF DistinctIds, InUseOrder
  <2> QED BY <2>3, <2>4, <2>5 DEF RecentInv
<1>3. ASSUME NEW id \in 1..MaxSessions, CloseChatSession(id) PROVE RecentInv'
  BY <1>3, RemovalKeepsRecent DEF CloseChatSession
<1>4. ASSUME NEW p \in Talkers, NEW id \in 1..MaxSessions, NEW agent \in Agents, TalkInSession(p, id, agent)
      PROVE  RecentInv'
  <2>1. PICK entry \in Find(entries, id) :
           IF Expired(entry)
           THEN entries' = Without(entries, id) /\ UNCHANGED <<talks, talked, known>>
           ELSE /\ entries' = Used(entries, entry)
                /\ known' = Append(Without(known, id), [entry EXCEPT !.lastUsed = time])
    BY <1>4 DEF TalkInSession
  <2>2. UNCHANGED <<time, closed>>
    BY <1>4 DEF TalkInSession
  <2>3. CASE Expired(entry)
    <3>1. PICK x \in 1..Len(entries) : entries[x] = entry /\ entry.id = id
      BY <1>0, FoundIs
    <3>2. PICK q \in 1..Len(known) : known[q] = entry
      BY <1>0, <3>1 DEF InUseOrder
    <3>3. \A i \in 1..Len(known) : known[i].id = id => ~Live(known[i])
      BY <1>0, <2>3, <3>1, <3>2 DEF DistinctIds, Live
    <3> QED BY <2>1, <2>2, <2>3, <3>3, RemovalKeepsRecent
  <2>4. CASE ~Expired(entry)
    BY <2>1, <2>2, <2>4, UseKeepsRecent
  <2> QED BY <2>3, <2>4
<1>5. ASSUME Restart PROVE RecentInv'
  <2>1. entries' = <<>> /\ known' = <<>> /\ time' = time
    BY <1>5 DEF Restart
  <2> QED BY <1>0, <2>1 DEF RecentInv, DistinctIds, InUseOrder, RecentSessionsAnswer
<1>6. ASSUME NEW p \in Talkers, NEW c \in Costs,
             Answer(p, c) \/ FailedAnswer(p, c)
      PROVE  RecentInv'
  BY <1>1, <1>6 DEF Answer, FailedAnswer
<1>7. ASSUME NEW p \in Talkers, AskGuard(p) \/ RefuseTalk(p) \/ StartTalk(p) PROVE RecentInv'
  BY <1>1, <1>7 DEF AskGuard, RefuseTalk, StartTalk
<1>8. ASSUME LogUsage \/ NextMonth PROVE RecentInv'
  BY <1>1, <1>8 DEF LogUsage, NextMonth
<1>9. ASSUME NEW agent \in Agents, OpenChatSession(agent) PROVE RecentInv'
  BY <1>9, OpenKeepsRecent
<1> QED
  BY <1>1, <1>2, <1>3, <1>4, <1>5, <1>6, <1>7, <1>8, <1>9 DEF SessionsNext, sessionVars

\* A session neither closed nor too old answers while fewer than MaxEntries
\* others were opened or used after it, whatever sessions expired, were closed
\* or pushed out in between (SessionStore.get and #enforceCapacity).
THEOREM RecentAnswer == SessionsSpec => []RecentSessionsAnswer
<1>1. SessionsInit => RecentInv
  BY DEF SessionsInit, RecentInv, DistinctIds, InUseOrder, RecentSessionsAnswer
<1>2. RecentInv => RecentSessionsAnswer
  BY DEF RecentInv
<1> QED
  BY <1>1, <1>2, RecentStep, PTL DEF SessionsSpec
=============================================================================

--------------------- MODULE ConfigurationRepositories ---------------------
(***************************************************************************)
(* The repositories of configuration records (users, groups, aspects,      *)
(* workflows, agents, ... in src/adapters, *_configuration_repository.ts): *)
(* save, get, list and delete by key.  A record is a function from its     *)
(* fields; MongoDB saves with $set, which keeps the fields a new record    *)
(* lacks, and PostgreSQL deletes in two queries.                           *)
(***************************************************************************)
EXTENDS Naturals

CONSTANTS
    ConfigKeys, ConfigCallers,
    ConfigData,      \* the records that are saved
    ConfigBackends,
    NoRecord, NoCall

\* Records of the fields and values that are saved.
Fields == UNION {DOMAIN data : data \in ConfigData}
FieldValues == UNION {{data[field] : field \in DOMAIN data} : data \in ConfigData}
Records == UNION {[fields -> FieldValues] : fields \in SUBSET Fields}

\* What is saved is a record, and no record is none of them.
ASSUME ConfigAssumption == ConfigData \subseteq Records /\ NoRecord \notin Records

VARIABLES
    configBackend,
    records,     \* key -> the record
    deleting,    \* caller -> the key its deletion has found
    lastSaved    \* key -> what was last reported as saved, or NoRecord

configVars == <<configBackend, records, deleting, lastSaved>>

\* $set: the fields of the new record over those of the old one.
Over(data, old) == [field \in DOMAIN data \cup DOMAIN old |->
    IF field \in DOMAIN data THEN data[field] ELSE old[field]]
\* save: an upsert.
Upserted(old, data) ==
    IF configBackend = "mongodb" /\ old # NoRecord THEN Over(data, old) ELSE data
SaveRecord(k, data) ==
    /\ records' = [records EXCEPT ![k] = Upserted(@, data)]
    /\ lastSaved' = [lastSaved EXCEPT ![k] = data]
    /\ UNCHANGED <<configBackend, deleting>>

Removed(k) ==
    /\ records' = [records EXCEPT ![k] = NoRecord]
    /\ lastSaved' = [lastSaved EXCEPT ![k] = NoRecord]
    /\ UNCHANGED configBackend

\* delete, where finding and deleting are one step.
DeleteRecord(k) ==
    /\ records[k] # NoRecord
    /\ Removed(k)
    /\ UNCHANGED deleting

\* delete, where they are two.
FindToDelete(c, k) ==
    /\ deleting[c] = NoCall /\ records[k] # NoRecord
    /\ deleting' = [deleting EXCEPT ![c] = k]
    /\ UNCHANGED <<configBackend, records, lastSaved>>
DeleteFound(c) ==
    /\ deleting[c] # NoCall
    /\ Removed(deleting[c])
    /\ deleting' = [deleting EXCEPT ![c] = NoCall]

\* A new process finds what the databases hold.
RestartConfig ==
    /\ deleting' = [c \in ConfigCallers |-> NoCall]
    /\ IF configBackend = "inmem"
       THEN records' = [k \in ConfigKeys |-> NoRecord] /\ lastSaved' = records'
       ELSE UNCHANGED <<records, lastSaved>>
    /\ UNCHANGED configBackend

ConfigInit(backends) ==
    /\ configBackend \in backends
    /\ records = [k \in ConfigKeys |-> NoRecord]
    /\ deleting = [c \in ConfigCallers |-> NoCall]
    /\ lastSaved = [k \in ConfigKeys |-> NoRecord]

SaveOrDelete == \E k \in ConfigKeys : (\E data \in ConfigData : SaveRecord(k, data)) \/ DeleteRecord(k)

\* The four repositories.
InMemoryConfig == configBackend = "inmem" /\ SaveOrDelete
SqliteConfig   == configBackend = "sqlite" /\ SaveOrDelete
MongodbConfig  == configBackend = "mongodb" /\ SaveOrDelete
PostgresConfig == configBackend = "postgres" /\
    \/ \E k \in ConfigKeys, data \in ConfigData : SaveRecord(k, data)
    \/ \E c \in ConfigCallers : (\E k \in ConfigKeys : FindToDelete(c, k)) \/ DeleteFound(c)

ConfigNext == InMemoryConfig \/ SqliteConfig \/ MongodbConfig \/ PostgresConfig \/ RestartConfig

ConfigSpec == ConfigInit(ConfigBackends) /\ [][ConfigNext]_configVars

----------------------------------------------------------------------------

\* What get and list answer is the record last saved under the key: nothing
\* after a deletion, and in MongoDB with the fields of older versions that
\* the newer ones left out.
LastSavedIsRead ==
    \A k \in ConfigKeys :
      IF lastSaved[k] = NoRecord THEN records[k] = NoRecord
      ELSE /\ records[k] # NoRecord
           /\ configBackend # "mongodb" => records[k] = lastSaved[k]
           /\ \A field \in DOMAIN lastSaved[k] : records[k][field] = lastSaved[k][field]
=============================================================================

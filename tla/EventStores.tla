---------------------------- MODULE EventStores ----------------------------
(***************************************************************************)
(* The stores of audit events (src/adapters, *_event_store_repository.ts): *)
(* append gives an event the next sequence number of its stream.  In       *)
(* memory and in SQLite that is one step; PostgreSQL and MongoDB ask for   *)
(* the last number first and insert afterwards.                            *)
(***************************************************************************)
EXTENDS Naturals, FiniteSets, FiniteSetsExt

CONSTANTS
    Events,         \* events that are appended, each of them once
    StreamOf,       \* event -> its stream; the streams share a mimetype
    EventBackends,
    MaxEventFaults,
    TornFile

VARIABLES
    eventBackend,
    rows,       \* the stored events: [event, sequence]
    streamFile, \* flat file: stream -> its events on disk, {TornFile} if unreadable
    indexed,    \* MongoDB: whether the unique index exists
    appends,    \* event -> its append
    eventFaults

eventVars == <<eventBackend, rows, streamFile, indexed, appends, eventFaults>>

Streams == {StreamOf[e] : e \in Events}
New == [phase |-> "new", sequence |-> 0, after |-> {}]

OfStream(s) == {r \in rows : StreamOf[r.event] = s}
Done == {e \in Events : appends[e].phase = "done"}
Stored == {r.event : r \in rows}

\* COALESCE(MAX(sequence), -1) + 1, and the length of a stream in memory.
NextSequence(s) == IF OfStream(s) = {} THEN 0 ELSE Max({r.sequence : r \in OfStream(s)}) + 1

\* The PRIMARY KEY of the tables, and what createIndex asks of a collection.
Distinct(set) == \A r, q \in set :
    r # q /\ StreamOf[r.event] = StreamOf[q.event] => r.sequence # q.sequence

\* An append that begins now comes after those already reported.
At(e, phase, sequence) ==
    [appends EXCEPT ![e] = [phase |-> phase, sequence |-> sequence,
        after |-> IF @.phase = "new"
                  THEN {d \in Done \cap Stored : StreamOf[d] = StreamOf[e]} ELSE @.after]]

----------------------------------------------------------------------------

AppendAtOnce(e) ==
    /\ appends[e].phase = "new"
    /\ rows' = rows \cup {[event |-> e, sequence |-> NextSequence(StreamOf[e])]}
    /\ appends' = At(e, "done", NextSequence(StreamOf[e]))
    /\ UNCHANGED <<eventBackend, streamFile, indexed, eventFaults>>

\* FlatFileEventStoreRepository: memory first, then the whole stream is
\* written; when that fails the event stays in memory.
AppendToFile(e) ==
    /\ appends[e].phase = "new"
    /\ rows' = rows \cup {[event |-> e, sequence |-> NextSequence(StreamOf[e])]}
    /\ \/ /\ streamFile' = [streamFile EXCEPT ![StreamOf[e]] = {r \in rows' : StreamOf[r.event] = StreamOf[e]}]
          /\ appends' = At(e, "done", NextSequence(StreamOf[e]))
          /\ UNCHANGED eventFaults
       \/ /\ eventFaults < MaxEventFaults /\ eventFaults' = eventFaults + 1
          /\ appends' = At(e, "failed", NextSequence(StreamOf[e]))
          /\ UNCHANGED streamFile
    /\ UNCHANGED <<eventBackend, indexed>>

ReadSequence(e) ==
    /\ appends[e].phase = "new"
    /\ appends' = At(e, "insert", NextSequence(StreamOf[e]))
    /\ UNCHANGED <<eventBackend, rows, streamFile, indexed, eventFaults>>

\* Variant: a table without its primary key.
MayInsertAlways(e, row) == TRUE
\* Whether the database takes the row.
MayInsert(e, row) ==
    eventBackend = "postgres" \/ indexed => Distinct(rows \cup {row})
\* Variant: ON CONFLICT DO NOTHING.
NothingOnConflict == "done"
\* A violated key is an error of the query, and of the append.
OnConflict == "failed"
Insert(e, next) ==
    /\ appends[e].phase = "insert"
    /\ LET row == [event |-> e, sequence |-> appends[e].sequence]
       IN  IF MayInsert(e, row)
           THEN /\ rows' = rows \cup {row}
                /\ appends' = At(e, next, row.sequence)
           ELSE /\ appends' = At(e, OnConflict, row.sequence)
                /\ UNCHANGED rows
    /\ UNCHANGED <<eventBackend, streamFile, indexed, eventFaults>>

\* MongoDB builds the index after the first insert; when two events share a
\* number by then it cannot, and the append is reported as failed.
CreateIndex(e) ==
    /\ appends[e].phase = "index"
    /\ indexed' = Distinct(rows)
    /\ appends' = At(e, IF Distinct(rows) THEN "done" ELSE "failed", appends[e].sequence)
    /\ UNCHANGED <<eventBackend, rows, streamFile, eventFaults>>

\* loadAllStreams: a stream that cannot be read is left out.
LoadedStreams == UNION {streamFile[s] : s \in {s \in Streams : streamFile[s] # {TornFile}}}

\* The process stops, perhaps while it writes a stream over.
RestartEvents ==
    /\ eventFaults < MaxEventFaults /\ eventFaults' = eventFaults + 1
    /\ \/ UNCHANGED streamFile
       \/ eventBackend = "flat_file" /\ \E s \in Streams : streamFile' = [streamFile EXCEPT ![s] = {TornFile}]
    /\ rows' = CASE eventBackend = "inmem" -> {}
                 [] eventBackend = "flat_file" -> LoadedStreams'
                 [] OTHER -> rows
    /\ appends' = [e \in Events |-> IF appends[e].phase \in {"insert", "index"}
                                     THEN [appends[e] EXCEPT !.phase = "stopped"] ELSE appends[e]]
    /\ UNCHANGED <<eventBackend, indexed>>

----------------------------------------------------------------------------

EventsInit(backends) ==
    /\ eventBackend \in backends
    /\ rows = {}
    /\ streamFile = [s \in Streams |-> {}]
    /\ indexed = FALSE
    /\ appends = [e \in Events |-> New]
    /\ eventFaults = 0

\* append, in each of the five stores.
InMemoryAppend == eventBackend = "inmem" /\ \E e \in Events : AppendAtOnce(e)
FlatFileAppend == eventBackend = "flat_file" /\ \E e \in Events : AppendToFile(e)
SqliteAppend   == eventBackend = "sqlite" /\ \E e \in Events : AppendAtOnce(e)
PostgresAppend == eventBackend = "postgres" /\ \E e \in Events : ReadSequence(e) \/ Insert(e, "done")
MongodbAppend  == eventBackend = "mongodb" /\ \E e \in Events :
                    ReadSequence(e) \/ Insert(e, "index") \/ CreateIndex(e)

EventsNext ==
    \/ InMemoryAppend \/ FlatFileAppend \/ SqliteAppend \/ PostgresAppend \/ MongodbAppend
    \/ RestartEvents

EventsSpec == EventsInit(EventBackends) /\ [][EventsNext]_eventVars

----------------------------------------------------------------------------
(* Properties                                                              *)

\* The events of a stream are numbered from 0 without gaps, an event appended
\* after another was reported as stored bears the larger number as long as
\* the other is there, and no two bear one number: except in a MongoDB
\* collection whose index was never built.
StreamsAreNumbered ==
    /\ \A s \in Streams : \A r \in OfStream(s) : \A n \in 0..r.sequence :
         \E q \in OfStream(s) : q.sequence = n
    /\ \A r, q \in rows : q.event \in appends[r.event].after => q.sequence < r.sequence
    /\ eventBackend # "mongodb" \/ indexed => Distinct(rows)

\* An event is in the log if append reported it as stored, and only if no
\* failure was reported: except where the failure comes after the event is
\* kept (the save of a file, the building of MongoDB's index), and where the
\* memory or the file that held it is lost.
LogIsAsReported ==
    /\ (eventBackend \in {"inmem", "flat_file"} => eventFaults = 0) => Done \subseteq Stored
    /\ \A e \in Stored : appends[e].phase = "failed" =>
         eventBackend = "flat_file" \/ (eventBackend = "mongodb" /\ ~indexed)
=============================================================================

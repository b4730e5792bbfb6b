------------------------- MODULE RepositoriesProofs -------------------------
(***************************************************************************)
(* The repositories of rows, for any number of nodes, events, records,     *)
(* callers, stops and starts: what is reported as saved is read, a write   *)
(* of a node keeps its embedding, a portable search means the same in      *)
(* every deployment, and events are numbered as they are reported.         *)
(*                                                                         *)
(* The numbers of events need the most: two appends may ask for a number   *)
(* at a time, so EventInv says of a number that was asked for that all     *)
(* below it are taken (AskedNumbersFollow), of a file that it is a prefix  *)
(* of its stream at some time (FilesKept), and of an event that began      *)
(* after others were reported that it cannot come before them, whichever   *)
(* number it is given.  A repository kept in a file needs that the file    *)
(* holds what memory does (FileIsAcked).  The storages of contents come after. *)
(***************************************************************************)
EXTENDS MCRepositories, FiniteSetTheorems, WellFoundedInduction, TLAPS

\* Finite sets of numbers without a largest one, of which there are none.
NoLargest == {S \in SUBSET Nat : IsFiniteSet(S) /\ S # {} /\ \A x \in S : \E y \in S : y > x}

\* A finite set of numbers has a largest one: a set of sets without one would
\* have no smallest member.
LEMMA LargestNumber ==
  ASSUME NEW S, S \subseteq Nat, IsFiniteSet(S), S # {}
  PROVE  \E x \in S : \A y \in S : x >= y
<1> DEFINE R == StrictSubsetOrdering(Nat)
           Finite == FiniteSubsetsOf(Nat)
<1> SUFFICES ASSUME ~ \E x \in S : \A y \in S : x >= y PROVE FALSE
  OBVIOUS
<1>1. S \in NoLargest
  BY DEF NoLargest
<1>2. NoLargest \subseteq Finite
  BY DEF NoLargest, FiniteSubsetsOf
<1>3. IsWellFoundedOn(R, Finite)
  BY FS_StrictSubsetOrderingWellFounded
<1>4. PICK T \in NoLargest : \A U \in NoLargest : ~ (<<U, T>> \in R)
  <2> HIDE DEF R, Finite
  <2> QED BY <1>1, <1>2, <1>3, WFMin
<1>5. PICK x \in T : TRUE
  BY <1>4 DEF NoLargest
<1>6. T \ {x} \in NoLargest
  <2>1. IsFiniteSet(T \ {x})
    BY <1>4, FS_RemoveElement DEF NoLargest
  <2>2. T \ {x} # {}
    BY <1>4, <1>5 DEF NoLargest
  <2>3. ASSUME NEW y \in T \ {x} PROVE \E z \in T \ {x} : z > y
    <3>1. PICK z \in T : z > y
      BY <1>4, <2>3 DEF NoLargest
    <3>2. CASE z = x
      <4>1. PICK w \in T : w > x
        BY <1>4, <1>5 DEF NoLargest
      <4> QED BY <3>1, <3>2, <4>1, <1>4, <1>5 DEF NoLargest
    <3> QED BY <3>1, <3>2, <1>4 DEF NoLargest
  <2> QED BY <2>1, <2>2, <2>3, <1>4 DEF NoLargest
<1>7. <<T \ {x}, T>> \in R
  BY <1>4, <1>5, <1>6 DEF NoLargest, StrictSubsetOrdering
<1> QED BY <1>4, <1>6, <1>7

\* So Max, a choice, gives it.
LEMMA MaxIsLargest ==
  ASSUME NEW S, S \subseteq Nat, IsFiniteSet(S), S # {}
  PROVE  Max(S) \in S /\ \A y \in S : Max(S) >= y
BY LargestNumber DEF Max

----------------------------------------------------------------------------
(* The stores of audit events.                                             *)

EventRows == [event : Events, sequence : Nat]

\* Events that were given their number, and kept with it.
Numbered(set, a) == \A r \in set :
    a[r.event].phase \notin {"new", "insert"} /\ r.sequence = a[r.event].sequence

\* Below an event of a stream every number is taken.
Gapless(set) == \A r \in set : \A n \in 0..r.sequence :
    \E q \in set : StreamOf[q.event] = StreamOf[r.event] /\ q.sequence = n

InStream(set, s) == {r \in set : StreamOf[r.event] = s}
FiniteStreams(set) == \A s \in Streams : IsFiniteSet(InStream(set, s))

Kept(set, a) == set \subseteq EventRows /\ FiniteStreams(set) /\ Numbered(set, a) /\ Gapless(set)

Phases == {"new", "insert", "index", "done", "failed", "stopped"}

EventTypes ==
    /\ appends \in [Events -> [phase : Phases, sequence : Nat, after : SUBSET Events]]
    /\ DOMAIN streamFile = Streams
    /\ eventFaults \in Nat

RowsKept == Kept(rows, appends) /\ (eventBackend # "mongodb" \/ indexed => Distinct(rows))

\* A file holds its stream as it was at some time, or cannot be read.
FileKept(s, set, a) == Kept(set, a) /\ Distinct(set) /\ \A r \in set : StreamOf[r.event] = s
FilesKept == \A s \in Streams : streamFile[s] = {TornFile} \/ FileKept(s, streamFile[s], appends)

\* What was reported before an append began bears a smaller number.
AfterTheReported == \A e \in Events : \A d \in appends[e].after :
    /\ StreamOf[d] = StreamOf[e] /\ appends[d].phase = "done"
    /\ appends[d].sequence < appends[e].sequence

\* A number that was asked for and not used yet follows numbers that are.
AskedNumbersFollow == \A e \in Events : appends[e].phase = "insert" =>
    \A n \in 0..appends[e].sequence : n < appends[e].sequence =>
        \E q \in OfStream(StreamOf[e]) : q.sequence = n

ReportedIsStored ==
    /\ (eventBackend \in {"inmem", "flat_file"} => eventFaults = 0) =>
         \A e \in Events : appends[e].phase \in {"done", "index"} => e \in Stored
    /\ \A e \in Stored : appends[e].phase = "failed" =>
         eventBackend = "flat_file" \/ (eventBackend = "mongodb" /\ ~Distinct(rows))

EventInv == EventTypes /\ RowsKept /\ FilesKept /\ AfterTheReported /\ AskedNumbersFollow /\ ReportedIsStored

\* The next number of a stream is above all of its numbers, and the first
\* that is.
LEMMA NextSequenceFollows ==
  ASSUME NEW s \in Streams, Kept(rows, appends)
  PROVE  /\ NextSequence(s) \in Nat
         /\ \A r \in OfStream(s) : r.sequence < NextSequence(s)
         /\ \A n \in Nat : n < NextSequence(s) => \E q \in OfStream(s) : q.sequence = n
<1>1. CASE OfStream(s) = {}
  BY <1>1 DEF NextSequence
<1>2. CASE OfStream(s) # {}
  <2> DEFINE N == {r.sequence : r \in OfStream(s)}
  <2>1. OfStream(s) \subseteq EventRows
    BY DEF OfStream, Kept
  <2>2. N \subseteq Nat /\ N # {}
    BY <1>2, <2>1 DEF EventRows
  <2>3. IsFiniteSet(N)
    <3>1. IsFiniteSet(OfStream(s))
      BY DEF OfStream, Kept, FiniteStreams, InStream
    <3>2. [r \in OfStream(s) |-> r.sequence] \in Surjection(OfStream(s), N)
      BY DEF Surjection
    <3> QED
      BY <3>1, <3>2, FS_Surjection
  <2>4. PICK m \in N : NextSequence(s) = m + 1 /\ \A n \in N : m >= n
    <3>1. NextSequence(s) = Max(N) + 1
      BY <1>2 DEF NextSequence
    <3> HIDE DEF N
    <3>2. Max(N) \in N /\ \A n \in N : Max(N) >= n
      BY <2>2, <2>3, MaxIsLargest
    <3> QED BY <3>1, <3>2
  <2>6. PICK q \in OfStream(s) : q.sequence = m
    BY <2>4
  <2>7. \A r \in OfStream(s) : r.sequence < NextSequence(s)
    <3> TAKE r \in OfStream(s)
    <3> DEFINE n == r.sequence
    <3>1. n \in N
      OBVIOUS
    <3> HIDE DEF N, n
    <3>2. n < NextSequence(s)
      BY <3>1, <2>2, <2>4
    <3> QED BY <3>2 DEF n
  <2>8. ASSUME NEW n \in Nat, n < NextSequence(s) PROVE \E p \in OfStream(s) : p.sequence = n
    <3>1. n \in 0..q.sequence
      BY <2>2, <2>4, <2>6, <2>8
    <3>2. q \in rows /\ StreamOf[q.event] = s
      BY <2>6 DEF OfStream
    <3>3. PICK p \in rows : StreamOf[p.event] = StreamOf[q.event] /\ p.sequence = n
      BY <3>1, <3>2 DEF Kept, Gapless
    <3> QED BY <3>2, <3>3 DEF OfStream
  <2>9. NextSequence(s) \in Nat
    BY <2>2, <2>4
  <2> QED BY <2>7, <2>8, <2>9
<1> QED BY <1>1, <1>2

\* One more event leaves the streams finite.
LEMMA FiniteStreamsGrow ==
  ASSUME NEW set, NEW row, FiniteStreams(set) PROVE FiniteStreams(set \cup {row})
<1> SUFFICES ASSUME NEW s \in Streams PROVE IsFiniteSet(InStream(set \cup {row}, s))
  BY DEF FiniteStreams
<1>1. InStream(set \cup {row}, s) \subseteq InStream(set, s) \cup {row}
  BY DEF InStream
<1>2. IsFiniteSet(InStream(set, s) \cup {row})
  BY FS_AddElement DEF FiniteStreams
<1> QED BY <1>1, <1>2, FS_Subset

\* The stores begin empty, and nothing was reported.
LEMMA EventsInitial == EventsInit(EventBackends) => EventInv
<1> SUFFICES ASSUME EventsInit(EventBackends) PROVE EventInv
  OBVIOUS
<1>1. FiniteStreams({})
  BY FS_EmptySet DEF FiniteStreams, InStream
<1>2. Kept({}, appends) /\ Distinct({})
  BY <1>1 DEF Kept, Numbered, Gapless, Distinct
<1>3. EventTypes
  <2>1. New \in [phase : Phases, sequence : Nat, after : SUBSET Events]
    BY DEF New, Phases
  <2> QED BY <2>1 DEF EventsInit, EventTypes
<1>4. RowsKept /\ FilesKept
  BY <1>2 DEF EventsInit, RowsKept, FilesKept, FileKept
<1>5. AfterTheReported /\ AskedNumbersFollow /\ ReportedIsStored
  BY DEF EventsInit, AfterTheReported, AskedNumbersFollow, ReportedIsStored, New, Stored
<1> QED BY <1>3, <1>4, <1>5 DEF EventInv

\* An event keeps the number it was kept with.
Unchanging(e) == appends[e].phase \notin {"new", "insert"} =>
    appends'[e].phase \notin {"new", "insert"} /\ appends'[e].sequence = appends[e].sequence

\* What was kept stays kept while nobody changes the number of a kept event.
LEMMA KeptStays ==
  ASSUME NEW set, Kept(set, appends), EventTypes, \A e \in Events : Unchanging(e)
  PROVE  Kept(set, appends')
<1>1. Numbered(set, appends')
  BY DEF Kept, Numbered, EventRows, Unchanging
<1> QED BY <1>1 DEF Kept, Gapless

\* What At makes of the appends.
LEMMA AtIs ==
  ASSUME EventInv, NEW e \in Events, NEW phase \in Phases, NEW n \in Nat, appends' = At(e, phase, n)
  PROVE  /\ appends' \in [Events -> [phase : Phases, sequence : Nat, after : SUBSET Events]]
         /\ appends'[e].phase = phase /\ appends'[e].sequence = n
         /\ appends'[e].after = IF appends[e].phase = "new"
                  THEN {d \in Done \cap Stored : StreamOf[d] = StreamOf[e]} ELSE appends[e].after
         /\ \A d \in Events : d # e => appends'[d] = appends[d]
<1> DEFINE after == IF appends[e].phase = "new"
                  THEN {d \in Done \cap Stored : StreamOf[d] = StreamOf[e]} ELSE appends[e].after
<1>1. after \subseteq Events
  BY DEF Done, EventInv, EventTypes
<1>2. appends' = [appends EXCEPT ![e] = [phase |-> phase, sequence |-> n, after |-> after]]
  BY DEF At
<1> HIDE DEF after
<1>3. /\ appends' \in [Events -> [phase : Phases, sequence : Nat, after : SUBSET Events]]
      /\ appends'[e] = [phase |-> phase, sequence |-> n, after |-> after]
      /\ \A d \in Events : d # e => appends'[d] = appends[d]
  BY <1>1, <1>2 DEF EventInv, EventTypes
<1> QED BY <1>3 DEF after

\* A new event of a stream bears the next number: after it the rows are kept,
\* their numbers distinct when they were, and what is in the stream is below.
LEMMA NextIsKept ==
  ASSUME EventInv, NEW e \in Events, appends[e].phase = "new",
         NEW phase \in Phases \ {"new", "insert"},
         appends' = At(e, phase, NextSequence(StreamOf[e])),
         rows' = rows \cup {[event |-> e, sequence |-> NextSequence(StreamOf[e])]}
  PROVE  Kept(rows', appends') /\ (Distinct(rows) => Distinct(rows'))
<1> DEFINE n == NextSequence(StreamOf[e])
           row == [event |-> e, sequence |-> n]
<1>1. Kept(rows, appends)
  BY DEF EventInv, RowsKept
<1>2. /\ n \in Nat /\ (\A r \in OfStream(StreamOf[e]) : r.sequence < n)
      /\ \A m \in Nat : m < n => \E q \in OfStream(StreamOf[e]) : q.sequence = m
  BY <1>1, NextSequenceFollows DEF Streams
<1>3. rows' = rows \cup {row}
  OBVIOUS
<1>4. appends'[e].phase \notin {"new", "insert"} /\ appends'[e].sequence = n
      /\ \A d \in Events : d # e => appends'[d] = appends[d]
  BY <1>2, AtIs
<1> HIDE DEF n
<1>5. Numbered(rows', appends')
  BY <1>1, <1>3, <1>4 DEF Kept, Numbered, EventRows
<1>6. rows' \subseteq EventRows /\ FiniteStreams(rows')
  <2>1. row \in EventRows
    BY <1>2 DEF EventRows
  <2>2. FiniteStreams(rows \cup {row})
    BY <1>1, FiniteStreamsGrow DEF Kept
  <2> QED BY <1>1, <1>3, <2>1, <2>2 DEF Kept
<1>7. Gapless(rows')
  <2> SUFFICES ASSUME NEW r \in rows', NEW m \in 0..r.sequence
               PROVE  \E q \in rows' : StreamOf[q.event] = StreamOf[r.event] /\ q.sequence = m
    BY DEF Gapless
  <2>1. CASE r \in rows
    BY <2>1, <1>1, <1>3 DEF Kept, Gapless
  <2>2. CASE r = row /\ m = n
    BY <2>2, <1>3
  <2>3. CASE r = row /\ m < n
    BY <2>3, <1>2, <1>3 DEF OfStream
  <2> QED BY <2>1, <2>2, <2>3, <1>2, <1>3
<1>8. ASSUME Distinct(rows) PROVE Distinct(rows')
  <2> SUFFICES ASSUME NEW r \in rows', NEW q \in rows', r # q, StreamOf[r.event] = StreamOf[q.event]
               PROVE  r.sequence # q.sequence
    BY DEF Distinct
  <2>1. CASE r \in rows /\ q \in rows
    BY <2>1, <1>8 DEF Distinct
  <2>2. CASE r = row /\ q \in rows
    BY <2>2, <1>2, <1>1 DEF OfStream, Kept, EventRows
  <2>3. CASE q = row /\ r \in rows
    BY <2>3, <1>2, <1>1 DEF OfStream, Kept, EventRows
  <2> QED BY <2>1, <2>2, <2>3, <1>3
<1> QED BY <1>5, <1>6, <1>7, <1>8 DEF Kept

\* An append that begins is given a number above those reported before it.
LEMMA BeginsAfter ==
  ASSUME EventInv, NEW e \in Events, appends[e].phase = "new", NEW phase \in Phases \ {"new"},
         appends' = At(e, phase, NextSequence(StreamOf[e]))
  PROVE  AfterTheReported'
<1> DEFINE n == NextSequence(StreamOf[e])
<1>0. Kept(rows, appends)
  BY DEF EventInv, RowsKept
<1>1. n \in Nat /\ (\A r \in OfStream(StreamOf[e]) : r.sequence < n)
  BY <1>0, NextSequenceFollows DEF Streams
<1>2. /\ appends'[e].sequence = n
      /\ appends'[e].after = {d \in Done \cap Stored : StreamOf[d] = StreamOf[e]}
      /\ \A d \in Events : d # e => appends'[d] = appends[d]
  BY <1>1, AtIs
<1> HIDE DEF n
<1> SUFFICES ASSUME NEW f \in Events, NEW d \in appends'[f].after
             PROVE  /\ StreamOf[d] = StreamOf[f] /\ appends'[d].phase = "done"
                    /\ appends'[d].sequence < appends'[f].sequence
  BY DEF AfterTheReported
<1>3. CASE f = e
  <2>1. d \in Events /\ appends[d].phase = "done" /\ d \in Stored /\ StreamOf[d] = StreamOf[e]
    BY <1>2, <1>3 DEF Done
  <2>2. PICK r \in rows : r.event = d
    BY <2>1 DEF Stored
  <2>3. r \in OfStream(StreamOf[e]) /\ r.sequence = appends[d].sequence
    BY <2>1, <2>2, <1>0 DEF OfStream, Kept, Numbered
  <2> QED BY <2>1, <2>3, <1>1, <1>2, <1>3
<1>4. CASE f # e
  <2>1. d \in Events /\ StreamOf[d] = StreamOf[f] /\ appends[d].phase = "done"
        /\ appends[d].sequence < appends[f].sequence
    BY <1>2, <1>4 DEF EventInv, AfterTheReported, EventTypes
  <2> QED BY <2>1, <1>2, <1>4
<1> QED BY <1>3, <1>4

\* A step of an append under way keeps what came before it.
LEMMA GoesOnAfter ==
  ASSUME EventInv, NEW e \in Events, appends[e].phase \notin {"new", "done"}, NEW phase \in Phases,
         appends' = At(e, phase, appends[e].sequence)
  PROVE  AfterTheReported'
<1>1. appends[e].sequence \in Nat
  BY DEF EventInv, EventTypes
<1>2. /\ appends'[e].sequence = appends[e].sequence /\ appends'[e].after = appends[e].after
      /\ \A d \in Events : d # e => appends'[d] = appends[d]
  BY <1>1, AtIs
<1> SUFFICES ASSUME NEW f \in Events, NEW d \in appends'[f].after
             PROVE  /\ StreamOf[d] = StreamOf[f] /\ appends'[d].phase = "done"
                    /\ appends'[d].sequence < appends'[f].sequence
  BY DEF AfterTheReported
<1>3. d \in appends[f].after /\ appends'[f].sequence = appends[f].sequence
  BY <1>2
<1>4. d \in Events /\ StreamOf[d] = StreamOf[f] /\ appends[d].phase = "done"
      /\ appends[d].sequence < appends[f].sequence
  BY <1>3 DEF EventInv, AfterTheReported, EventTypes
<1> QED BY <1>2, <1>3, <1>4

\* The files of another store, or of a stream no append writes, stay as kept.
LEMMA FilesStay ==
  ASSUME EventInv, \A e \in Events : Unchanging(e), UNCHANGED streamFile
  PROVE  FilesKept'
<1> SUFFICES ASSUME NEW s \in Streams, streamFile[s] # {TornFile}
             PROVE  FileKept(s, streamFile[s], appends')
  BY DEF FilesKept
<1>1. FileKept(s, streamFile[s], appends)
  BY DEF EventInv, FilesKept
<1>2. Kept(streamFile[s], appends')
  BY <1>1, KeptStays DEF EventInv, FileKept
<1> QED BY <1>1, <1>2 DEF FileKept

\* What an append stores is what the stores held, and its event.
LEMMA StoredGrows ==
  ASSUME NEW e, NEW n, rows' = rows \cup {[event |-> e, sequence |-> n]}
  PROVE  Stored' = Stored \cup {e}
<1> DEFINE row == [event |-> e, sequence |-> n]
<1>1. rows' = rows \cup {row} /\ row.event = e
  OBVIOUS
<1> HIDE DEF row
<1> QED BY <1>1 DEF Stored

\* In memory, in SQLite, and in the memory of the flat files.
LEMMA AtOnceKeeps ==
  ASSUME EventInv, NEW e \in Events, AppendAtOnce(e), eventBackend \in {"inmem", "sqlite"}
  PROVE  EventInv'
<1>1. appends[e].phase = "new" /\ Kept(rows, appends) /\ NextSequence(StreamOf[e]) \in Nat
      /\ appends' = At(e, "done", NextSequence(StreamOf[e]))
      /\ rows' = rows \cup {[event |-> e, sequence |-> NextSequence(StreamOf[e])]}
      /\ UNCHANGED <<eventBackend, streamFile, indexed, eventFaults>>
  BY NextSequenceFollows DEF Streams, AppendAtOnce, EventInv, RowsKept
<1>2. /\ appends' \in [Events -> [phase : Phases, sequence : Nat, after : SUBSET Events]]
      /\ appends'[e].phase = "done"
      /\ \A d \in Events : d # e => appends'[d] = appends[d]
  BY <1>1, AtIs DEF Phases
<1>3. EventTypes'
  BY <1>1, <1>2 DEF EventInv, EventTypes
<1>4. RowsKept'
  BY <1>1, NextIsKept DEF RowsKept, EventInv, Distinct, Phases
<1>5. \A d \in Events : Unchanging(d)
  BY <1>1, <1>2 DEF Unchanging
<1>6. FilesKept'
  BY <1>1, <1>5, FilesStay
<1>7. AfterTheReported'
  BY <1>1, BeginsAfter DEF Phases
<1>8. AskedNumbersFollow'
  BY <1>1, <1>2 DEF AskedNumbersFollow, EventInv, OfStream
<1>9. ReportedIsStored'
  <2>1. Stored' = Stored \cup {e}
    BY <1>1, StoredGrows
  <2>2. Stored \subseteq Events
    BY <1>1 DEF Stored, Kept, EventRows
  <2>3. \A d \in Stored : appends[d].phase # "failed"
    BY DEF ReportedIsStored, EventInv
  <2> QED BY <1>1, <1>2, <2>1, <2>2, <2>3 DEF ReportedIsStored, EventInv
<1> QED BY <1>3, <1>4, <1>6, <1>7, <1>8, <1>9 DEF EventInv

\* A flat file is written as a whole, or left torn.
LEMMA ToFileKeeps ==
  ASSUME EventInv, NEW e \in Events, AppendToFile(e), eventBackend = "flat_file"
  PROVE  EventInv'
<1> DEFINE s == StreamOf[e]
           whole == {r \in rows' : StreamOf[r.event] = s}
<1>1. PICK phase \in {"done", "failed"} :
      /\ appends[e].phase = "new" /\ Kept(rows, appends) /\ NextSequence(s) \in Nat
      /\ appends' = At(e, phase, NextSequence(s))
      /\ rows' = rows \cup {[event |-> e, sequence |-> NextSequence(s)]}
      /\ UNCHANGED <<eventBackend, indexed>>
      /\ \/ streamFile' = [streamFile EXCEPT ![s] = whole] /\ UNCHANGED eventFaults
         \/ UNCHANGED streamFile /\ eventFaults' = eventFaults + 1
  BY NextSequenceFollows DEF Streams, AppendToFile, EventInv, RowsKept
<1>2. /\ appends' \in [Events -> [phase : Phases, sequence : Nat, after : SUBSET Events]]
      /\ appends'[e].phase = phase
      /\ \A d \in Events : d # e => appends'[d] = appends[d]
  BY <1>1, AtIs DEF Phases
<1>3. EventTypes'
  BY <1>1, <1>2 DEF EventInv, EventTypes
<1>4. RowsKept' /\ Kept(rows', appends') /\ Distinct(rows')
  <2>1. Distinct(rows)
    BY DEF EventInv, RowsKept
  <2> QED BY <1>1, <2>1, NextIsKept DEF RowsKept, Distinct, Phases
<1>5. \A d \in Events : Unchanging(d)
  BY <1>1, <1>2 DEF Unchanging
<1>6. FilesKept'
  <2>1. CASE UNCHANGED streamFile
    BY <2>1, <1>5, FilesStay
  <2>2. CASE streamFile' = [streamFile EXCEPT ![s] = whole]
    <3>1. FiniteStreams(whole) /\ whole \subseteq EventRows /\ Numbered(whole, appends')
      <4>1. \A t \in Streams : InStream(whole, t) \subseteq InStream(rows', t)
        BY DEF InStream
      <4>2. FiniteStreams(whole)
        BY <1>4, <4>1, FS_Subset DEF Kept, FiniteStreams
      <4> QED BY <1>4, <4>2 DEF Kept, Numbered
    <3>2. Gapless(whole) /\ Distinct(whole) /\ \A r \in whole : StreamOf[r.event] = s
      BY <1>4 DEF Kept, Gapless, Distinct
    <3>3. FileKept(s, whole, appends')
      BY <3>1, <3>2 DEF Kept, FileKept
    <3> SUFFICES ASSUME NEW t \in Streams, streamFile'[t] # {TornFile}
                 PROVE  FileKept(t, streamFile'[t], appends')
      BY DEF FilesKept
    <3>4. CASE t = s
      <4>1. streamFile'[t] = whole
        BY <2>2, <3>4 DEF EventInv, EventTypes
      <4> QED BY <3>3, <3>4, <4>1
    <3>5. CASE t # s
      <4>1. streamFile'[t] = streamFile[t]
        BY <2>2, <3>5 DEF EventInv, EventTypes
      <4>2. FileKept(t, streamFile[t], appends)
        BY <4>1 DEF EventInv, FilesKept
      <4>3. Kept(streamFile[t], appends')
        BY <1>5, <4>2, KeptStays DEF EventInv, FileKept
      <4> QED BY <4>1, <4>2, <4>3 DEF FileKept
    <3> QED BY <3>4, <3>5
  <2> QED BY <1>1, <2>1, <2>2
<1>7. AfterTheReported'
  BY <1>1, BeginsAfter DEF Phases
<1>8. AskedNumbersFollow'
  BY <1>1, <1>2 DEF AskedNumbersFollow, EventInv, OfStream
<1>9. ReportedIsStored'
  <2>1. Stored' = Stored \cup {e}
    BY <1>1, StoredGrows
  <2> QED BY <1>1, <1>2, <2>1 DEF ReportedIsStored, EventInv, EventTypes
<1> QED BY <1>3, <1>4, <1>6, <1>7, <1>8, <1>9 DEF EventInv

\* PostgreSQL and MongoDB ask for the last number of the stream.
LEMMA ReadKeeps ==
  ASSUME EventInv, NEW e \in Events, ReadSequence(e) PROVE EventInv'
<1>1. appends[e].phase = "new" /\ Kept(rows, appends) /\ NextSequence(StreamOf[e]) \in Nat
      /\ appends' = At(e, "insert", NextSequence(StreamOf[e]))
      /\ UNCHANGED <<eventBackend, rows, streamFile, indexed, eventFaults>>
  BY NextSequenceFollows DEF Streams, ReadSequence, EventInv, RowsKept
<1>2. /\ appends' \in [Events -> [phase : Phases, sequence : Nat, after : SUBSET Events]]
      /\ appends'[e].phase = "insert" /\ appends'[e].sequence = NextSequence(StreamOf[e])
      /\ \A d \in Events : d # e => appends'[d] = appends[d]
  BY <1>1, AtIs DEF Phases
<1>3. EventTypes'
  BY <1>1, <1>2 DEF EventInv, EventTypes
<1>4. \A d \in Events : Unchanging(d)
  BY <1>1, <1>2 DEF Unchanging
<1>5. RowsKept'
  BY <1>1, <1>4, KeptStays DEF RowsKept, EventInv, Distinct
<1>6. FilesKept'
  BY <1>1, <1>4, FilesStay
<1>7. AfterTheReported'
  BY <1>1, BeginsAfter DEF Phases
<1>8. AskedNumbersFollow'
  <2>1. \A n \in Nat : n < NextSequence(StreamOf[e]) => \E q \in OfStream(StreamOf[e]) : q.sequence = n
    BY <1>1, NextSequenceFollows DEF Streams
  <2>2. \A s : OfStream(s)' = OfStream(s)
    BY <1>1 DEF OfStream
  <2> QED BY <1>1, <1>2, <2>1, <2>2 DEF AskedNumbersFollow, EventInv
<1>9. ReportedIsStored'
  <2>1. Stored' = Stored /\ Stored \subseteq Events
    BY <1>1 DEF Stored, Kept, EventRows
  <2>2. Distinct(rows)' <=> Distinct(rows)
    BY <1>1 DEF Distinct
  <2> QED BY <1>1, <1>2, <2>1, <2>2 DEF ReportedIsStored, EventInv
<1> QED BY <1>3, <1>5, <1>6, <1>7, <1>8, <1>9 DEF EventInv

\* The insert, which the key of a table or of the collection may refuse.
LEMMA InsertKeeps ==
  ASSUME EventInv, NEW e \in Events, NEW next \in {"done", "index"}, Insert(e, next),
         \/ eventBackend = "postgres"
         \/ eventBackend = "mongodb"
  PROVE  EventInv'
<1> DEFINE n == appends[e].sequence
           row == [event |-> e, sequence |-> n]
<1>1. PICK phase \in {"done", "index", "failed"} :
      /\ appends[e].phase = "insert" /\ Kept(rows, appends) /\ n \in Nat
      /\ appends' = At(e, phase, n)
      /\ UNCHANGED <<eventBackend, streamFile, indexed, eventFaults>>
      /\ \/ phase # "failed" /\ rows' = rows \cup {row}
            /\ (eventBackend = "postgres" \/ indexed => Distinct(rows'))
         \/ phase = "failed" /\ rows' = rows
  BY DEF Insert, MayInsert, OnConflict, EventInv, RowsKept, EventTypes
<1>2. /\ appends' \in [Events -> [phase : Phases, sequence : Nat, after : SUBSET Events]]
      /\ appends'[e].phase = phase /\ appends'[e].sequence = n
      /\ \A d \in Events : d # e => appends'[d] = appends[d]
  BY <1>1, AtIs DEF Phases
<1>3. EventTypes'
  BY <1>1, <1>2 DEF EventInv, EventTypes
<1>4. \A d \in Events : Unchanging(d)
  BY <1>1, <1>2 DEF Unchanging
<1>5. Kept(rows, appends')
  BY <1>1, <1>4, KeptStays DEF EventInv
<1>6. \A m \in 0..n : m < n => \E q \in OfStream(StreamOf[e]) : q.sequence = m
  BY <1>1 DEF EventInv, AskedNumbersFollow
<1>7. Kept(rows', appends')
  <2>1. CASE rows' = rows
    BY <2>1, <1>5
  <2>2. CASE rows' = rows \cup {row}
    <3>1. row \in EventRows /\ row.event = e /\ row.sequence = n
      BY <1>1 DEF EventRows
    <3> HIDE DEF row
    <3>2. FiniteStreams(rows') /\ rows' \subseteq EventRows
      BY <1>5, <2>2, <3>1, FiniteStreamsGrow DEF Kept
    <3>3. Numbered(rows', appends')
      BY <1>1, <1>2, <1>5, <2>2, <3>1 DEF Kept, Numbered
    <3>4. Gapless(rows')
      <4> SUFFICES ASSUME NEW r \in rows', NEW m \in 0..r.sequence
                   PROVE  \E q \in rows' : StreamOf[q.event] = StreamOf[r.event] /\ q.sequence = m
        BY DEF Gapless
      <4>1. CASE r \in rows
        BY <1>5, <2>2, <4>1 DEF Kept, Gapless
      <4>2. CASE r = row /\ m < n
        BY <1>6, <2>2, <3>1, <4>2 DEF OfStream
      <4>3. CASE r = row /\ m = n
        BY <2>2, <3>1, <4>3
      <4> QED BY <1>1, <2>2, <3>1, <4>1, <4>2, <4>3
    <3> QED BY <3>2, <3>3, <3>4 DEF Kept
  <2> QED BY <1>1, <2>1, <2>2
<1>8. RowsKept'
  <2>1. Distinct(rows') => Distinct(rows)'
    OBVIOUS
  <2> QED BY <1>1, <1>7 DEF RowsKept, EventInv, Distinct
<1>9. FilesKept'
  BY <1>1, <1>4, FilesStay
<1>10. AfterTheReported'
  BY <1>1, GoesOnAfter DEF Phases
<1>11. AskedNumbersFollow'
  <2>1. \A s : OfStream(s) \subseteq OfStream(s)'
    BY <1>1 DEF OfStream
  <2> QED BY <1>1, <1>2, <2>1 DEF AskedNumbersFollow, EventInv
<1>12. ReportedIsStored'
  <2>1. Stored \subseteq Events /\ Stored \subseteq Stored' /\ Stored' \subseteq Stored \cup {e}
    BY <1>1, StoredGrows DEF Stored, Kept, EventRows
  <2>2. Distinct(rows') => Distinct(rows)
    BY <1>1 DEF Distinct
  <2>3. e \notin Stored
    BY <1>1 DEF Stored, Kept, Numbered
  <2>4. CASE phase # "failed"
    <3>1. e \in Stored'
      BY <1>1, <2>4, StoredGrows
    <3> QED BY <1>1, <1>2, <2>1, <2>2, <2>4, <3>1 DEF ReportedIsStored, EventInv
  <2>5. CASE phase = "failed"
    <3>1. Stored' = Stored
      BY <1>1, <2>5 DEF Stored
    <3> QED BY <1>1, <1>2, <2>1, <2>2, <2>3, <2>5, <3>1 DEF ReportedIsStored, EventInv
  <2> QED BY <2>4, <2>5
<1> QED BY <1>3, <1>8, <1>9, <1>10, <1>11, <1>12 DEF EventInv

\* MongoDB builds its index after the first event, and refuses to when two
\* events bear one number by then.
LEMMA IndexKeeps ==
  ASSUME EventInv, NEW e \in Events, CreateIndex(e), eventBackend = "mongodb" PROVE EventInv'
<1> DEFINE n == appends[e].sequence
<1>1. PICK phase \in {"done", "failed"} :
      /\ appends[e].phase = "index" /\ Kept(rows, appends) /\ n \in Nat
      /\ appends' = At(e, phase, n) /\ (phase = "failed" => ~Distinct(rows))
      /\ indexed' = Distinct(rows)
      /\ UNCHANGED <<eventBackend, rows, streamFile, eventFaults>>
  BY DEF CreateIndex, EventInv, RowsKept, EventTypes
<1>2. /\ appends' \in [Events -> [phase : Phases, sequence : Nat, after : SUBSET Events]]
      /\ appends'[e].phase = phase /\ appends'[e].sequence = n
      /\ \A d \in Events : d # e => appends'[d] = appends[d]
  BY <1>1, AtIs DEF Phases
<1>3. EventTypes'
  BY <1>1, <1>2 DEF EventInv, EventTypes
<1>4. \A d \in Events : Unchanging(d)
  BY <1>1, <1>2 DEF Unchanging
<1>5. Distinct(rows)' <=> Distinct(rows)
  BY <1>1 DEF Distinct
<1>6. RowsKept'
  BY <1>1, <1>4, <1>5, KeptStays DEF RowsKept, EventInv
<1>7. FilesKept'
  BY <1>1, <1>4, FilesStay
<1>8. AfterTheReported'
  BY <1>1, GoesOnAfter DEF Phases
<1>9. AskedNumbersFollow'
  BY <1>1, <1>2 DEF AskedNumbersFollow, EventInv, OfStream
<1>10. ReportedIsStored'
  <2>1. Stored' = Stored /\ Stored \subseteq Events
    BY <1>1 DEF Stored, Kept, EventRows
  <2> QED BY <1>1, <1>2, <1>5, <2>1 DEF ReportedIsStored, EventInv
<1> QED BY <1>3, <1>6, <1>7, <1>8, <1>9, <1>10 DEF EventInv

\* Started anew, a store holds what it held on disk.
LEMMA RestartKeeps == ASSUME EventInv, RestartEvents PROVE EventInv'
<1>1. eventFaults' = eventFaults + 1 /\ eventFaults \in Nat /\ UNCHANGED <<eventBackend, indexed>>
  BY DEF RestartEvents, EventInv, EventTypes
<1>2. /\ appends' \in [Events -> [phase : Phases, sequence : Nat, after : SUBSET Events]]
      /\ \A d \in Events : /\ appends'[d].sequence = appends[d].sequence /\ appends'[d].after = appends[d].after
                           /\ \/ appends'[d].phase = appends[d].phase /\ appends[d].phase # "insert"
                              \/ appends'[d].phase = "stopped" /\ appends[d].phase \in {"insert", "index"}
  BY DEF RestartEvents, EventInv, EventTypes, Phases
<1>3. \A d \in Events : Unchanging(d)
  BY <1>2 DEF Unchanging
<1>4. FilesKept' /\ DOMAIN streamFile' = Streams
  <2>1. CASE UNCHANGED streamFile
    BY <2>1, <1>3, FilesStay DEF EventInv, EventTypes
  <2>2. CASE \E s \in Streams : streamFile' = [streamFile EXCEPT ![s] = {TornFile}]
    <3>1. \A t \in Streams : streamFile'[t] = {TornFile} \/ streamFile'[t] = streamFile[t]
      BY <2>2 DEF EventInv, EventTypes
    <3> SUFFICES ASSUME NEW t \in Streams, streamFile'[t] # {TornFile}
                 PROVE  FileKept(t, streamFile'[t], appends')
      BY <2>2 DEF FilesKept, EventInv, EventTypes
    <3>2. streamFile'[t] = streamFile[t] /\ FileKept(t, streamFile[t], appends)
      BY <3>1 DEF EventInv, FilesKept
    <3>3. Kept(streamFile[t], appends')
      BY <3>2, <1>3, KeptStays DEF EventInv, FileKept
    <3> QED BY <3>2, <3>3 DEF FileKept
  <2> QED BY <2>1, <2>2 DEF RestartEvents
<1>5. EventTypes'
  BY <1>1, <1>2, <1>4 DEF EventTypes
<1>6. RowsKept'
  <2>1. CASE eventBackend = "inmem"
    <3>1. rows' = {}
      BY <2>1 DEF RestartEvents
    <3>2. FiniteStreams({})
      BY FS_EmptySet DEF FiniteStreams, InStream
    <3> QED BY <3>1, <3>2 DEF RowsKept, Kept, Numbered, Gapless, Distinct
  <2>2. CASE eventBackend = "flat_file"
    <3>1. rows' = LoadedStreams'
      BY <2>2 DEF RestartEvents
    <3>2. \A r \in rows' : \E s \in Streams : FileKept(s, streamFile'[s], appends') /\ r \in streamFile'[s]
                                              /\ streamFile'[s] \subseteq rows'
      BY <3>1, <1>4 DEF LoadedStreams, FilesKept
    <3>3. rows' \subseteq EventRows /\ Numbered(rows', appends') /\ Gapless(rows')
      BY <3>2 DEF FileKept, Kept, Numbered, Gapless
    <3>4. Distinct(rows')
      <4> SUFFICES ASSUME NEW r \in rows', NEW q \in rows', r # q, StreamOf[r.event] = StreamOf[q.event]
                   PROVE  r.sequence # q.sequence
        BY DEF Distinct
      <4>1. PICK s \in Streams : FileKept(s, streamFile'[s], appends') /\ r \in streamFile'[s]
        BY <3>2
      <4>2. PICK t \in Streams : FileKept(t, streamFile'[t], appends') /\ q \in streamFile'[t]
        BY <3>2
      <4>3. s = t
        BY <4>1, <4>2 DEF FileKept
      <4> QED BY <4>1, <4>2, <4>3 DEF FileKept, Distinct
    <3>5. FiniteStreams(rows')
      <4> SUFFICES ASSUME NEW s \in Streams PROVE IsFiniteSet(InStream(rows', s))
        BY DEF FiniteStreams
      <4>1. CASE InStream(rows', s) = {}
        BY <4>1, FS_EmptySet
      <4>2. CASE InStream(rows', s) # {}
        <5>1. PICK r \in rows' : StreamOf[r.event] = s
          BY <4>2 DEF InStream
        <5>2. FileKept(s, streamFile'[s], appends') /\ InStream(rows', s) = InStream(streamFile'[s], s)
          BY <3>2, <5>1 DEF FileKept, InStream
        <5> QED BY <5>2 DEF FileKept, Kept, FiniteStreams
      <4> QED BY <4>1, <4>2
    <3> QED BY <3>3, <3>4, <3>5 DEF RowsKept, Kept, Distinct
  <2>3. CASE eventBackend \notin {"inmem", "flat_file"}
    <3>1. rows' = rows
      BY <2>3 DEF RestartEvents
    <3> QED BY <3>1, <1>1, <1>3, KeptStays DEF RowsKept, EventInv, Distinct
  <2> QED BY <2>1, <2>2, <2>3
<1>7. AfterTheReported'
  BY <1>2 DEF AfterTheReported, EventInv, EventTypes
<1>8. AskedNumbersFollow'
  BY <1>2 DEF AskedNumbersFollow
<1>9. ReportedIsStored'
  <2>1. CASE eventBackend \in {"inmem", "flat_file"}
    <3>1. eventFaults' # 0
      BY <1>1
    <3>2. eventBackend = "inmem" => Stored' = {}
      BY DEF RestartEvents, Stored
    <3> QED BY <1>1, <2>1, <3>1, <3>2 DEF ReportedIsStored
  <2>2. CASE eventBackend \notin {"inmem", "flat_file"}
    <3>1. rows' = rows /\ Stored' = Stored /\ (Distinct(rows)' <=> Distinct(rows)) /\ Stored \subseteq Events
      BY <2>2 DEF RestartEvents, Stored, Distinct, EventInv, RowsKept, Kept, EventRows
    <3>2. \A d \in Events : appends'[d].phase \in {"done", "index"} => appends[d].phase \in {"done", "index"}
      BY <1>2
    <3>3. \A d \in Events : appends'[d].phase = "failed" => appends[d].phase = "failed"
      BY <1>2
    <3>4. \A d \in Events : appends[d].phase \in {"done", "index"} => d \in Stored
      BY <2>2 DEF ReportedIsStored, EventInv
    <3>5. \A d \in Stored' : appends'[d].phase = "failed" => eventBackend' = "mongodb" /\ ~Distinct(rows)'
      BY <1>1, <2>2, <3>1, <3>3 DEF ReportedIsStored, EventInv
    <3> QED BY <1>1, <2>2, <3>1, <3>2, <3>4, <3>5 DEF ReportedIsStored
  <2> QED BY <2>1, <2>2
<1> QED BY <1>4, <1>5, <1>6, <1>7, <1>8, <1>9 DEF EventInv

\* What the stores hold between two steps, as long as the program runs.
LEMMA EventsHold == EventsSpec => []EventInv
<1>1. EventsInit(EventBackends) => EventInv
  BY EventsInitial
<1>2. EventInv /\ [EventsNext]_eventVars => EventInv'
  <2> SUFFICES ASSUME EventInv, [EventsNext]_eventVars PROVE EventInv'
    OBVIOUS
  <2>1. CASE InMemoryAppend
    BY <2>1, AtOnceKeeps DEF InMemoryAppend
  <2>2. CASE FlatFileAppend
    BY <2>2, ToFileKeeps DEF FlatFileAppend
  <2>3. CASE SqliteAppend
    BY <2>3, AtOnceKeeps DEF SqliteAppend
  <2>4. CASE PostgresAppend
    BY <2>4, ReadKeeps, InsertKeeps DEF PostgresAppend
  <2>5. CASE MongodbAppend
    BY <2>5, ReadKeeps, InsertKeeps, IndexKeeps DEF MongodbAppend
  <2>6. CASE RestartEvents
    BY <2>6, RestartKeeps
  <2>7. CASE UNCHANGED eventVars
    <3>1. \A s : OfStream(s)' = OfStream(s)
      BY <2>7 DEF eventVars, OfStream
    <3>2. \A e \in Events : Unchanging(e)
      BY <2>7 DEF eventVars, Unchanging
    <3> QED BY <2>7, <3>1, <3>2 DEF eventVars, EventInv, EventTypes, RowsKept, FilesKept, FileKept, Kept, FiniteStreams,
         InStream, Numbered, Gapless, Distinct, AfterTheReported, AskedNumbersFollow, ReportedIsStored, Stored
  <2> QED BY <2>1, <2>2, <2>3, <2>4, <2>5, <2>6, <2>7 DEF EventsNext
<1> QED BY <1>1, <1>2, PTL DEF EventsSpec

\* Events are numbered from 0 without gaps, and in the order they were
\* reported in, in every store but a MongoDB collection without its index.
THEOREM EventsAreNumbered == EventsSpec => []StreamsAreNumbered
<1>1. EventInv => StreamsAreNumbered
  <2> SUFFICES ASSUME EventInv PROVE StreamsAreNumbered
    OBVIOUS
  <2>1. Kept(rows, appends)
    BY DEF EventInv, RowsKept
  <2>2. ASSUME NEW s \in Streams, NEW r \in OfStream(s), NEW n \in 0..r.sequence
        PROVE  \E q \in OfStream(s) : q.sequence = n
    BY <2>1, <2>2 DEF OfStream, Kept, Gapless
  <2>3. ASSUME NEW r \in rows, NEW q \in rows, q.event \in appends[r.event].after
        PROVE  q.sequence < r.sequence
    BY <2>1, <2>3 DEF Kept, Numbered, EventRows, EventInv, AfterTheReported
  <2> QED BY <2>2, <2>3 DEF StreamsAreNumbered, EventInv, RowsKept
<1> QED BY <1>1, EventsHold, PTL

\* A store has what it reported as stored, and nothing of what it reported as
\* failed but for the failures that come after the event is kept.
THEOREM ReportsAreOfTheLog == EventsSpec => []LogIsAsReported
<1>1. EventInv => LogIsAsReported
  BY DEF EventInv, RowsKept, ReportedIsStored, LogIsAsReported, Done
<1> QED BY <1>1, EventsHold, PTL

----------------------------------------------------------------------------
(* The repositories of node records.                                       *)

NodeRows == [uuid : Uuids, body : Bodies, content : Contents \cup {None}]
NodeCallsOpen == [uuid : Uuids, body : Bodies \cup {None}]

\* toObjectId may give two uuids one identifier: what is proved of MongoDB is
\* proved of uuids that it tells apart.
KeysAreDistinct == "mongodb" \in NodeBackends =>
    \A u, v \in Uuids : ObjectIdOf[u] = ObjectIdOf[v] => u = v

NodeTypes ==
    /\ nodeBackend \in NodeBackends /\ open \in BOOLEAN
    /\ held \in [Keys -> NodeRows \cup {None}]
    /\ nodeCalls \in [Callers -> NodeCallsOpen \cup {Idle}]
    /\ acked \in [Uuids -> Bodies \cup {None}]
    /\ nodeBackend = "flat_file" /\ open => file \in [Keys -> NodeRows \cup {None}]

\* What a table says of a node.
BodyIn(table, u) == IF table[Key(u)] = None THEN None ELSE table[Key(u)].body

\* The file of a repository that can be opened answers as memory does.
FileIsAcked == nodeBackend = "flat_file" /\ open =>
    \A u \in Uuids \ doubt : acked[u] = BodyIn(file, u)

NodeInv == NodeTypes /\ ReportedIsHeld /\ FileIsAcked

\* The rows of a table are found by keys.
LEMMA KeysOfUuids == \A u \in Uuids : Key(u) \in Keys
BY DEF Key, Keys

\* Different nodes have different keys.
LEMMA KeyIsInjective ==
  ASSUME KeysAreDistinct, NodeTypes, NEW u \in Uuids, NEW v \in Uuids, u # v
  PROVE  Key(u) # Key(v)
BY DEF Key, KeysAreDistinct, NodeTypes

\* A row of a node, and the row with another body or content, are rows.
LEMMA RowsAreRows ==
  ASSUME NEW u \in Uuids, NEW body \in Bodies
  PROVE  /\ Row(u, body) \in NodeRows /\ Row(u, body) # None /\ Row(u, body).body = body
         /\ \A row \in NodeRows : /\ Replaced(row, u, body) \in NodeRows /\ Replaced(row, u, body) # None
                                  /\ Replaced(row, u, body).body = body
<1>1. None \notin NodeRows
  BY NoRecordAssumption DEF NodeRows
<1>2. Row(u, body) \in NodeRows /\ Row(u, body).body = body
  BY DEF Row, NodeRows
<1>3. ASSUME NEW row \in NodeRows
      PROVE  Replaced(row, u, body) \in NodeRows /\ Replaced(row, u, body).body = body
  BY DEF Replaced, NodeRows
<1> QED BY <1>1, <1>2, <1>3

\* The repositories begin empty.
LEMMA NodesInitial == NodesInit(NodeBackends) => NodeInv
<1> SUFFICES ASSUME NodesInit(NodeBackends) PROVE NodeInv
  OBVIOUS
<1>1. NodeTypes
  BY DEF NodesInit, NodeTypes
<1>2. \A u \in Uuids : ~Found(u) /\ BodyIn(file, u) = None
  BY KeysOfUuids DEF NodesInit, Found, BodyIn
<1> QED BY <1>1, <1>2 DEF NodeInv, ReportedIsHeld, FileIsAcked, NodesInit

\* What is said of the nodes depends on the backend for the key alone.
LEMMA HeldIs ==
  ASSUME UNCHANGED nodeBackend
  PROVE  (\A u \in Uuids \ doubt : acked[u] = IF Found(u) THEN held[Key(u)].body ELSE None)'
         <=> \A u \in Uuids \ doubt' : acked'[u] = BodyIn(held', u)
BY DEF Found, BodyIn, Key

\* A change of one row, of which the node's new body is reported, or which
\* leaves the node in doubt.
LEMMA RowChangeIsHeld ==
  ASSUME KeysAreDistinct, NodeInv, NEW u \in Uuids, NEW row \in NodeRows \cup {None},
         open, UNCHANGED <<nodeBackend, open>>,
         held' = [held EXCEPT ![Key(u)] = row],
         \/ acked' = [acked EXCEPT ![u] = IF row = None THEN None ELSE row.body] /\ doubt' = doubt \ {u}
         \/ UNCHANGED acked /\ doubt' = doubt \cup {u}
  PROVE  /\ held' \in [Keys -> NodeRows \cup {None}] /\ acked' \in [Uuids -> Bodies \cup {None}]
         /\ ReportedIsHeld'
<1>1. Key(u) \in Keys
  BY KeysOfUuids
<1>2. held' \in [Keys -> NodeRows \cup {None}]
  BY <1>1 DEF NodeInv, NodeTypes
<1>3. row # None => row.body \in Bodies
  BY DEF NodeRows
<1>4. acked' \in [Uuids -> Bodies \cup {None}]
  BY <1>3 DEF NodeInv, NodeTypes
<1>5. \A v \in Uuids \ doubt' : acked'[v] = BodyIn(held', v)
  <2> SUFFICES ASSUME NEW v \in Uuids \ doubt' PROVE acked'[v] = BodyIn(held', v)
    OBVIOUS
  <2>1. CASE v = u
    <3>1. held'[Key(u)] = row
      BY <1>1 DEF NodeInv, NodeTypes
    <3> QED BY <2>1, <3>1 DEF BodyIn, NodeInv, NodeTypes
  <2>2. CASE v # u
    <3>1. held'[Key(v)] = held[Key(v)]
      BY <2>2, <1>1, KeyIsInjective, KeysOfUuids DEF NodeInv, NodeTypes
    <3>2. acked'[v] = acked[v] /\ v \notin doubt
      BY <2>2 DEF NodeInv, NodeTypes
    <3>3. acked[v] = BodyIn(held, v)
      BY <3>2 DEF NodeInv, ReportedIsHeld, BodyIn, Found
    <3> QED BY <3>1, <3>2, <3>3 DEF BodyIn
  <2> QED BY <2>1, <2>2
<1> QED BY <1>2, <1>4, <1>5, HeldIs DEF ReportedIsHeld

\* The file has the bodies of what is saved.
LEMMA SavedBodies ==
  ASSUME NEW table \in [Keys -> NodeRows \cup {None}]
  PROVE  /\ Saved(table) \in [Keys -> NodeRows \cup {None}]
         /\ \A u \in Uuids : BodyIn(Saved(table), u) = BodyIn(table, u)
<1>1. \A row \in NodeRows : [row EXCEPT !.content = None] \in NodeRows
        /\ [row EXCEPT !.content = None] # None /\ [row EXCEPT !.content = None].body = row.body
  BY NoRecordAssumption DEF NodeRows
<1>2. \A k \in Keys : Saved(table)[k] = IF table[k] = None THEN None ELSE [table[k] EXCEPT !.content = None]
  BY DEF Saved
<1>3. Saved(table) \in [Keys -> NodeRows \cup {None}]
  BY <1>1 DEF Saved
<1> QED BY <1>1, <1>2, <1>3, KeysOfUuids DEF BodyIn

\* The calls of the in-process repositories.
LEMMA StoreKeeps ==
  ASSUME KeysAreDistinct, NodeInv, open, NEW u \in Uuids, NEW row \in NodeRows \cup {None}, InProcess,
         Store([held EXCEPT ![u] = row], u, IF row = None THEN None ELSE row.body), UNCHANGED nodeCalls
  PROVE  NodeInv'
<1> DEFINE table == [held EXCEPT ![u] = row]
<1>1. Key(u) = u
  BY DEF InProcess, Key
<1>2. held' = [held EXCEPT ![Key(u)] = row] /\ held' = table /\ UNCHANGED <<nodeBackend, open>>
  BY <1>1 DEF Store
<1>3. \/ acked' = [acked EXCEPT ![u] = IF row = None THEN None ELSE row.body] /\ doubt' = doubt \ {u}
      \/ UNCHANGED acked /\ doubt' = doubt \cup {u}
  BY DEF Store, Sure, Unsure
<1>4. /\ held' \in [Keys -> NodeRows \cup {None}] /\ acked' \in [Uuids -> Bodies \cup {None}]
      /\ ReportedIsHeld'
  BY <1>2, <1>3, RowChangeIsHeld
<1>5. ASSUME nodeBackend = "flat_file"
      PROVE  file' \in [Keys -> NodeRows \cup {None}]
             /\ \A v \in Uuids \ doubt' : acked'[v] = BodyIn(file', v)
  <2>1. CASE file' = Saved(table)
    <3>1. file' \in [Keys -> NodeRows \cup {None}] /\ \A v \in Uuids : BodyIn(file', v) = BodyIn(held', v)
      BY <1>2, <1>4, <2>1, SavedBodies
    <3>2. \A v \in Uuids \ doubt' : acked'[v] = BodyIn(held', v)
      BY <1>2, <1>4, HeldIs DEF ReportedIsHeld
    <3> QED BY <3>1, <3>2
  <2>2. CASE UNCHANGED <<file, acked>> /\ doubt' = doubt \cup {u}
    BY <1>5, <2>2 DEF NodeInv, NodeTypes, FileIsAcked
  <2> QED BY <1>5, <2>1, <2>2 DEF Store, Unsure
<1>6. NodeTypes'
  BY <1>2, <1>4, <1>5 DEF NodeInv, NodeTypes
<1>7. FileIsAcked'
  BY <1>2, <1>5 DEF FileIsAcked, BodyIn, Key
<1> QED BY <1>4, <1>6, <1>7 DEF NodeInv

\* A call of an in-process repository.
LEMMA InMemoryKeeps ==
  ASSUME KeysAreDistinct, NodeInv, open, InMemoryCalls PROVE NodeInv'
<1>1. PICK u \in Uuids : DeleteInMemory(u) \/ \E body \in Bodies : AddInMemory(u, body) \/ UpdateInMemory(u, body)
  BY DEF InMemoryCalls
<1>2. InProcess /\ Key(u) = u
  BY DEF InMemoryCalls, InProcess, Key
<1>3. CASE DeleteInMemory(u)
  BY <1>2, <1>3, StoreKeeps DEF DeleteInMemory
<1>4. ASSUME NEW body \in Bodies, AddInMemory(u, body) PROVE NodeInv'
  BY <1>2, <1>4, StoreKeeps, RowsAreRows DEF AddInMemory
<1>5. ASSUME NEW body \in Bodies, UpdateInMemory(u, body) PROVE NodeInv'
  <2> DEFINE row == IF Found(u) THEN Replaced(held[u], u, body) ELSE Row(u, body)
  <2>1. held[u] \in NodeRows \cup {None} /\ (Found(u) => held[u] \in NodeRows)
    BY <1>2, KeysOfUuids DEF NodeInv, NodeTypes, Found
  <2>2. row \in NodeRows /\ row # None /\ row.body = body
    BY <2>1, RowsAreRows
  <2>3. Store([held EXCEPT ![u] = row], u, body) /\ UNCHANGED nodeCalls
    BY <1>5 DEF UpdateInMemory
  <2> HIDE DEF row
  <2> QED BY <1>2, <2>2, <2>3, StoreKeeps
<1> QED BY <1>1, <1>3, <1>4, <1>5

\* The calls of the databases, each a query or the second of two.
LEMMA DatabaseKeeps ==
  ASSUME KeysAreDistinct, NodeInv, open, ~InProcess, DatabaseCalls PROVE NodeInv'
<1>0. nodeBackend # "flat_file"
  BY DEF InProcess
<1>1. ASSUME NEW u \in Uuids, NEW row \in NodeRows \cup {None},
             held' = [held EXCEPT ![Key(u)] = row],
             acked' = [acked EXCEPT ![u] = IF row = None THEN None ELSE row.body], Sure(u),
             nodeCalls' \in [Callers -> NodeCallsOpen \cup {Idle}], UNCHANGED <<nodeBackend, open>>
      PROVE  NodeInv'
  <2>1. /\ held' \in [Keys -> NodeRows \cup {None}] /\ acked' \in [Uuids -> Bodies \cup {None}]
        /\ ReportedIsHeld'
    BY <1>1, RowChangeIsHeld DEF Sure
  <2> QED BY <1>0, <1>1, <2>1 DEF NodeInv, NodeTypes, FileIsAcked
<1>2. ASSUME NEW u \in Uuids, NEW body \in Bodies, AddRow(u, body) PROVE NodeInv'
  BY <1>1, <1>2, RowsAreRows DEF AddRow, NodeInv, NodeTypes
<1>3. ASSUME NEW c \in Callers, NEW u \in Uuids, NEW body \in Bodies \cup {None}, BeginChange(c, u, body)
      PROVE  NodeInv'
  <2>1. [uuid |-> u, body |-> body] \in NodeCallsOpen
    BY DEF NodeCallsOpen
  <2>2. NodeTypes'
    BY <1>3, <2>1 DEF BeginChange, NodeInv, NodeTypes
  <2> QED BY <1>3, <2>2 DEF BeginChange, NodeInv, ReportedIsHeld, FileIsAcked, Found, Key, BodyIn
<1>4. ASSUME NEW c \in Callers, UpdateRow(c) PROVE NodeInv'
  <2> DEFINE u == nodeCalls[c].uuid
             body == nodeCalls[c].body
  <2>1. u \in Uuids /\ body \in Bodies
    BY <1>4 DEF UpdateRow, NodeInv, NodeTypes, NodeCallsOpen
  <2>2. nodeCalls' \in [Callers -> NodeCallsOpen \cup {Idle}]
    BY <1>4 DEF UpdateRow, NodeInv, NodeTypes
  <2>3. CASE Found(u)
    <3> DEFINE row == Replaced(held[Key(u)], u, body)
    <3>1. held[Key(u)] \in NodeRows
      BY <2>1, <2>3, KeysOfUuids DEF Found, NodeInv, NodeTypes
    <3>2. row \in NodeRows /\ row # None /\ row.body = body
      BY <2>1, <3>1, RowsAreRows
    <3>3. held' = [held EXCEPT ![Key(u)] = row] /\ acked' = [acked EXCEPT ![u] = body] /\ Sure(u)
          /\ UNCHANGED <<nodeBackend, open>>
      BY <1>4, <2>3 DEF UpdateRow, Updated
    <3> HIDE DEF row, u, body
    <3> QED BY <1>1, <2>1, <2>2, <3>2, <3>3
  <2>4. CASE ~Found(u)
    <3>1. /\ UNCHANGED <<held, nodeBackend, open>> /\ acked' = [acked EXCEPT ![u] = body]
          /\ doubt' = doubt \cup {u}
      BY <1>4, <2>4 DEF UpdateRow, Updated, Unsure
    <3>2. NodeTypes'
      BY <1>0, <2>1, <2>2, <3>1 DEF NodeInv, NodeTypes
    <3>3. ReportedIsHeld'
      BY <2>1, <3>1 DEF NodeInv, NodeTypes, ReportedIsHeld, Found, Key
    <3> QED BY <1>0, <3>1, <3>2, <3>3 DEF NodeInv, FileIsAcked
  <2> QED BY <2>3, <2>4
<1>5. ASSUME NEW c \in Callers, DeleteRow(c) PROVE NodeInv'
  <2> DEFINE u == nodeCalls[c].uuid
  <2>1. u \in Uuids
    BY <1>5 DEF DeleteRow, NodeInv, NodeTypes, NodeCallsOpen
  <2>2. nodeCalls' \in [Callers -> NodeCallsOpen \cup {Idle}]
    BY <1>5 DEF DeleteRow, NodeInv, NodeTypes
  <2>3. held' = [held EXCEPT ![Key(u)] = None] /\ acked' = [acked EXCEPT ![u] = None] /\ Sure(u)
        /\ UNCHANGED <<nodeBackend, open>>
    BY <1>5 DEF DeleteRow
  <2> HIDE DEF u
  <2> QED BY <1>1, <2>1, <2>2, <2>3
<1> QED BY <1>2, <1>3, <1>4, <1>5 DEF DatabaseCalls

\* An embedding says nothing of a node's body.
LEMMA ContentKeeps ==
  ASSUME KeysAreDistinct, NodeInv, open, NEW u \in Uuids, NEW content \in Contents \cup {None}, PutContent(u, content)
  PROVE  NodeInv'
<1> DEFINE row == [held[Key(u)] EXCEPT !.content = content]
<1>1. held[Key(u)] \in NodeRows /\ Key(u) \in Keys
  BY KeysOfUuids DEF PutContent, Found, NodeInv, NodeTypes
<1>2. row \in NodeRows /\ row # None /\ row.body = held[Key(u)].body
  BY <1>1, NoRecordAssumption DEF NodeRows
<1>3. held' = [held EXCEPT ![Key(u)] = row]
  BY DEF PutContent
<1> HIDE DEF row
<1>4. held' \in [Keys -> NodeRows \cup {None}]
  BY <1>1, <1>2, <1>3 DEF NodeInv, NodeTypes
<1>5. \A v \in Uuids : BodyIn(held', v) = BodyIn(held, v)
  BY <1>1, <1>2, <1>3, NoRecordAssumption, KeysOfUuids DEF BodyIn, NodeInv, NodeTypes, NodeRows
<1>6. UNCHANGED <<nodeBackend, file, open, nodeCalls, acked, doubt>>
  BY DEF PutContent
<1>7. \A v \in Uuids \ doubt : acked[v] = BodyIn(held, v)
  BY DEF NodeInv, ReportedIsHeld, BodyIn, Found
<1>8. ReportedIsHeld'
  BY <1>5, <1>6, <1>7, HeldIs DEF ReportedIsHeld
<1> QED BY <1>4, <1>6, <1>8 DEF NodeInv, NodeTypes, FileIsAcked, BodyIn, Key

\* Memory begins anew; a file is loaded, or the repository stays closed.
LEMMA RestartNodesKeeps == ASSUME NodeInv, RestartNodes PROVE NodeInv'
<1>1. open /\ UNCHANGED <<nodeBackend, file, open, doubt>> /\ nodeCalls' \in [Callers -> NodeCallsOpen \cup {Idle}]
  BY DEF RestartNodes
<1>2. CASE nodeBackend = "inmem"
  <2>1. held' = [k \in Keys |-> None] /\ acked' = [u \in Uuids |-> None]
    BY <1>2 DEF RestartNodes, Loaded
  <2>2. \A u \in Uuids : BodyIn(held', u) = None
    BY <2>1, KeysOfUuids DEF BodyIn
  <2>3. ReportedIsHeld'
    BY <1>1, <2>1, <2>2, HeldIs DEF ReportedIsHeld
  <2> QED BY <1>1, <1>2, <2>1, <2>3 DEF NodeInv, NodeTypes, FileIsAcked
<1>3. CASE nodeBackend = "flat_file"
  <2>1. held' = file /\ acked' = acked
    BY <1>3 DEF RestartNodes, Loaded
  <2>2. \A u \in Uuids \ doubt : acked[u] = BodyIn(file, u)
    BY <1>1, <1>3 DEF NodeInv, FileIsAcked
  <2>3. ReportedIsHeld'
    BY <1>1, <2>1, <2>2, HeldIs DEF ReportedIsHeld
  <2> QED BY <1>1, <1>3, <2>1, <2>3 DEF NodeInv, NodeTypes, FileIsAcked, BodyIn, Key
<1>4. CASE nodeBackend \notin {"inmem", "flat_file"}
  <2>1. held' = held /\ acked' = acked
    BY <1>4 DEF RestartNodes, Loaded
  <2> QED BY <1>1, <1>4, <2>1 DEF NodeInv, NodeTypes, FileIsAcked, ReportedIsHeld, Found, Key
<1> QED BY <1>2, <1>3, <1>4

\* Each step of the repositories, and of what stops and starts them.
LEMMA NodeStepKeeps ==
  ASSUME KeysAreDistinct, NodeInv, [NodesNext]_nodeVars PROVE NodeInv'
<1>1. CASE open /\ InMemoryCalls
  BY <1>1, InMemoryKeeps
<1>2. CASE open /\ (SqliteCalls \/ PostgresCalls \/ MongodbCalls)
  BY <1>2, DatabaseKeeps DEF SqliteCalls, PostgresCalls, MongodbCalls, InProcess
<1>3. CASE open /\ EmbeddingCalls
  BY <1>3, ContentKeeps DEF EmbeddingCalls, UpsertEmbedding, DeleteEmbedding
<1>4. CASE RestartNodes
  BY <1>4, RestartNodesKeeps
<1>5. CASE StopWhileSaving
  BY <1>5 DEF StopWhileSaving, NodeInv, NodeTypes, ReportedIsHeld, FileIsAcked
<1>6. CASE UNCHANGED nodeVars
  BY <1>6 DEF nodeVars, NodeInv, NodeTypes, ReportedIsHeld, FileIsAcked, BodyIn, Found, Key
<1> QED BY <1>1, <1>2, <1>3, <1>4, <1>5, <1>6 DEF NodesNext

\* What was reported of a node is held, as long as the program runs.
LEMMA NodesHold == ASSUME KeysAreDistinct PROVE NodesSpec => []NodeInv
<1>1. NodeInv /\ [NodesNext]_nodeVars => NodeInv'
  BY NodeStepKeeps
<1> QED BY <1>1, NodesInitial, PTL DEF NodesSpec


\* A change of a node's body leaves what was embedded for it, in a database.
LEMMA EmbeddingStays ==
  ASSUME NodeTypes, [NodesNext]_nodeVars, ~InProcess,
         NEW k \in Embedded, held'[k] # None, held'[k].body # held[k].body
  PROVE  held'[k].content = held[k].content
<1>1. k \in Keys /\ held[k] \in NodeRows /\ held[k] # None /\ held[k].content # None
  BY DEF Embedded, NodeTypes
<1>2. ASSUME NEW u \in Uuids, NEW body, AddRow(u, body) PROVE FALSE
  BY <1>1, <1>2, KeysOfUuids DEF AddRow, Found, NodeTypes
<1>3. ASSUME NEW c \in Callers, UpdateRow(c) PROVE held'[k].content = held[k].content
  <2> DEFINE u == nodeCalls[c].uuid
             body == nodeCalls[c].body
  <2>1. CASE Found(u)
    <3>1. held' = [held EXCEPT ![Key(u)] = Replaced(held[Key(u)], u, body)]
      BY <1>3, <2>1 DEF UpdateRow, Updated
    <3>2. CASE Key(u) = k
      <4>1. held'[k] = Replaced(held[k], u, body)
        BY <3>1, <3>2, <1>1 DEF NodeTypes
      <4> QED BY <1>1, <4>1 DEF Replaced, NodeRows
    <3>3. CASE Key(u) # k
      BY <3>1, <3>3, <1>1 DEF NodeTypes
    <3> QED BY <3>2, <3>3
  <2>2. CASE ~Found(u)
    BY <1>3, <2>2 DEF UpdateRow, Updated
  <2> QED BY <2>1, <2>2
<1>4. ASSUME NEW c \in Callers, DeleteRow(c) PROVE FALSE
  BY <1>1, <1>4 DEF DeleteRow, NodeTypes
<1>5. ASSUME NEW u \in Uuids, NEW content, PutContent(u, content) PROVE FALSE
  <2>1. held' = [held EXCEPT ![Key(u)] = [held[Key(u)] EXCEPT !.content = content]]
    BY <1>5 DEF PutContent
  <2>2. CASE Key(u) = k
    <3>1. held'[k] = [held[k] EXCEPT !.content = content]
      BY <2>1, <2>2, <1>1 DEF NodeTypes
    <3> QED BY <1>1, <3>1 DEF NodeRows
  <2>3. CASE Key(u) # k
    BY <2>1, <2>3, <1>1 DEF NodeTypes
  <2> QED BY <2>2, <2>3
<1>6. CASE held' = held
  BY <1>6
<1>7. CASE InMemoryCalls \/ StopWhileSaving
  BY <1>7 DEF InMemoryCalls, StopWhileSaving, InProcess
<1>8. CASE RestartNodes
  BY <1>6, <1>8 DEF RestartNodes, Loaded, InProcess
<1>9. CASE DatabaseCalls
  BY <1>2, <1>3, <1>4, <1>6, <1>9 DEF DatabaseCalls, BeginChange
<1>10. CASE EmbeddingCalls
  BY <1>5, <1>10 DEF EmbeddingCalls, UpsertEmbedding, DeleteEmbedding
<1> QED BY <1>6, <1>7, <1>8, <1>9, <1>10 DEF NodesNext, nodeVars, SqliteCalls, PostgresCalls, MongodbCalls

\* The types need no key to be one node's.
LEMMA NodeTypesStay == NodeTypes /\ [NodesNext]_nodeVars => NodeTypes'
<1> SUFFICES ASSUME NodeTypes, [NodesNext]_nodeVars PROVE NodeTypes'
  OBVIOUS
<1>1. ASSUME NEW u \in Uuids, NEW row \in NodeRows \cup {None}, NEW k \in Keys
      PROVE  [held EXCEPT ![k] = row] \in [Keys -> NodeRows \cup {None}]
  BY DEF NodeTypes
<1>2. ASSUME NEW table \in [Keys -> NodeRows \cup {None}], NEW u \in Uuids, NEW body \in Bodies \cup {None},
             Store(table, u, body), UNCHANGED nodeCalls
      PROVE  NodeTypes'
  BY <1>2, SavedBodies DEF Store, NodeTypes
<1>3. CASE InMemoryCalls
  <2>1. PICK u \in Uuids : DeleteInMemory(u) \/ \E body \in Bodies : AddInMemory(u, body) \/ UpdateInMemory(u, body)
    BY <1>3 DEF InMemoryCalls
  <2>2. u \in Keys
    BY DEF Keys
  <2>3. CASE DeleteInMemory(u)
    BY <1>1, <1>2, <2>2, <2>3 DEF DeleteInMemory
  <2>4. ASSUME NEW body \in Bodies, AddInMemory(u, body) PROVE NodeTypes'
    BY <1>1, <1>2, <2>2, <2>4, RowsAreRows DEF AddInMemory
  <2>5. ASSUME NEW body \in Bodies, UpdateInMemory(u, body) PROVE NodeTypes'
    <3> DEFINE row == IF Found(u) THEN Replaced(held[u], u, body) ELSE Row(u, body)
    <3>1. row \in NodeRows
      BY <1>3, <2>2, RowsAreRows DEF NodeTypes, Found, Key, InMemoryCalls, InProcess
    <3>2. Store([held EXCEPT ![u] = row], u, body) /\ UNCHANGED nodeCalls
      BY <2>5 DEF UpdateInMemory
    <3> HIDE DEF row
    <3> QED BY <1>1, <1>2, <2>2, <3>1, <3>2
  <2> QED BY <2>1, <2>3, <2>4, <2>5
<1>4. CASE ~InProcess /\ DatabaseCalls
  <2>0. nodeBackend # "flat_file"
    BY <1>4 DEF InProcess
  <2>1. ASSUME NEW u \in Uuids, NEW body \in Bodies, AddRow(u, body) PROVE NodeTypes'
    BY <1>1, <2>0, <2>1, KeysOfUuids, RowsAreRows DEF AddRow, NodeTypes
  <2>2. ASSUME NEW c \in Callers, NEW u \in Uuids, NEW body \in Bodies \cup {None}, BeginChange(c, u, body)
        PROVE  NodeTypes'
    <3>1. [uuid |-> u, body |-> body] \in NodeCallsOpen
      BY DEF NodeCallsOpen
    <3> QED BY <2>2, <3>1 DEF BeginChange, NodeTypes
  <2>3. ASSUME NEW c \in Callers, UpdateRow(c) PROVE NodeTypes'
    <3>1. PICK u \in Uuids, body \in Bodies : nodeCalls[c].uuid = u /\ nodeCalls[c].body = body
      BY <2>3 DEF UpdateRow, NodeTypes, NodeCallsOpen
    <3>2. Updated(u, body) \in [Keys -> NodeRows \cup {None}]
      <4>1. Key(u) \in Keys /\ (Found(u) => held[Key(u)] \in NodeRows)
        BY KeysOfUuids DEF Found, NodeTypes
      <4> QED BY <1>1, <4>1, RowsAreRows DEF Updated, NodeTypes
    <3> QED BY <2>0, <2>3, <3>1, <3>2 DEF UpdateRow, NodeTypes
  <2>4. ASSUME NEW c \in Callers, DeleteRow(c) PROVE NodeTypes'
    <3>1. PICK u \in Uuids : nodeCalls[c].uuid = u
      BY <2>4 DEF DeleteRow, NodeTypes, NodeCallsOpen
    <3> QED BY <1>1, <2>0, <2>4, <3>1, KeysOfUuids DEF DeleteRow, NodeTypes
  <2> QED BY <1>4, <2>1, <2>2, <2>3, <2>4 DEF DatabaseCalls
<1>5. ASSUME NEW u \in Uuids, NEW content \in Contents \cup {None}, PutContent(u, content) PROVE NodeTypes'
  <2>1. held[Key(u)] \in NodeRows /\ Key(u) \in Keys
    BY <1>5, KeysOfUuids DEF PutContent, Found, NodeTypes
  <2>2. [held[Key(u)] EXCEPT !.content = content] \in NodeRows
    BY <2>1 DEF NodeRows
  <2> QED BY <1>1, <1>5, <2>1, <2>2 DEF PutContent, NodeTypes
<1>6. CASE RestartNodes
  BY <1>6 DEF RestartNodes, Loaded, NodeTypes
<1>7. CASE StopWhileSaving
  BY <1>7 DEF StopWhileSaving, NodeTypes
<1>8. CASE UNCHANGED nodeVars
  BY <1>8 DEF nodeVars, NodeTypes
<1> QED BY <1>3, <1>4, <1>5, <1>6, <1>7, <1>8 DEF NodesNext, SqliteCalls, PostgresCalls, MongodbCalls,
     InProcess, EmbeddingCalls, UpsertEmbedding, DeleteEmbedding

\* In a database no write of a node's record takes its text from the search.
THEOREM WritesKeepEmbeddings == NodesSpec => EmbeddingKept
<1>1. NodesInit(NodeBackends) => NodeTypes
  BY NodesInitial DEF NodeInv
<1>2. NodeTypes /\ [NodesNext]_nodeVars =>
        [\A k \in Embedded : held'[k] # None /\ held'[k].body # held[k].body /\ ~InProcess
           => held'[k].content = held[k].content]_nodeVars
  BY EmbeddingStays
<1> QED BY <1>1, <1>2, NodeTypesStay, PTL DEF NodesSpec, EmbeddingKept


\* One word is in a text where it is the whole of a phrase, and only there.
LEMMA OneWordIsAPhrase ==
  ASSUME NEW a \in Seq(STRING), NEW b \in Seq(STRING), Len(b) = 1, a # Undefined
  PROVE  Matches(a, b) <=> Phrase(a, b)
<1>1. DOMAIN b = {1} /\ DOMAIN a = 1..Len(a) /\ Len(a) \in Nat
  OBVIOUS
<1>2. Matches(a, b) <=> \E i \in 1..Len(a) : a[i] = b[1]
  <2>1. ASSUME Matches(a, b) PROVE \E i \in 1..Len(a) : a[i] = b[1]
    BY <1>1, <2>1 DEF Matches
  <2>2. ASSUME NEW i \in 1..Len(a), a[i] = b[1] PROVE Matches(a, b)
    <3>1. [j \in {1} |-> i] \in [DOMAIN b -> DOMAIN a]
      BY <1>1
    <3>2. \A j, k \in DOMAIN b : a[[l \in {1} |-> i][j]] = b[j] /\ ~(j < k)
      BY <1>1, <2>2
    <3> QED BY <3>1, <3>2 DEF Matches
  <2> QED BY <2>1, <2>2
<1>3. ASSUME NEW i \in 0..(Len(a) - 1)
      PROVE  SubSeq(a, i + 1, i + 1) = b <=> a[i + 1] = b[1]
  <2>1. i + 1 \in 1..Len(a)
    BY <1>1
  <2>2. SubSeq(a, i + 1, i + 1) \in Seq(STRING) /\ Len(SubSeq(a, i + 1, i + 1)) = 1
        /\ SubSeq(a, i + 1, i + 1)[1] = a[i + 1]
    BY <1>1, <2>1
  <2>3. SubSeq(a, i + 1, i + 1)[1] = b[1] => SubSeq(a, i + 1, i + 1) = b
    <3> DEFINE s == SubSeq(a, i + 1, i + 1)
    <3> HIDE DEF s
    <3>1. s \in Seq(STRING) /\ Len(s) = 1 /\ DOMAIN s = 1..1 /\ DOMAIN b = 1..1
      BY <2>2 DEF s
    <3>2. s[1] = b[1] => s = b
      BY <3>1
    <3> QED BY <3>2 DEF s
  <2> QED BY <2>2, <2>3
<1>4. Phrase(a, b) <=> \E i \in 0..(Len(a) - 1) : a[i + 1] = b[1]
  BY <1>3 DEF Phrase
<1>5. \A i \in 1..Len(a) : i - 1 \in 0..(Len(a) - 1) /\ (i - 1) + 1 = i
  BY <1>1
<1>6. \A i \in 0..(Len(a) - 1) : i + 1 \in 1..Len(a)
  BY <1>1
<1> QED BY <1>2, <1>4, <1>5, <1>6

\* A clause of each database is true of what the reference accepts.
LEMMA PortableClausesAgree ==
  ASSUME NEW f, NEW body \in Bodies, Portable(f, body), f = F(f.field, f.op, f.value), f.value # Undefined,
         f.op \in ARRAY_VALUE_OPERATORS => Undefined \notin f.value,
         f.op = "match" => f.value \in Seq(STRING) /\ Value(body, f) \in Seq(STRING) \cup {Undefined}
  PROVE  /\ ~SqliteRefuses(Normalized(f)) /\ ~PostgresRefuses(Normalized(f)) /\ ~MongoRefuses(f)
         /\ TRUE \in SqliteClause(Normalized(f), Value(body, Normalized(f))) <=> SatisfiesFilter(body, f)
         /\ TRUE \in PostgresClause(Normalized(f), Value(body, Normalized(f))) <=> SatisfiesFilter(body, f)
         /\ MongoClause(f, Value(body, f)) <=> SatisfiesFilter(body, f)
         /\ Normalized(f) = f
<1> DEFINE a == Value(body, f)
           accepts == FilterFn(f.op, a, f.value)
<1>1. Normalized(f) = f
  <2>1. [f EXCEPT !.field = f.field] = f
    BY DEF F
  <2> QED BY <2>1 DEF Normalized, Portable
<1>2. f.op \in {"contains-none", "contains-all", "contains-any", "not-contains",
                "not-in", "contains", "match", "==", "<=", ">=", "!=", "in", "<", ">"}
  BY DEF Portable, OPERATORS, ToSet
<1>3. SatisfiesFilter(body, f) <=> accepts
  <2>1. f.at = FALSE
    BY DEF F
  <2> QED BY <2>1 DEF SatisfiesFilter, Value
<1>4. ~SqliteRefuses(f) /\ ~PostgresRefuses(f) /\ ~MongoRefuses(f)
  BY DEF Portable, SqliteRefuses, PostgresRefuses, MongoRefuses, ARRAY_VALUE_OPERATORS
<1>5. f.op = "contains-none" => (f.value \cap Items(a) = {} <=> ~(f.value \subseteq Items(a))) /\ f.value # {}
  BY DEF Portable
<1>6. f.op = "match" /\ a # Undefined => (Matches(a, f.value) <=> Phrase(a, f.value))
  BY OneWordIsAPhrase DEF Portable
<1>7. Matches(a, f.value) \in BOOLEAN /\ Phrase(a, f.value) \in BOOLEAN /\ (a = Undefined => ~Matches(a, f.value))
  BY DEF Matches, Phrase
<1>8. f.op \in {"in", "not-in", "contains-all", "contains-any"} => f.value # {}
  BY DEF Portable, ARRAY_VALUE_OPERATORS
<1> HIDE DEF a
<1>9. a = Undefined => f.op \notin {"!=", "not-in", "not-contains", "contains-none"}
  BY DEF Portable, a
<1>10. f.field \in Numeric => f.op # "!="
  BY DEF Portable
<1>11. TRUE \in SqliteClause(f, a) <=> accepts
  <2> DEFINE ok == TRUE \in SqliteClause(f, a) <=> accepts
  <2> USE <1>5, <1>6, <1>8, <1>9, <1>7 DEF SqliteClause, FilterFn, Comparisons, Items, Ordered
  <2>1. f.op = "==" => ok
    OBVIOUS
  <2>2. f.op = "!=" => ok
    OBVIOUS
  <2>3. f.op \in {"<=", ">=", "<", ">"} => ok
    OBVIOUS
  <2>4. f.op = "in" => ok
    BY DEF ARRAY_VALUE_OPERATORS
  <2>5. f.op = "not-in" => ok
    OBVIOUS
  <2>6. f.op \in {"contains", "not-contains"} => ok
    OBVIOUS
  <2>7. f.op \in {"contains-all", "contains-any"} => ok
    OBVIOUS
  <2>8. f.op = "contains-none" => ok
    OBVIOUS
  <2>9. f.op = "match" => ok
    <3> SUFFICES ASSUME f.op = "match" PROVE ok
      OBVIOUS
    <3>1. CASE a = Undefined
      <4>1. ~Matches(a, f.value)
        BY <1>7, <3>1
      <4>2. ~accepts
        BY ONLY <4>1, f.op = "match" DEF FilterFn
      <4>3. SqliteClause(f, a) = {}
        BY ONLY <3>1, f.op = "match" DEF SqliteClause
      <4> QED BY ONLY <4>2, <4>3
    <3>2. CASE a # Undefined
      <4>1. Matches(a, f.value) <=> Phrase(a, f.value)
        BY <3>2
      <4>2. accepts <=> Phrase(a, f.value)
        BY ONLY <4>1, f.op = "match" DEF FilterFn
      <4>3. (TRUE \in {Phrase(a, f.value)}) <=> Phrase(a, f.value)
        BY ONLY <1>7
      <4>4. SqliteClause(f, a) = {Phrase(a, f.value)}
        BY ONLY <3>2, f.op = "match" DEF SqliteClause, Comparisons
      <4> QED BY ONLY <4>2, <4>3, <4>4
    <3> QED BY <3>1, <3>2
  <2> QED BY ONLY <1>2, <2>1, <2>2, <2>3, <2>4, <2>5, <2>6, <2>7, <2>8, <2>9
<1>12. TRUE \in PostgresClause(f, a) <=> accepts
  <2> DEFINE ok == TRUE \in PostgresClause(f, a) <=> accepts
  <2>0. f.op \in ToSet(OPERATORS)
    BY DEF Portable
  <2> USE <1>5, <1>6, <1>8, <1>9, <1>10, <1>7, <2>0 DEF PostgresClause, FilterFn, Items, Ordered
  <2>1. f.op = "==" => ok
    OBVIOUS
  <2>2. f.op = "!=" => ok
    OBVIOUS
  <2>3. f.op \in {"<=", ">=", "<", ">"} => ok
    OBVIOUS
  <2>4. f.op = "in" => ok
    BY DEF ARRAY_VALUE_OPERATORS
  <2>5. f.op = "not-in" => ok
    OBVIOUS
  <2>6. f.op \in {"contains", "not-contains"} => ok
    OBVIOUS
  <2>7. f.op \in {"contains-all", "contains-any"} => ok
    OBVIOUS
  <2>8. f.op = "contains-none" => ok
    OBVIOUS
  <2>9. f.op = "match" => ok
    <3> SUFFICES ASSUME f.op = "match" PROVE ok
      OBVIOUS
    <3>1. CASE a = Undefined
      <4>1. ~Matches(a, f.value)
        BY <1>7, <3>1
      <4>2. ~accepts
        BY ONLY <4>1, f.op = "match" DEF FilterFn
      <4>3. PostgresClause(f, a) = {}
        BY ONLY <2>0, <3>1, f.op = "match" DEF PostgresClause
      <4> QED BY ONLY <4>2, <4>3
    <3>2. CASE a # Undefined
      <4>1. Matches(a, f.value) <=> Phrase(a, f.value)
        BY <3>2
      <4>2. accepts <=> Phrase(a, f.value)
        BY ONLY <4>1, f.op = "match" DEF FilterFn
      <4>3. (TRUE \in {Phrase(a, f.value)}) <=> Phrase(a, f.value)
        BY ONLY <1>7
      <4>4. PostgresClause(f, a) = {Phrase(a, f.value)}
        BY ONLY <2>0, <3>2, f.op = "match" DEF PostgresClause
      <4> QED BY ONLY <4>2, <4>3, <4>4
    <3> QED BY <3>1, <3>2
  <2> QED BY ONLY <1>2, <2>1, <2>2, <2>3, <2>4, <2>5, <2>6, <2>7, <2>8, <2>9
<1>13. MongoClause(f, a) <=> accepts
  BY <1>2, <1>5, <1>6, <1>8, <1>9 DEF MongoClause, FilterFn, Items, Ordered, Matches
<1> QED BY <1>1, <1>3, <1>4, <1>11, <1>12, <1>13 DEF a


\* So do the queries made of the clauses.
LEMMA PortableQueriesAgree ==
  ASSUME NEW filters \in Queries, NEW body \in Bodies, NEW backend \in NodeBackends,
         \A group \in filters : group # {} /\ \A f \in group : Portable(f, body)
  PROVE  FoundBy(backend, filters, body) <=> ReferenceFound(filters, body)
<1> DEFINE all == UNION filters
<1>1. \A f \in all : Portable(f, body) /\ f \in UNION UNION Queries
  OBVIOUS
<1>2. \A f \in all :
        /\ ~SqliteRefuses(Normalized(f)) /\ ~PostgresRefuses(Normalized(f)) /\ ~MongoRefuses(f)
        /\ TRUE \in SqliteClause(Normalized(f), Value(body, Normalized(f))) <=> SatisfiesFilter(body, f)
        /\ TRUE \in PostgresClause(Normalized(f), Value(body, Normalized(f))) <=> SatisfiesFilter(body, f)
        /\ MongoClause(f, Value(body, f)) <=> SatisfiesFilter(body, f)
        /\ Normalized(f) = f
  <2> TAKE f \in all
  <2>1. /\ f = F(f.field, f.op, f.value) /\ f.value # Undefined
        /\ f.op \in ARRAY_VALUE_OPERATORS => Undefined \notin f.value
        /\ f.op = "match" => f.value \in Seq(STRING) /\ Value(body, f) \in Seq(STRING) \cup {Undefined}
    BY <1>1, QueriesAssumption
  <2> QED BY <1>1, <2>1, PortableClausesAgree
<1>3. {} \notin filters
  OBVIOUS
<1>4. ReferenceFound(filters, body) <=>
        filters = {} \/ \E group \in filters : \A f \in group : SatisfiesFilter(body, f)
  <2>1. ASSUME NEW group \in filters PROVE {Normalized(f) : f \in group} = group
    <3>1. \A f \in group : Normalized(f) = f
      BY <1>2
    <3> QED BY ONLY <3>1
  <2>2. {{Normalized(f) : f \in group} : group \in filters} = filters
    <3> DEFINE normalized(group) == {Normalized(f) : f \in group}
    <3>1. \A group \in filters : normalized(group) = group
      BY <2>1
    <3> SUFFICES {normalized(group) : group \in filters} = filters
      OBVIOUS
    <3> HIDE DEF normalized
    <3> QED BY ONLY <3>1
  <2> QED BY <2>2 DEF ReferenceFound, SatisfiedBy
<1>5. SqliteFound(filters, body) <=>
        filters = {} \/ \E group \in filters : \A f \in group : SatisfiesFilter(body, f)
  BY <1>2, <1>3 DEF SqliteFound, SqlFound
<1>6. PostgresFound(filters, body) <=>
        filters = {} \/ \E group \in filters : \A f \in group : SatisfiesFilter(body, f)
  BY <1>2, <1>3 DEF PostgresFound, SqlFound
<1>7. MongoFound(filters, body) <=>
        filters = {} \/ \E group \in filters : \A f \in group : SatisfiesFilter(body, f)
  BY <1>2, <1>3 DEF MongoFound
<1> QED BY <1>4, <1>5, <1>6, <1>7, NodeBackendsAssumption DEF FoundBy

\* A portable search finds the same nodes in every deployment.
THEOREM PortableSearches == NodesSpec => []PortableFiltersAgree
<1>1. NodesInit(NodeBackends) => NodeTypes
  BY NodesInitial DEF NodeInv
<1>2. NodeTypes => PortableFiltersAgree
  <2> SUFFICES ASSUME NodeTypes, NEW filters \in Queries, NEW k \in Keys, held[k] # None,
                      \A group \in filters : group # {} /\ \A f \in group : Portable(f, held[k].body)
               PROVE  k \in Answer(filters) <=> ReferenceFound(filters, held[k].body)
    BY DEF PortableFiltersAgree
  <2>1. held[k].body \in Bodies /\ nodeBackend \in NodeBackends
    BY DEF NodeTypes, NodeRows
  <2> QED BY <2>1, PortableQueriesAgree DEF Answer
<1> QED BY <1>1, <1>2, NodeTypesStay, PTL DEF NodesSpec

----------------------------------------------------------------------------
(* The repositories of configuration records.                              *)

ConfigTypes ==
    /\ records \in [ConfigKeys -> Records \cup {NoRecord}]
    /\ lastSaved \in [ConfigKeys -> ConfigData \cup {NoRecord}]
    /\ deleting \in [ConfigCallers -> ConfigKeys \cup {NoCall}]

ConfigInv == ConfigTypes /\ LastSavedIsRead

\* A record with the fields of an older one is a record.
LEMMA UpsertIsRecord ==
  ASSUME NEW data \in ConfigData, NEW old \in Records \cup {NoRecord}
  PROVE  /\ Upserted(old, data) \in Records
         /\ \A field \in DOMAIN data : Upserted(old, data)[field] = data[field]
         /\ configBackend # "mongodb" => Upserted(old, data) = data
<1>1. PICK fields \in SUBSET Fields : data \in [fields -> FieldValues]
  BY ConfigAssumption DEF Records
<1>2. CASE configBackend = "mongodb" /\ old # NoRecord
  <2>1. PICK older \in SUBSET Fields : old \in [older -> FieldValues]
    BY <1>2 DEF Records
  <2>2. Over(data, old) = [x \in fields \cup older |-> IF x \in fields THEN data[x] ELSE old[x]]
    BY <1>1, <2>1 DEF Over
  <2>3. Over(data, old) \in [fields \cup older -> FieldValues]
    BY <1>1, <2>1, <2>2
  <2>4. fields \cup older \in SUBSET Fields
    BY <1>1, <2>1
  <2> QED BY <1>1, <1>2, <2>2, <2>3, <2>4 DEF Upserted, Records
<1>3. CASE ~(configBackend = "mongodb" /\ old # NoRecord)
  BY <1>3, ConfigAssumption DEF Upserted
<1> QED BY <1>2, <1>3

\* A deletion removes the record and reports that it did.
LEMMA RemovedKeeps ==
  ASSUME ConfigInv, NEW k \in ConfigKeys, Removed(k), deleting' \in [ConfigCallers -> ConfigKeys \cup {NoCall}]
  PROVE  ConfigInv'
BY DEF Removed, ConfigInv, ConfigTypes, LastSavedIsRead

\* A save that is reported is the row.
LEMMA SavedKeeps ==
  ASSUME ConfigInv, NEW k \in ConfigKeys, NEW data \in ConfigData, SaveRecord(k, data)
  PROVE  ConfigInv'
<1> DEFINE row == Upserted(records[k], data)
<1>1. /\ row \in Records /\ row # NoRecord /\ data # NoRecord
      /\ \A field \in DOMAIN data : row[field] = data[field]
      /\ configBackend # "mongodb" => row = data
  BY UpsertIsRecord, ConfigAssumption DEF ConfigInv, ConfigTypes
<1>2. records' = [records EXCEPT ![k] = row] /\ lastSaved' = [lastSaved EXCEPT ![k] = data]
      /\ UNCHANGED <<configBackend, deleting>>
  BY DEF SaveRecord
<1> HIDE DEF row
<1>3. ConfigTypes'
  BY <1>1, <1>2 DEF ConfigInv, ConfigTypes
<1>4. LastSavedIsRead'
  BY <1>1, <1>2 DEF ConfigInv, ConfigTypes, LastSavedIsRead
<1> QED BY <1>3, <1>4 DEF ConfigInv

\* What was reported of a record is held, as long as the program runs.
LEMMA ConfigHolds == ConfigSpec => []ConfigInv
<1>1. ConfigInit(ConfigBackends) => ConfigInv
  BY DEF ConfigInit, ConfigInv, ConfigTypes, LastSavedIsRead
<1>2. ConfigInv /\ [ConfigNext]_configVars => ConfigInv'
  <2> SUFFICES ASSUME ConfigInv, [ConfigNext]_configVars PROVE ConfigInv'
    OBVIOUS
  <2>1. ASSUME NEW k \in ConfigKeys, DeleteRecord(k) PROVE ConfigInv'
    BY <2>1, RemovedKeeps DEF DeleteRecord, ConfigInv, ConfigTypes
  <2>2. ASSUME NEW c \in ConfigCallers, DeleteFound(c) PROVE ConfigInv'
    BY <2>2, RemovedKeeps DEF DeleteFound, ConfigInv, ConfigTypes
  <2>3. ASSUME NEW c \in ConfigCallers, NEW k \in ConfigKeys, FindToDelete(c, k) PROVE ConfigInv'
    BY <2>3 DEF FindToDelete, ConfigInv, ConfigTypes, LastSavedIsRead
  <2>4. CASE RestartConfig
    BY <2>4 DEF RestartConfig, ConfigInv, ConfigTypes, LastSavedIsRead
  <2>5. CASE UNCHANGED configVars
    BY <2>5 DEF configVars, ConfigInv, ConfigTypes, LastSavedIsRead
  <2>6. CASE SaveOrDelete
    BY <2>1, <2>6, SavedKeeps DEF SaveOrDelete
  <2>7. CASE PostgresConfig
    BY <2>2, <2>3, <2>7, SavedKeeps DEF PostgresConfig
  <2> QED BY <2>4, <2>5, <2>6, <2>7 DEF ConfigNext, InMemoryConfig, SqliteConfig, MongodbConfig
<1> QED BY <1>1, <1>2, PTL DEF ConfigSpec

\* What either kind of repository reported is what it answers, whatever the
\* calls of the one and of the other do between.
THEOREM ReportsAreRead == ASSUME KeysAreDistinct PROVE NodesSpec /\ ConfigSpec => []SavedIsRead
<1>1. NodesSpec => []NodeInv
  BY NodesHold
<1>2. NodeInv /\ ConfigInv => SavedIsRead
  BY DEF NodeInv, ConfigInv, SavedIsRead
<1> QED BY <1>1, <1>2, ConfigHolds, PTL

----------------------------------------------------------------------------
(***************************************************************************)
(* The storages of file contents, for any number of callers, uuids and     *)
(* files.  A storage of one request is what was last reported (AtOnceInv). *)
(* A directory is it between the two writes of a call: the bytes are those *)
(* of the call that has its mimetype to write (DirectoryInv).  A drive is  *)
(* searched by uuid and changed by identifier, so what is needed is that   *)
(* a call still finds under its identifier the one file of its uuid        *)
(* (DriveHolds), which no other call, folder or new file can have changed  *)
(* (DriveTypes), and that a call is alone with its uuid while nothing has  *)
(* overlapped on it (Alone).                                               *)
(***************************************************************************)

Writable == Files \cup {NoFile}
Calls == [step : {"search", "read", "bytes", "type", "create", "place", "update", "trash"},
          uuid : FileUuids, file : Writable, id : Nat]
DriveFiles == [id : Nat, uuid : FileUuids \cup FolderUuids, file : Writable, place : Nat]

InCall(c, u) == steps[c] # NoStep /\ steps[c].uuid = u
InStep(c, u, set) == InCall(c, u) /\ steps[c].step \in set

StorageTypes ==
    /\ steps \in [StorageCallers -> Calls \cup {NoStep}]
    /\ bytes \in [FileUuids -> Writable] /\ types \in [FileUuids -> Writable]
    /\ lastWrite \in [FileUuids -> Writable]
    /\ driveIds \in Nat
    /\ storageBackend \in StorageBackends

\* A call on a uuid nothing overlapped on is its only one.
Alone == \A u \in FileUuids \ overlapped : \A c, d \in StorageCallers :
    InCall(c, u) /\ InCall(d, u) => c = d

\* In memory and in S3 a request changes the bytes and their type at once.
AtOnceInv == bytes = lastWrite /\ types = lastWrite

\* In a directory the type follows the bytes.
DirectoryInv == \A u \in FileUuids \ overlapped :
    /\ \A c \in StorageCallers : InCall(c, u) => steps[c].step \in {"bytes", "type"}
    /\ \A c \in StorageCallers : InStep(c, u, {"type"}) => bytes[u] = steps[c].file
    /\ (\A c \in StorageCallers : ~InStep(c, u, {"type"})) => bytes[u] = lastWrite[u] /\ types[u] = lastWrite[u]

\* A file of a drive keeps its identifier and its uuid, and a call that found
\* it changes it alone.
DriveTypes ==
    /\ drive \subseteq DriveFiles
    /\ \A f \in drive : f.id \in 1..driveIds
    /\ \A f, g \in drive : f.id = g.id => f = g
    /\ \A c \in StorageCallers : steps[c] # NoStep =>
         /\ steps[c].id \in 0..driveIds
         /\ steps[c].step \in {"search", "create", "place", "update", "trash"}
         /\ \A f \in drive : f.id = steps[c].id => f.uuid = steps[c].uuid

\* One file of the uuid, or none when there is nothing to be read.
OnlyFile(u, written) == IF written = NoFile THEN OnDrive(u) = {} ELSE \E f \in drive : OnDrive(u) = {f} /\ f.file = written

DriveHolds(u) ==
    /\ (\A c \in StorageCallers : ~InStep(c, u, {"place"})) => OnlyFile(u, lastWrite[u])
    /\ \A c \in StorageCallers :
         /\ InStep(c, u, {"place"}) => steps[c].file # NoFile /\ OnlyFile(u, steps[c].file)
         /\ InStep(c, u, {"create"}) => steps[c].file # NoFile /\ OnDrive(u) = {}
         /\ InStep(c, u, {"update", "trash"}) =>
              /\ \E f \in drive : OnDrive(u) = {f} /\ f.id = steps[c].id
              /\ steps[c].step = "trash" <=> steps[c].file = NoFile

DriveInv == DriveTypes /\ \A u \in FileUuids \ overlapped : DriveHolds(u)

StorageInv ==
    /\ StorageTypes /\ Alone
    /\ storageBackend \in {"inmem", "s3"} => AtOnceInv
    /\ storageBackend = "flat_file" => DirectoryInv
    /\ storageBackend = "google_drive" => DriveInv

\* The storages begin empty.
LEMMA StorageInitial == StorageInit(StorageBackends) => StorageInv
<1> SUFFICES ASSUME StorageInit(StorageBackends) PROVE StorageInv
  OBVIOUS
<1>1. StorageTypes /\ AtOnceInv /\ \A c \in StorageCallers : steps[c] = NoStep
  BY DEF StorageInit, StorageTypes, AtOnceInv, Writable
<1>2. Alone /\ DirectoryInv
  BY <1>1 DEF Alone, DirectoryInv, InCall, InStep, AtOnceInv
<1>3. DriveInv
  BY <1>1 DEF DriveInv, DriveHolds, DriveTypes, InCall, InStep, OnlyFile, OnDrive, StorageInit
<1> QED BY <1>1, <1>2, <1>3 DEF StorageInv

\* A call that goes on is where it went, and the others where they were.
LEMMA GotoIs ==
  ASSUME StorageTypes, NEW c \in StorageCallers, NEW u \in FileUuids, NEW written \in Writable, NEW id \in Nat,
         NEW step \in {"search", "read", "bytes", "type", "create", "place", "update", "trash"},
         Goto(c, step, u, written, id)
  PROVE  /\ steps' \in [StorageCallers -> Calls \cup {NoStep}]
         /\ steps'[c] # NoStep /\ steps'[c].uuid = u /\ steps'[c].step = step
         /\ steps'[c].file = written /\ steps'[c].id = id
         /\ \A d \in StorageCallers : d # c => steps'[d] = steps[d]
<1> DEFINE call == [step |-> step, uuid |-> u, file |-> written, id |-> id]
<1>1. call \in Calls /\ call # NoStep
  BY StorageAssumption DEF Calls, Writable
<1>2. steps' = [steps EXCEPT ![c] = call]
  BY DEF Goto
<1>3. call.uuid = u /\ call.step = step /\ call.file = written /\ call.id = id
  OBVIOUS
<1> HIDE DEF call
<1> QED BY <1>1, <1>2, <1>3 DEF StorageTypes

\* A call that ends, and the others where they were.
LEMMA EndIs ==
  ASSUME StorageTypes, NEW c \in StorageCallers, steps' = [steps EXCEPT ![c] = NoStep]
  PROVE  /\ steps' \in [StorageCallers -> Calls \cup {NoStep}] /\ steps'[c] = NoStep
         /\ \A d \in StorageCallers : d # c => steps'[d] = steps[d]
BY DEF StorageTypes

\* A call is a request for a uuid at a step.
LEMMA CallIs ==
  ASSUME StorageTypes, NEW c \in StorageCallers, steps[c] # NoStep
  PROVE  steps[c] \in Calls /\ steps[c].uuid \in FileUuids /\ steps[c].file \in Writable /\ steps[c].id \in Nat
BY DEF StorageTypes, Calls

\* A step of a call leaves it, or nothing, where it was.
LEMMA AloneStays ==
  ASSUME Alone, NEW c \in StorageCallers, UNCHANGED overlapped,
         \A u : InCall(c, u)' => InCall(c, u),
         \A d \in StorageCallers : d # c => steps'[d] = steps[d]
  PROVE  Alone'
BY DEF Alone, InCall

\* A call that begins is alone, or has overlapped with another.
LEMMA StartIs ==
  ASSUME StorageTypes, Alone, NEW c \in StorageCallers, NEW u \in FileUuids, NEW written \in Writable, StartCall(c, u, written)
  PROVE  /\ StorageTypes' /\ Alone'
         /\ steps[c] = NoStep /\ steps'[c] # NoStep /\ steps'[c].uuid = u
         /\ steps'[c].step = FirstStep(written) /\ steps'[c].id = 0
         /\ \A d \in StorageCallers : d # c => steps'[d] = steps[d]
         /\ UNCHANGED <<others, bytes, types, drive, driveIds, lastWrite>>
         /\ overlapped \subseteq overlapped'
<1>1. FirstStep(written) \in {"search", "read", "bytes", "type", "create", "place", "update", "trash"}
  BY DEF FirstStep
<1>2. /\ steps' \in [StorageCallers -> Calls \cup {NoStep}]
      /\ steps'[c] # NoStep /\ steps'[c].uuid = u /\ steps'[c].step = FirstStep(written) /\ steps'[c].id = 0
      /\ \A d \in StorageCallers : d # c => steps'[d] = steps[d]
  BY <1>1, GotoIs DEF StartCall
<1>3. Alone'
  <2> SUFFICES ASSUME NEW v \in FileUuids \ overlapped', NEW d \in StorageCallers, NEW e \in StorageCallers,
                      InCall(d, v)', InCall(e, v)'
               PROVE  d = e
    BY DEF Alone
  <2>1. v \notin overlapped /\ (Busy(u) => v # u)
    BY DEF StartCall
  <2>2. CASE v = u
    <3>1. ~Busy(u)
      BY <2>1, <2>2
    <3>2. d = c /\ e = c
      BY <1>2, <2>2, <3>1 DEF Busy, InCall
    <3> QED BY <3>2
  <2>3. CASE v # u
    <3>1. d # c /\ e # c
      BY <1>2, <2>3 DEF InCall
    <3>2. InCall(d, v) /\ InCall(e, v)
      BY <1>2, <3>1 DEF InCall
    <3> QED BY <2>1, <3>2 DEF Alone
  <2> QED BY <2>2, <2>3
<1> QED BY <1>2, <1>3 DEF StartCall, StorageTypes, others

\* In memory and in S3.
LEMMA AtOnceStays ==
  ASSUME StorageInv, NEW c \in StorageCallers, Begin(c) \/ ReadFirst(c) \/ PutBytes(c), storageBackend \in {"inmem", "s3"}
  PROVE  StorageInv'
<1>1. StorageTypes /\ Alone /\ AtOnceInv
  BY DEF StorageInv
<1>2. CASE Begin(c)
  <2>1. PICK u \in FileUuids, written \in Writable : StartCall(c, u, written)
    BY <1>2 DEF Begin, Writable
  <2>2. StorageTypes' /\ Alone' /\ UNCHANGED <<others, bytes, types, lastWrite>>
    BY <1>1, <2>1, StartIs
  <2> QED BY <1>1, <2>2 DEF StorageInv, AtOnceInv, others
<1> DEFINE u == steps[c].uuid
           written == steps[c].file
<1>3. CASE ReadFirst(c)
  <2>1. steps[c] # NoStep /\ u \in FileUuids
    BY <1>1, <1>3, CallIs DEF ReadFirst
  <2>2. /\ steps' \in [StorageCallers -> Calls \cup {NoStep}]
        /\ steps'[c] # NoStep => steps'[c].uuid = u
        /\ \A d \in StorageCallers : d # c => steps'[d] = steps[d]
        /\ UNCHANGED <<others, bytes, types, driveIds, lastWrite, overlapped>>
    BY <1>1, <1>3, <2>1, GotoIs, EndIs DEF ReadFirst, Refuse, Writable
  <2>3. Alone'
    BY <1>1, <2>1, <2>2, AloneStays DEF InCall
  <2> QED BY <1>1, <2>2, <2>3 DEF StorageInv, StorageTypes, AtOnceInv, others
<1>4. CASE PutBytes(c)
  <2>1. steps[c] # NoStep /\ u \in FileUuids /\ written \in Writable
    BY <1>1, <1>4, CallIs DEF PutBytes
  <2>2. /\ steps' = [steps EXCEPT ![c] = NoStep] /\ UNCHANGED <<others, driveIds, overlapped>>
        /\ \/ UNCHANGED <<bytes, types, lastWrite>>
           \/ /\ bytes' = [bytes EXCEPT ![u] = written] /\ types' = [types EXCEPT ![u] = written]
              /\ lastWrite' = [lastWrite EXCEPT ![u] = written]
    BY <1>4 DEF PutBytes, TwoFiles, Refuse, Reply
  <2>3. steps' \in [StorageCallers -> Calls \cup {NoStep}] /\ Alone'
    BY <1>1, <2>2, EndIs, AloneStays DEF InCall
  <2>4. StorageTypes' /\ AtOnceInv'
    BY <1>1, <2>1, <2>2, <2>3 DEF StorageTypes, AtOnceInv, others
  <2> QED BY <2>2, <2>3, <2>4 DEF StorageInv, others
<1> QED BY <1>2, <1>3, <1>4

\* In a directory.
LEMMA DirectoryStays ==
  ASSUME StorageInv, NEW c \in StorageCallers, Begin(c) \/ PutBytes(c) \/ PutType(c), storageBackend = "flat_file"
  PROVE  StorageInv'
<1>1. StorageTypes /\ Alone /\ DirectoryInv
  BY DEF StorageInv
<1>2. CASE Begin(c)
  <2>1. PICK u \in FileUuids, written \in Writable : StartCall(c, u, written)
    BY <1>2 DEF Begin, Writable
  <2>2. /\ StorageTypes' /\ Alone' /\ UNCHANGED <<others, bytes, types, drive, driveIds, lastWrite>>
        /\ steps[c] = NoStep /\ steps'[c].uuid = u /\ steps'[c].step = "bytes"
        /\ \A d \in StorageCallers : d # c => steps'[d] = steps[d]
        /\ overlapped \subseteq overlapped'
    BY <1>1, <2>1, StartIs DEF FirstStep
  <2>3. DirectoryInv'
    BY <1>1, <2>2 DEF DirectoryInv, InStep, InCall
  <2> QED BY <2>2, <2>3 DEF StorageInv, others
<1> DEFINE u == steps[c].uuid
           written == steps[c].file
<1>3. CASE PutBytes(c)
  <2>1. steps[c] # NoStep /\ steps[c].step = "bytes" /\ u \in FileUuids /\ written \in Writable
    BY <1>1, <1>3, CallIs DEF PutBytes
  <2>2. CASE written = NoFile /\ bytes[u] = NoFile
    <3>1. steps' = [steps EXCEPT ![c] = NoStep] /\ UNCHANGED <<others, bytes, types, driveIds, lastWrite, overlapped>>
      BY <1>3, <2>2 DEF PutBytes, Refuse
    <3>2. /\ steps' \in [StorageCallers -> Calls \cup {NoStep}] /\ steps'[c] = NoStep /\ Alone'
          /\ \A d \in StorageCallers : d # c => steps'[d] = steps[d]
      BY <1>1, <3>1, EndIs, AloneStays DEF InCall
    <3>3. DirectoryInv'
      <4> SUFFICES ASSUME NEW v \in FileUuids \ overlapped
                   PROVE  /\ \A d \in StorageCallers : InCall(d, v)' => steps'[d].step \in {"bytes", "type"}
                          /\ \A d \in StorageCallers : InStep(d, v, {"type"})' => bytes[v] = steps'[d].file
                          /\ (\A d \in StorageCallers : ~InStep(d, v, {"type"})') =>
                                bytes[v] = lastWrite[v] /\ types[v] = lastWrite[v]
        BY <3>1 DEF DirectoryInv
      <4>1. \A d \in StorageCallers : /\ InCall(d, v)' => InCall(d, v) /\ steps'[d] = steps[d]
                                      /\ InStep(d, v, {"type"})' <=> InStep(d, v, {"type"})
        BY <2>1, <3>2 DEF InCall, InStep
      <4> QED BY <1>1, <4>1 DEF DirectoryInv, InStep
    <3> QED BY <1>1, <3>1, <3>2, <3>3 DEF StorageInv, StorageTypes, others
  <2>3. CASE ~(written = NoFile /\ bytes[u] = NoFile)
    <3>1. /\ Goto(c, "type", u, written, 0) /\ bytes' = [bytes EXCEPT ![u] = written]
          /\ UNCHANGED <<others, types, driveIds, lastWrite, overlapped>>
      BY <1>3, <2>3 DEF PutBytes, TwoFiles
    <3>2. /\ steps' \in [StorageCallers -> Calls \cup {NoStep}]
          /\ steps'[c] # NoStep /\ steps'[c].uuid = u /\ steps'[c].step = "type" /\ steps'[c].file = written
          /\ \A d \in StorageCallers : d # c => steps'[d] = steps[d]
      BY <1>1, <2>1, <3>1, GotoIs
    <3>3. Alone'
      BY <1>1, <2>1, <3>1, <3>2, AloneStays DEF InCall
    <3>4. DirectoryInv'
      <4> SUFFICES ASSUME NEW v \in FileUuids \ overlapped
                   PROVE  /\ \A d \in StorageCallers : InCall(d, v)' => steps'[d].step \in {"bytes", "type"}
                          /\ \A d \in StorageCallers : InStep(d, v, {"type"})' => bytes'[v] = steps'[d].file
                          /\ (\A d \in StorageCallers : ~InStep(d, v, {"type"})') =>
                                bytes'[v] = lastWrite[v] /\ types[v] = lastWrite[v]
        BY <3>1 DEF DirectoryInv
      <4>1. CASE v = u
        <5>1. \A d \in StorageCallers : InCall(d, v)' => d = c
          BY <2>1, <3>1, <3>2, <3>3, <4>1 DEF Alone, InCall
        <5>2. bytes'[v] = written
          BY <1>1, <3>1, <4>1 DEF StorageTypes
        <5> QED BY <3>2, <4>1, <5>1, <5>2 DEF InStep, InCall
      <4>2. CASE v # u
        <5>1. bytes'[v] = bytes[v]
          BY <1>1, <3>1, <4>2 DEF StorageTypes
        <5>2. \A d \in StorageCallers : /\ InCall(d, v)' => InCall(d, v) /\ steps'[d] = steps[d]
                                        /\ InStep(d, v, {"type"})' <=> InStep(d, v, {"type"})
          BY <2>1, <3>2, <4>2 DEF InCall, InStep
        <5> QED BY <1>1, <5>1, <5>2 DEF DirectoryInv, InStep
      <4> QED BY <4>1, <4>2
    <3>5. StorageTypes'
      BY <1>1, <2>1, <3>1, <3>2 DEF StorageTypes, others
    <3> QED BY <1>1, <3>1, <3>3, <3>4, <3>5 DEF StorageInv, others
  <2> QED BY <2>2, <2>3
<1>4. CASE PutType(c)
  <2>1. steps[c] # NoStep /\ steps[c].step = "type" /\ u \in FileUuids /\ written \in Writable
    BY <1>1, <1>4, CallIs DEF PutType
  <2>2. /\ steps' = [steps EXCEPT ![c] = NoStep] /\ types' = [types EXCEPT ![u] = written]
        /\ lastWrite' = [lastWrite EXCEPT ![u] = written] /\ UNCHANGED <<others, bytes, driveIds, overlapped>>
    BY <1>4 DEF PutType, Reply
  <2>3. /\ steps' \in [StorageCallers -> Calls \cup {NoStep}] /\ steps'[c] = NoStep
        /\ \A d \in StorageCallers : d # c => steps'[d] = steps[d]
        /\ Alone'
    BY <1>1, <2>2, EndIs, AloneStays DEF InCall
  <2>4. StorageTypes'
    BY <1>1, <2>1, <2>2, <2>3 DEF StorageTypes, others
  <2>5. DirectoryInv'
    <3> SUFFICES ASSUME NEW v \in FileUuids \ overlapped
                 PROVE  /\ \A d \in StorageCallers : InCall(d, v)' => steps'[d].step \in {"bytes", "type"}
                        /\ \A d \in StorageCallers : InStep(d, v, {"type"})' => bytes[v] = steps'[d].file
                        /\ (\A d \in StorageCallers : ~InStep(d, v, {"type"})') =>
                              bytes[v] = lastWrite'[v] /\ types'[v] = lastWrite'[v]
      BY <2>2 DEF DirectoryInv
    <3>1. CASE v = u
      <4>1. \A d \in StorageCallers : ~InCall(d, v)'
        BY <1>1, <2>1, <2>3, <3>1 DEF Alone, InCall
      <4>2. types'[v] = written /\ lastWrite'[v] = written /\ bytes[v] = written
        BY <1>1, <2>1, <2>2, <3>1 DEF StorageTypes, DirectoryInv, InStep, InCall
      <4> QED BY <4>1, <4>2 DEF InStep
    <3>2. CASE v # u
      <4>1. types'[v] = types[v] /\ lastWrite'[v] = lastWrite[v]
        BY <1>1, <2>2, <3>2 DEF StorageTypes
      <4>2. \A d \in StorageCallers : /\ InCall(d, v)' => InCall(d, v) /\ steps'[d] = steps[d]
                                      /\ InStep(d, v, {"type"})' <=> InStep(d, v, {"type"})
        BY <2>1, <2>3, <3>2 DEF InCall, InStep
      <4> QED BY <1>1, <4>1, <4>2 DEF DirectoryInv, InStep
    <3> QED BY <3>1, <3>2
  <2> QED BY <1>1, <2>2, <2>3, <2>4, <2>5 DEF StorageInv, others
<1> QED BY <1>2, <1>3, <1>4

\* What the drive holds of a uuid stands while neither its files, nor what was
\* reported of it, nor the calls on it change.
LEMMA HoldsOn ==
  ASSUME NEW v, DriveHolds(v), OnDrive(v)' = OnDrive(v), lastWrite'[v] = lastWrite[v],
         \A d \in StorageCallers : (InCall(d, v)' <=> InCall(d, v)) /\ (InCall(d, v) => steps'[d] = steps[d])
  PROVE  DriveHolds(v)'
<1>1. \A f \in OnDrive(v) : f \in drive /\ f \in drive'
  BY DEF OnDrive
<1>2. \A x : OnlyFile(v, x) => IF x = NoFile THEN OnDrive(v)' = {} ELSE \E f \in drive' : OnDrive(v)' = {f} /\ f.file = x
  BY <1>1 DEF OnlyFile
<1>3. \A d \in StorageCallers : \A set : (InStep(d, v, set)' <=> InStep(d, v, set)) /\ (InStep(d, v, set) => steps'[d] = steps[d])
  BY DEF InStep
<1>4. (\A c \in StorageCallers : ~InStep(c, v, {"place"})') => OnlyFile(v, lastWrite[v])'
  BY <1>2, <1>3 DEF DriveHolds, OnlyFile
<1>5. ASSUME NEW d \in StorageCallers
      PROVE  /\ InStep(d, v, {"place"})' => steps'[d].file # NoFile /\ OnlyFile(v, steps[d].file)'
             /\ InStep(d, v, {"create"})' => steps'[d].file # NoFile /\ OnDrive(v)' = {}
  BY <1>2, <1>3 DEF DriveHolds, OnlyFile
<1>6. ASSUME NEW d \in StorageCallers, InStep(d, v, {"update", "trash"})'
      PROVE  /\ \E f \in drive' : OnDrive(v)' = {f} /\ f.id = steps'[d].id
             /\ steps'[d].step = "trash" <=> steps'[d].file = NoFile
  <2>1. InStep(d, v, {"update", "trash"}) /\ steps'[d] = steps[d]
    BY <1>3, <1>6
  <2>2. PICK f \in drive : OnDrive(v) = {f} /\ f.id = steps[d].id
    BY <2>1 DEF DriveHolds
  <2>3. f \in drive'
    BY <1>1, <2>2
  <2> QED BY <2>1, <2>2, <2>3 DEF DriveHolds
<1> QED BY <1>4, <1>5, <1>6 DEF DriveHolds

\* A file that bears a uuid bears its identifier as well, and no other file does.
LEMMA ItsIdIs ==
  ASSUME StorageTypes, DriveTypes, NEW u, OnDrive(u) # {}
  PROVE  /\ ItsId(u) \in 1..driveIds /\ ItsId(u) \in Nat
         /\ \A f \in drive : f.id = ItsId(u) => f.uuid = u
         /\ \A f : OnDrive(u) = {f} => ItsId(u) = f.id
<1>1. PICK f \in OnDrive(u) : f = (CHOOSE g \in OnDrive(u) : TRUE)
  OBVIOUS
<1>2. f \in drive /\ f.uuid = u /\ ItsId(u) = f.id
  BY <1>1 DEF OnDrive, ItsId
<1>3. f.id \in 1..driveIds /\ \A g \in drive : g.id = f.id => g = f
  BY <1>2 DEF DriveTypes
<1>4. 1..driveIds \subseteq Nat
  BY DEF StorageTypes
<1>5. \A g : OnDrive(u) = {g} => ItsId(u) = g.id
  BY <1>1, <1>2
<1> QED BY <1>2, <1>3, <1>4, <1>5

\* A uuid that bears one file bears some.
LEMMA OneIsThere == \A u : Cardinality(OnDrive(u)) = 1 => OnDrive(u) # {}
BY FS_EmptySet

\* A call begins its search.
LEMMA DriveBegins ==
  ASSUME StorageInv, NEW c \in StorageCallers, Begin(c), storageBackend = "google_drive" PROVE StorageInv'
<1>1. StorageTypes /\ Alone /\ DriveInv
  BY DEF StorageInv
<1>2. PICK u \in FileUuids, written \in Writable : StartCall(c, u, written)
  BY DEF Begin, Writable
<1>3. /\ StorageTypes' /\ Alone' /\ UNCHANGED <<others, bytes, types, drive, driveIds, lastWrite>>
      /\ steps[c] = NoStep /\ steps'[c] # NoStep /\ steps'[c].uuid = u /\ steps'[c].step = "search" /\ steps'[c].id = 0
      /\ \A d \in StorageCallers : d # c => steps'[d] = steps[d]
      /\ overlapped \subseteq overlapped'
  BY <1>1, <1>2, StartIs DEF FirstStep
<1>4. DriveTypes'
  BY <1>1, <1>3 DEF DriveInv, DriveTypes, StorageTypes
<1>5. ASSUME NEW v \in FileUuids \ overlapped' PROVE DriveHolds(v)'
  <2>1. DriveHolds(v) /\ OnDrive(v)' = OnDrive(v)
    BY <1>1, <1>3 DEF DriveInv, OnDrive
  <2>2. \A x : OnlyFile(v, x)' <=> OnlyFile(v, x)
    BY <1>3, <2>1 DEF OnlyFile
  <2>3. \A d \in StorageCallers, set \in {{"place"}, {"create"}, {"update", "trash"}} :
          (InStep(d, v, set)' <=> InStep(d, v, set)) /\ (InStep(d, v, set) => steps'[d] = steps[d])
    BY <1>3 DEF InStep, InCall
  <2> QED BY <1>3, <2>1, <2>3 DEF DriveHolds, OnlyFile
<1> QED BY <1>3, <1>4, <1>5 DEF StorageInv, DriveInv, others

\* A search leads to the one file of the uuid, or finds that there is none.
LEMMA DriveSearches ==
  ASSUME StorageInv, NEW c \in StorageCallers, Search(c), storageBackend = "google_drive" PROVE StorageInv'
<1> DEFINE u == steps[c].uuid
           written == steps[c].file
           next == AfterSearch(u, written)
           id == IF OnDrive(u) = {} THEN 0 ELSE ItsId(u)
<1>1. StorageTypes /\ Alone /\ DriveInv /\ DriveTypes
  BY DEF StorageInv, DriveInv
<1>2. /\ steps[c] # NoStep /\ steps[c].step = "search" /\ u \in FileUuids /\ written \in Writable
      /\ UNCHANGED <<others, bytes, types, drive, driveIds, overlapped, lastWrite>>
      /\ \/ next = "refuse" /\ steps' = [steps EXCEPT ![c] = NoStep]
         \/ next # "refuse" /\ Goto(c, next, u, written, id)
  BY <1>1, CallIs DEF Search, Refuse
<1>3. next \in {"refuse", "create", "trash", "update"}
      /\ (next = "create" => OnDrive(u) = {} /\ written # NoFile)
      /\ (next \in {"trash", "update"} => OnDrive(u) # {} /\ (next = "trash" <=> written = NoFile))
  BY FS_EmptySet DEF AfterSearch
<1>4. id \in 0..driveIds /\ id \in Nat /\ \A f \in drive : f.id = id => f.uuid = u
  <2>1. CASE OnDrive(u) = {}
    <3>1. \A f \in drive : f.id # 0
      BY <1>1 DEF DriveTypes, StorageTypes
    <3> QED BY <1>1, <2>1, <3>1 DEF StorageTypes
  <2>2. CASE OnDrive(u) # {}
    <3>1. 1..driveIds \subseteq 0..driveIds
      BY <1>1 DEF StorageTypes
    <3> QED BY <1>1, <2>2, <3>1, ItsIdIs
  <2> QED BY <2>1, <2>2
<1> HIDE DEF next, id
<1>5. /\ steps' \in [StorageCallers -> Calls \cup {NoStep}]
      /\ \A d \in StorageCallers : d # c => steps'[d] = steps[d]
      /\ \/ steps'[c] = NoStep
         \/ /\ next # "refuse" /\ steps'[c] # NoStep /\ steps'[c].uuid = u /\ steps'[c].step = next
            /\ steps'[c].file = written /\ steps'[c].id = id
  BY <1>1, <1>2, <1>3, <1>4, GotoIs, EndIs
<1>6. StorageTypes' /\ Alone'
  BY <1>1, <1>2, <1>5, AloneStays DEF StorageTypes, InCall, others
<1>7. DriveTypes'
  BY <1>1, <1>2, <1>3, <1>4, <1>5 DEF DriveTypes
<1>8. ASSUME NEW v \in FileUuids \ overlapped PROVE DriveHolds(v)'
  <2>1. DriveHolds(v) /\ OnDrive(v)' = OnDrive(v) /\ lastWrite'[v] = lastWrite[v]
    BY <1>1, <1>2 DEF DriveInv, OnDrive
  <2>2. CASE v # u
    <3>1. \A d \in StorageCallers : (InCall(d, v)' <=> InCall(d, v)) /\ (InCall(d, v) => steps'[d] = steps[d])
      BY <1>5, <1>2, <2>2 DEF InCall
    <3> QED BY <2>1, <3>1, HoldsOn
  <2>3. CASE v = u
    <3>1. \A d \in StorageCallers : InCall(d, v) => d = c
      BY <1>1, <1>2, <2>3 DEF Alone, InCall
    <3>2. \A d \in StorageCallers : InCall(d, v)' => d = c
      BY <1>5, <3>1 DEF InCall
    <3>3. OnlyFile(v, lastWrite[v]) /\ OnlyFile(v, lastWrite[v])'
      <4>1. \A d \in StorageCallers : ~InStep(d, v, {"place"})
        BY <1>2, <3>1 DEF InStep
      <4> QED BY <1>2, <2>1, <4>1 DEF DriveHolds, OnlyFile
    <3>4. \A d \in StorageCallers : ~InStep(d, v, {"place"})'
      BY <1>3, <1>5, <3>2 DEF InStep, InCall
    <3>5. ASSUME InStep(c, v, {"create"})' PROVE steps'[c].file # NoFile /\ OnDrive(v)' = {}
      BY <1>3, <1>5, <2>1, <2>3, <3>5 DEF InStep, InCall
    <3>6. ASSUME InStep(c, v, {"update", "trash"})'
          PROVE  /\ \E f \in drive' : OnDrive(v)' = {f} /\ f.id = steps'[c].id
                 /\ steps'[c].step = "trash" <=> steps'[c].file = NoFile
      <4>1. OnDrive(v) # {} /\ steps'[c].id = id /\ (steps'[c].step = "trash" <=> steps'[c].file = NoFile)
        BY <1>3, <1>5, <2>3, <3>6 DEF InStep, InCall
      <4>2. PICK f \in drive : OnDrive(v) = {f}
        BY <3>3, <4>1 DEF OnlyFile
      <4>3. id = f.id
        BY <1>1, <2>3, <4>1, <4>2, ItsIdIs DEF id
      <4> QED BY <1>2, <2>1, <4>1, <4>2, <4>3
    <3> QED BY <3>2, <3>3, <3>4, <3>5, <3>6 DEF DriveHolds, InStep
  <2> QED BY <2>2, <2>3
<1> QED BY <1>1, <1>2, <1>6, <1>7, <1>8 DEF StorageInv, DriveInv, others
\* A new file has an identifier that no call and no file has.
LEMMA NewFile ==
  ASSUME StorageTypes, DriveTypes, NEW new \in DriveFiles, new.id = driveIds',
         driveIds' = driveIds + 1, drive' = drive \cup {new},
         \A d \in StorageCallers : steps'[d] # NoStep =>
            /\ steps'[d].step \in {"search", "create", "place", "update", "trash"}
            /\ \/ steps'[d] = steps[d]
               \/ steps'[d].id = driveIds' /\ steps'[d].uuid = new.uuid
  PROVE  /\ DriveTypes' /\ driveIds' \in Nat
         /\ \A v : v # new.uuid => OnDrive(v)' = OnDrive(v)
         /\ OnDrive(new.uuid)' = OnDrive(new.uuid) \cup {new}
<1>1. driveIds \in Nat /\ driveIds' \in Nat
  BY DEF StorageTypes
<1>4. \A f \in drive : f.id \in 1..driveIds /\ f.id # driveIds' /\ f.id \in 1..driveIds'
  BY <1>1 DEF DriveTypes
<1>5. driveIds' \in 1..driveIds' /\ driveIds' \in 0..driveIds'
      /\ 0..driveIds \subseteq 0..driveIds' /\ driveIds' \notin 0..driveIds
  BY <1>1
<1>6. DriveTypes'
  <2>1. drive' \subseteq DriveFiles /\ (\A f \in drive' : f.id \in 1..driveIds')
        /\ \A f, g \in drive' : f.id = g.id => f = g
    BY <1>4, <1>5 DEF DriveTypes
  <2>2. ASSUME NEW d \in StorageCallers, steps'[d] # NoStep
        PROVE  /\ steps'[d].id \in 0..driveIds'
               /\ \A f \in drive' : f.id = steps'[d].id => f.uuid = steps'[d].uuid
    <3>1. CASE steps'[d] = steps[d]
      BY <1>5, <2>2, <3>1 DEF DriveTypes
    <3>2. CASE steps'[d].id = driveIds' /\ steps'[d].uuid = new.uuid
      BY <1>4, <1>5, <3>2
    <3> QED BY <2>2, <3>1, <3>2
  <2> QED BY <2>1, <2>2 DEF DriveTypes
<1> QED BY <1>1, <1>6 DEF OnDrive

\* A new file is the only one of its uuid, as the search found none.
LEMMA DriveCreates ==
  ASSUME StorageInv, NEW c \in StorageCallers, DriveCreate(c), storageBackend = "google_drive" PROVE StorageInv'
<1>1. StorageTypes /\ Alone /\ DriveInv /\ DriveTypes
  BY DEF StorageInv, DriveInv
<1>a. PICK u \in FileUuids, written \in Writable : u = steps[c].uuid /\ written = steps[c].file
  BY <1>1, CallIs DEF DriveCreate
<1>b. PICK new : new = [id |-> driveIds', uuid |-> u, file |-> written, place |-> 0]
  OBVIOUS
<1>2. /\ steps[c] # NoStep /\ steps[c].step = "create" /\ steps[c].uuid = u /\ steps[c].file = written
      /\ UNCHANGED <<others, bytes, types, overlapped>>
      /\ driveIds' = driveIds + 1 /\ drive' = drive \cup {new}
  BY <1>a, <1>b DEF DriveCreate
<1>3. driveIds' \in Nat
  BY <1>1, <1>2 DEF StorageTypes
<1>4. /\ steps' \in [StorageCallers -> Calls \cup {NoStep}]
      /\ \A d \in StorageCallers : d # c => steps'[d] = steps[d]
      /\ \/ steps'[c] = NoStep /\ lastWrite' = [lastWrite EXCEPT ![u] = written]
         \/ /\ steps'[c] # NoStep /\ steps'[c].uuid = u /\ steps'[c].step = "place"
            /\ steps'[c].file = written /\ steps'[c].id = driveIds' /\ UNCHANGED lastWrite
  BY <1>1, <1>2, <1>3, GotoIs, EndIs DEF DriveCreate, Reply
<1>6. new.id = driveIds' /\ new.uuid = u /\ new.file = written /\ new \in drive' /\ new \in DriveFiles
  BY <1>b, <1>2, <1>3 DEF DriveFiles
<1>5. /\ DriveTypes'
      /\ \A v : v # u => OnDrive(v)' = OnDrive(v)
      /\ OnDrive(u)' = OnDrive(u) \cup {new}
  <2>1. \A d \in StorageCallers : steps'[d] # NoStep =>
            /\ steps'[d].step \in {"search", "create", "place", "update", "trash"}
            /\ \/ steps'[d] = steps[d]
               \/ steps'[d].id = driveIds' /\ steps'[d].uuid = u
    BY <1>1, <1>4 DEF DriveTypes
  <2> QED BY <1>1, <1>2, <1>6, <2>1, NewFile
<1>7. StorageTypes' /\ Alone'
  BY <1>1, <1>2, <1>3, <1>4, AloneStays DEF StorageTypes, InCall, others
<1>8. ASSUME NEW v \in FileUuids \ overlapped PROVE DriveHolds(v)'
  <2>1. DriveHolds(v)
    BY <1>1 DEF DriveInv
  <2>2. CASE v # u
    <3>1. \A d \in StorageCallers : (InCall(d, v)' <=> InCall(d, v)) /\ (InCall(d, v) => steps'[d] = steps[d])
      BY <1>4, <1>2, <2>2 DEF InCall
    <3>2. lastWrite'[v] = lastWrite[v]
      BY <1>1, <1>4, <2>2 DEF StorageTypes
    <3> QED BY <1>5, <2>1, <2>2, <3>1, <3>2, HoldsOn
  <2>3. CASE v = u
    <3>1. \A d \in StorageCallers : InCall(d, v)' => d = c
      BY <1>1, <1>2, <1>4, <2>3 DEF Alone, InCall
    <3>2. OnDrive(v) = {} /\ written # NoFile
      BY <1>2, <2>1, <2>3 DEF DriveHolds, InStep, InCall
    <3>3. OnDrive(v)' = {new}
      BY <1>5, <2>3, <3>2
    <3>4. OnlyFile(v, written)'
      BY <1>6, <3>2, <3>3 DEF OnlyFile
    <3>5. CASE steps'[c] = NoStep /\ lastWrite' = [lastWrite EXCEPT ![u] = written]
      <4>1. lastWrite'[v] = written /\ \A d \in StorageCallers : ~InCall(d, v)'
        BY <1>1, <1>2, <2>3, <3>1, <3>5 DEF StorageTypes, InCall
      <4> QED BY <3>4, <4>1 DEF DriveHolds, InStep, OnlyFile
    <3>6. CASE steps'[c] # NoStep /\ steps'[c].uuid = u /\ steps'[c].step = "place" /\ steps'[c].file = written
      <4>1. \A d \in StorageCallers : ~InStep(d, v, {"create"})' /\ ~InStep(d, v, {"update", "trash"})'
        BY <3>1, <3>6 DEF InStep
      <4>2. InStep(c, v, {"place"})'
        BY <2>3, <3>6 DEF InStep, InCall
      <4>3. \A d \in StorageCallers : InStep(d, v, {"place"})' => steps'[d].file # NoFile /\ OnlyFile(v, steps[d].file)'
        BY <3>1, <3>2, <3>4, <3>6 DEF InStep, OnlyFile
      <4> QED BY <4>1, <4>2, <4>3 DEF DriveHolds
    <3> QED BY <1>4, <3>5, <3>6
  <2> QED BY <2>2, <2>3
<1> QED BY <1>1, <1>2, <1>5, <1>7, <1>8 DEF StorageInv, DriveInv, others

\* Where a file stands in the drive is no part of what is read.
LEMMA DrivePlaces ==
  ASSUME StorageInv, NEW c \in StorageCallers, DrivePlace(c), storageBackend = "google_drive" PROVE StorageInv'
<1>1. StorageTypes /\ Alone /\ DriveInv /\ DriveTypes
  BY DEF StorageInv, DriveInv
<1>a. PICK u \in FileUuids, written \in Writable : u = steps[c].uuid /\ written = steps[c].file
  BY <1>1, CallIs DEF DrivePlace
<1>2. /\ steps[c] # NoStep /\ steps[c].step = "place" /\ steps[c].uuid = u /\ steps[c].file = written
      /\ UNCHANGED <<others, bytes, types, driveIds, overlapped>>
      /\ steps' = [steps EXCEPT ![c] = NoStep] /\ lastWrite' = [lastWrite EXCEPT ![u] = written]
  BY <1>1, <1>a DEF DrivePlace, Reply
<1>3. /\ steps' \in [StorageCallers -> Calls \cup {NoStep}] /\ steps'[c] = NoStep
      /\ \A d \in StorageCallers : d # c => steps'[d] = steps[d]
  BY <1>1, <1>2, EndIs
<1>4. StorageTypes' /\ Alone'
  BY <1>1, <1>2, <1>3, AloneStays DEF StorageTypes, InCall, others
<1>5. PICK place \in [DriveFiles -> Nat] : drive' = {[f EXCEPT !.place = place[f]] : f \in drive}
  <2>1. \A f \in drive : f \in DriveFiles /\ f.place \in Nat /\ [f EXCEPT !.place = f.place] = f
    BY <1>1 DEF DriveTypes, DriveFiles
  <2> DEFINE folder == FolderOf[u]
  <2>2. CASE Cardinality(OnDrive(folder)) # 1
    <3>1. drive' = drive
      BY <1>2, <2>2 DEF DrivePlace
    <3> DEFINE place == [f \in DriveFiles |-> f.place]
    <3>2. place \in [DriveFiles -> Nat]
      BY DEF DriveFiles
    <3>3. \A f \in drive : [f EXCEPT !.place = place[f]] = f
      BY <2>1
    <3> HIDE DEF place
    <3>4. {[f EXCEPT !.place = place[f]] : f \in drive} = drive
      BY <3>3
    <3> QED BY <3>1, <3>2, <3>4
  <2>3. CASE Cardinality(OnDrive(folder)) = 1
    <3>1. drive' = {IF f.id = steps[c].id THEN [f EXCEPT !.place = ItsId(folder)] ELSE f : f \in drive}
      BY <1>2, <2>3 DEF DrivePlace
    <3> DEFINE place == [f \in DriveFiles |-> IF f.id = steps[c].id THEN ItsId(folder) ELSE f.place]
    <3>2. ItsId(folder) \in Nat
      BY <1>1, <2>3, OneIsThere, ItsIdIs
    <3>3. place \in [DriveFiles -> Nat]
      BY <3>2 DEF DriveFiles
    <3>4. \A f \in drive : [f EXCEPT !.place = place[f]] = IF f.id = steps[c].id THEN [f EXCEPT !.place = ItsId(folder)] ELSE f
      BY <2>1
    <3> HIDE DEF place
    <3> DEFINE at(f) == [f EXCEPT !.place = place[f]]
               moved(f) == IF f.id = steps[c].id THEN [f EXCEPT !.place = ItsId(folder)] ELSE f
    <3>5. drive' = {moved(f) : f \in drive} /\ \A f \in drive : at(f) = moved(f)
      BY <3>1, <3>4
    <3> HIDE DEF at, moved
    <3>6. drive' = {at(f) : f \in drive}
      BY <3>5
    <3> QED BY <3>3, <3>6 DEF at
  <2> QED BY <2>2, <2>3
<1> DEFINE at(f) == [f EXCEPT !.place = place[f]]
<1>6. \A f \in drive : at(f) \in DriveFiles /\ at(f).id = f.id /\ at(f).uuid = f.uuid /\ at(f).file = f.file
  BY <1>1, <1>5 DEF DriveTypes, DriveFiles
<1>7. drive' = {at(f) : f \in drive}
  BY <1>5
<1> HIDE DEF at
<1>8. \A v : OnDrive(v)' = {at(f) : f \in OnDrive(v)}
  BY <1>6, <1>7 DEF OnDrive
<1>9. DriveTypes'
  <2>1. drive' \subseteq DriveFiles /\ \A f \in drive' : f.id \in 1..driveIds
    BY <1>1, <1>6, <1>7 DEF DriveTypes
  <2>2. \A f, g \in drive' : f.id = g.id => f = g
    BY <1>1, <1>6, <1>7 DEF DriveTypes
  <2>3. \A d \in StorageCallers : steps'[d] # NoStep => steps'[d] = steps[d]
    BY <1>3
  <2>4. ASSUME NEW d \in StorageCallers, steps'[d] # NoStep
        PROVE  /\ steps'[d].id \in 0..driveIds
               /\ steps'[d].step \in {"search", "create", "place", "update", "trash"}
               /\ \A f \in drive' : f.id = steps'[d].id => f.uuid = steps'[d].uuid
    BY <1>1, <1>6, <1>7, <2>3, <2>4 DEF DriveTypes
  <2> QED BY <1>2, <2>1, <2>2, <2>4 DEF DriveTypes
<1>10. \A v, x : OnlyFile(v, x) => OnlyFile(v, x)'
  <2> SUFFICES ASSUME NEW v, NEW x, OnlyFile(v, x) PROVE OnlyFile(v, x)'
    OBVIOUS
  <2>1. CASE x = NoFile
    BY <1>8, <2>1 DEF OnlyFile
  <2>2. CASE x # NoFile
    <3>1. PICK f \in drive : OnDrive(v) = {f} /\ f.file = x
      BY <2>2 DEF OnlyFile
    <3>2. at(f) \in drive' /\ OnDrive(v)' = {at(f)} /\ at(f).file = x
      BY <1>6, <1>7, <1>8, <3>1
    <3> QED BY <2>2, <3>2 DEF OnlyFile
  <2> QED BY <2>1, <2>2
<1>11. ASSUME NEW v \in FileUuids \ overlapped PROVE DriveHolds(v)'
  <2>1. DriveHolds(v)
    BY <1>1 DEF DriveInv
  <2>2. CASE v # u
    <3>1. \A d \in StorageCallers : (InCall(d, v)' <=> InCall(d, v)) /\ (InCall(d, v) => steps'[d] = steps[d])
      BY <1>3, <1>2, <2>2 DEF InCall
    <3>2. lastWrite'[v] = lastWrite[v]
      BY <1>1, <1>2, <2>2 DEF StorageTypes
    <3>3. \A d \in StorageCallers : \A set : (InStep(d, v, set)' <=> InStep(d, v, set)) /\ (InStep(d, v, set) => steps'[d] = steps[d])
      BY <3>1 DEF InStep
    <3>4. (\A d \in StorageCallers : ~InStep(d, v, {"place"})') => OnlyFile(v, lastWrite[v])'
      BY <1>10, <2>1, <3>2, <3>3 DEF DriveHolds, OnlyFile
    <3>5. ASSUME NEW d \in StorageCallers
          PROVE  /\ InStep(d, v, {"place"})' => steps'[d].file # NoFile /\ OnlyFile(v, steps[d].file)'
                 /\ InStep(d, v, {"create"})' => steps'[d].file # NoFile /\ OnDrive(v)' = {}
      <4>1. ASSUME InStep(d, v, {"place"})' PROVE steps'[d].file # NoFile /\ OnlyFile(v, steps[d].file)'
        <5>1. InStep(d, v, {"place"}) /\ steps'[d] = steps[d]
          BY <3>3, <4>1
        <5>2. OnlyFile(v, steps[d].file) /\ steps[d].file # NoFile
          BY <2>1, <5>1 DEF DriveHolds
        <5>3. PICK x : x = steps[d].file
          OBVIOUS
        <5>4. OnlyFile(v, x)' /\ steps'[d].file = x
          BY <1>10, <5>1, <5>2, <5>3
        <5> QED BY <5>1, <5>2, <5>4
      <4>2. ASSUME InStep(d, v, {"create"})' PROVE steps'[d].file # NoFile /\ OnDrive(v)' = {}
        <5>1. InStep(d, v, {"create"}) /\ steps'[d] = steps[d]
          BY <3>3, <4>2
        <5>2. OnDrive(v) = {} /\ steps[d].file # NoFile
          BY <2>1, <5>1 DEF DriveHolds
        <5> QED BY <1>8, <5>1, <5>2
      <4> QED BY <4>1, <4>2
    <3>6. ASSUME NEW d \in StorageCallers, InStep(d, v, {"update", "trash"})'
          PROVE  /\ \E f \in drive' : OnDrive(v)' = {f} /\ f.id = steps'[d].id
                 /\ steps'[d].step = "trash" <=> steps'[d].file = NoFile
      <4>1. InStep(d, v, {"update", "trash"}) /\ steps'[d] = steps[d]
        BY <3>3, <3>6
      <4>2. PICK f \in drive : OnDrive(v) = {f} /\ f.id = steps[d].id
        BY <2>1, <4>1 DEF DriveHolds
      <4>3. at(f) \in drive' /\ OnDrive(v)' = {at(f)} /\ at(f).id = steps'[d].id
        BY <1>6, <1>7, <1>8, <4>1, <4>2
      <4> QED BY <2>1, <4>1, <4>3 DEF DriveHolds
    <3> QED BY <3>4, <3>5, <3>6 DEF DriveHolds
  <2>3. CASE v = u
    <3>1. \A d \in StorageCallers : ~InCall(d, v)'
      BY <1>1, <1>2, <1>3, <2>3 DEF Alone, InCall
    <3>2. lastWrite'[v] = written
      BY <1>1, <1>2, <2>3 DEF StorageTypes
    <3>3. OnlyFile(v, written)
      BY <1>2, <2>1, <2>3 DEF DriveHolds, InStep, InCall
    <3>4. OnlyFile(v, lastWrite[v])'
      BY <1>10, <3>2, <3>3 DEF OnlyFile
    <3> QED BY <3>1, <3>4 DEF DriveHolds, InStep
  <2> QED BY <2>2, <2>3
<1> QED BY <1>1, <1>2, <1>4, <1>9, <1>11 DEF StorageInv, DriveInv, others

\* The drive changes the one file that was found, or puts it into the trash.
LEMMA DriveUpdates ==
  ASSUME StorageInv, NEW c \in StorageCallers, DriveUpdate(c), storageBackend = "google_drive" PROVE StorageInv'
<1>1. StorageTypes /\ Alone /\ DriveInv /\ DriveTypes
  BY DEF StorageInv, DriveInv
<1>2. PICK u \in FileUuids, written \in Writable, id \in Nat, hit \in SUBSET drive :
        u = steps[c].uuid /\ written = steps[c].file /\ id = steps[c].id /\ hit = {f \in drive : f.id = id}
  BY <1>1, CallIs DEF DriveUpdate
<1> DEFINE changed(f) == [f EXCEPT !.file = written]
           new == IF steps[c].step = "trash" THEN {} ELSE {changed(f) : f \in hit}
<1>3. /\ steps[c] # NoStep /\ steps[c].step \in {"update", "trash"}
      /\ UNCHANGED <<others, bytes, types, driveIds, overlapped>>
      /\ drive' = (drive \ hit) \cup new
      /\ steps' = [steps EXCEPT ![c] = NoStep]
      /\ lastWrite' = IF hit = {} THEN lastWrite ELSE [lastWrite EXCEPT ![u] = written]
  BY <1>2 DEF DriveUpdate, Refuse, Reply
<1>4. /\ steps' \in [StorageCallers -> Calls \cup {NoStep}] /\ steps'[c] = NoStep
      /\ \A d \in StorageCallers : d # c => steps'[d] = steps[d]
  BY <1>1, <1>3, EndIs
<1>5. StorageTypes' /\ Alone'
  BY <1>1, <1>2, <1>3, <1>4, AloneStays DEF StorageTypes, InCall, others
<1>6. /\ \A f \in drive : changed(f) \in DriveFiles /\ changed(f).id = f.id /\ changed(f).uuid = f.uuid /\ changed(f).file = written
      /\ \A f \in hit : f \in drive /\ f.id = id /\ f.uuid = u
  BY <1>1, <1>2, <1>3 DEF DriveTypes, DriveFiles
<1> HIDE DEF changed
<1>7. /\ \A f \in new : f \in DriveFiles /\ \E g \in hit : f = changed(g) /\ f.id = id /\ f.uuid = u /\ f.file = written
      /\ \A f, g \in new : f = g
  BY <1>1, <1>2, <1>6 DEF DriveTypes
<1>8. /\ steps[c].step = "trash" => new = {}
      /\ steps[c].step # "trash" => new = {changed(f) : f \in hit}
  OBVIOUS
<1> HIDE DEF new
<1>9. DriveTypes'
  <2>1. drive' \subseteq DriveFiles /\ \A f \in drive' : f.id \in 1..driveIds
    BY <1>1, <1>2, <1>3, <1>6, <1>7 DEF DriveTypes
  <2>2. \A f, g \in drive' : f.id = g.id => f = g
    BY <1>1, <1>2, <1>3, <1>7 DEF DriveTypes
  <2>3. ASSUME NEW d \in StorageCallers, steps'[d] # NoStep
        PROVE  /\ steps'[d].id \in 0..driveIds
               /\ steps'[d].step \in {"search", "create", "place", "update", "trash"}
               /\ \A f \in drive' : f.id = steps'[d].id => f.uuid = steps'[d].uuid
    <3>1. steps'[d] = steps[d]
      BY <1>4, <2>3
    <3>2. \A f \in drive' : \E g \in drive : f.id = g.id /\ f.uuid = g.uuid
      BY <1>3, <1>6, <1>7
    <3> QED BY <1>1, <2>3, <3>1, <3>2 DEF DriveTypes
  <2> QED BY <1>3, <2>1, <2>2, <2>3 DEF DriveTypes
<1>10. ASSUME NEW v \in FileUuids \ overlapped PROVE DriveHolds(v)'
  <2>1. DriveHolds(v)
    BY <1>1 DEF DriveInv
  <2>2. CASE v # u
    <3>1. \A d \in StorageCallers : (InCall(d, v)' <=> InCall(d, v)) /\ (InCall(d, v) => steps'[d] = steps[d])
      BY <1>4, <1>2, <2>2 DEF InCall
    <3>2. lastWrite'[v] = lastWrite[v]
      BY <1>1, <1>3, <2>2 DEF StorageTypes
    <3>3. OnDrive(v)' = OnDrive(v)
      BY <1>3, <1>6, <1>7, <2>2 DEF OnDrive
    <3> QED BY <2>1, <3>1, <3>2, <3>3, HoldsOn
  <2>3. CASE v = u
    <3>1. \A d \in StorageCallers : ~InCall(d, v)'
      BY <1>1, <1>2, <1>3, <1>4, <2>3 DEF Alone, InCall
    <3>2. InStep(c, v, {"update", "trash"})
      BY <1>2, <1>3, <2>3 DEF InStep, InCall
    <3>3. PICK f \in drive : OnDrive(v) = {f} /\ f.id = id
      BY <1>2, <2>1, <3>2 DEF DriveHolds
    <3>4. steps[c].step = "trash" <=> written = NoFile
      BY <1>2, <2>1, <3>2 DEF DriveHolds
    <3>5. hit = {f}
      BY <1>1, <1>2, <3>3 DEF DriveTypes
    <3>6. lastWrite'[v] = written
      BY <1>1, <1>3, <2>3, <3>5 DEF StorageTypes
    <3>7. OnDrive(v)' = new
      BY <1>3, <1>7, <2>3, <3>3, <3>5 DEF OnDrive
    <3>8. OnlyFile(v, written)'
      <4>1. CASE written = NoFile
        BY <1>8, <3>4, <3>7, <4>1 DEF OnlyFile
      <4>2. CASE written # NoFile
        <5>1. new = {changed(f)} /\ changed(f).file = written /\ changed(f) \in drive'
          BY <1>3, <1>6, <1>8, <3>4, <3>5, <4>2
        <5> QED BY <3>7, <4>2, <5>1 DEF OnlyFile
      <4> QED BY <4>1, <4>2
    <3>9. OnlyFile(v, lastWrite[v])'
      BY <3>6, <3>8
    <3> QED BY <3>1, <3>9 DEF DriveHolds, InStep
  <2> QED BY <2>2, <2>3
<1> QED BY <1>1, <1>3, <1>5, <1>9, <1>10 DEF StorageInv, DriveInv, others

\* A folder that is made or put into the trash is none of the files.
LEMMA FoldersAreMirrored ==
  ASSUME StorageInv, NEW u \in FolderUuids, MirrorFolder(u) \/ TrashFolder(u), storageBackend = "google_drive"
  PROVE  StorageInv'
<1>1. StorageTypes /\ Alone /\ DriveInv /\ DriveTypes
  BY DEF StorageInv, DriveInv
<1>2. UNCHANGED <<others, bytes, types, steps, lastWrite, overlapped>>
  BY DEF MirrorFolder, TrashFolder
<1>3. DriveTypes' /\ driveIds' \in Nat /\ \A v : v # u => OnDrive(v)' = OnDrive(v)
  <2>1. CASE MirrorFolder(u)
    <3>1. PICK place : place = IF FolderOf[u] = RootPlace THEN 0 ELSE ItsId(FolderOf[u])
      OBVIOUS
    <3>2. place \in Nat
      BY <1>1, <2>1, <3>1, OneIsThere, ItsIdIs DEF MirrorFolder
    <3>3. PICK new : new = [id |-> driveIds', uuid |-> u, file |-> NoFile, place |-> place]
      OBVIOUS
    <3>4. driveIds' = driveIds + 1 /\ drive' = drive \cup {new}
      BY <2>1, <3>1, <3>3 DEF MirrorFolder
    <3>5. driveIds' \in Nat
      BY <1>1, <3>4 DEF StorageTypes
    <3>6. new \in DriveFiles /\ new.id = driveIds' /\ new.uuid = u
      BY <3>2, <3>3, <3>5 DEF DriveFiles, Writable
    <3>7. \A d \in StorageCallers : steps'[d] # NoStep =>
            steps'[d].step \in {"search", "create", "place", "update", "trash"} /\ steps'[d] = steps[d]
      BY <1>1, <1>2 DEF DriveTypes
    <3> QED BY <1>1, <3>4, <3>6, <3>7, NewFile
  <2>2. CASE TrashFolder(u)
    <3>1. drive' = drive \ OnDrive(u) /\ driveIds' = driveIds
      BY <2>2 DEF TrashFolder
    <3> QED BY <1>1, <1>2, <3>1 DEF DriveTypes, OnDrive, StorageTypes
  <2> QED BY <2>1, <2>2
<1>4. StorageTypes' /\ Alone'
  BY <1>1, <1>2, <1>3 DEF StorageTypes, Alone, InCall, others
<1>5. ASSUME NEW v \in FileUuids \ overlapped PROVE DriveHolds(v)'
  <2>1. DriveHolds(v) /\ v # u
    BY <1>1, StorageAssumption DEF DriveInv
  <2> QED BY <1>2, <1>3, <2>1, HoldsOn DEF InCall
<1> QED BY <1>1, <1>2, <1>3, <1>4, <1>5 DEF StorageInv, DriveInv, others

\* A stop leaves no call, and what calls were on has overlapped.
LEMMA StopIs == ASSUME StorageInv, StopStorage PROVE StorageInv'
<1>1. StorageTypes /\ Alone
  BY DEF StorageInv
<1>2. /\ steps' = [c \in StorageCallers |-> NoStep] /\ UNCHANGED <<storageBackend, drive, driveIds>>
      /\ overlapped' = overlapped \cup {u \in FileUuids : Busy(u)}
      /\ \A c \in StorageCallers : steps'[c] = NoStep
  BY DEF StopStorage
<1>3. \A v \in FileUuids \ overlapped' : v \notin overlapped /\ \A c \in StorageCallers : ~InCall(c, v)
  BY <1>2 DEF Busy, InCall
<1>4. /\ storageBackend # "inmem" => UNCHANGED <<bytes, types, lastWrite>>
      /\ storageBackend = "inmem" => /\ bytes' = [u \in FileUuids |-> NoFile]
                                     /\ types' = bytes' /\ lastWrite' = bytes'
  BY DEF StopStorage
<1>5. StorageTypes' /\ Alone'
  BY <1>1, <1>2, <1>4 DEF StorageTypes, Alone, InCall, Writable
<1>6. storageBackend' \in {"inmem", "s3"} => AtOnceInv'
  BY <1>2, <1>4 DEF StorageInv, AtOnceInv
<1>7. storageBackend' = "flat_file" => DirectoryInv'
  <2> SUFFICES ASSUME storageBackend = "flat_file" PROVE DirectoryInv'
    BY <1>2
  <2>1. UNCHANGED <<bytes, types, lastWrite>> /\ DirectoryInv
    BY <1>4 DEF StorageInv
  <2>2. \A v \in FileUuids \ overlapped' : bytes[v] = lastWrite[v] /\ types[v] = lastWrite[v]
    BY <1>3, <2>1 DEF DirectoryInv, InStep
  <2> QED BY <1>2, <2>1, <2>2 DEF DirectoryInv, InStep, InCall
<1>8. storageBackend' = "google_drive" => DriveInv'
  <2> SUFFICES ASSUME storageBackend = "google_drive" PROVE DriveInv'
    BY <1>2
  <2>1. UNCHANGED <<bytes, types, lastWrite>> /\ DriveInv
    BY <1>4 DEF StorageInv
  <2>2. DriveTypes'
    BY <1>2, <2>1 DEF DriveInv, DriveTypes
  <2>3. ASSUME NEW v \in FileUuids \ overlapped' PROVE DriveHolds(v)'
    <3>1. OnlyFile(v, lastWrite[v])
      BY <1>3, <2>1 DEF DriveInv, DriveHolds, InStep
    <3>2. OnlyFile(v, lastWrite[v])'
      BY <1>2, <2>1, <3>1 DEF OnlyFile, OnDrive
    <3> QED BY <1>2, <3>2 DEF DriveHolds, InStep, InCall
  <2> QED BY <2>2, <2>3 DEF DriveInv
<1> QED BY <1>5, <1>6, <1>7, <1>8 DEF StorageInv

\* What the storages hold between two requests, as long as the program runs.
LEMMA StorageHolds == StorageSpec => []StorageInv
<1>1. StorageInit(StorageBackends) => StorageInv
  BY StorageInitial
<1>2. StorageInv /\ [StorageNext]_storageVars => StorageInv'
  <2> SUFFICES ASSUME StorageInv, [StorageNext]_storageVars PROVE StorageInv'
    OBVIOUS
  <2>1. CASE MemoryCalls
    BY <2>1, AtOnceStays DEF MemoryCalls
  <2>2. CASE DirectoryCalls
    BY <2>2, DirectoryStays DEF DirectoryCalls
  <2>3. CASE S3Calls
    BY <2>3, AtOnceStays DEF S3Calls
  <2>4. CASE DriveCalls
    BY <2>4, DriveBegins, DriveSearches, DriveCreates, DrivePlaces, DriveUpdates, FoldersAreMirrored DEF DriveCalls
  <2>5. CASE StopStorage
    BY <2>5, StopIs
  <2>6. CASE UNCHANGED storageVars
    <3>1. StorageTypes' = StorageTypes /\ Alone' = Alone /\ AtOnceInv' = AtOnceInv /\ DirectoryInv' = DirectoryInv
      BY <2>6 DEF storageVars, StorageTypes, Alone, AtOnceInv, DirectoryInv, InStep, InCall
    <3>2. DriveInv' = DriveInv
      BY <2>6 DEF storageVars, DriveInv, DriveTypes, DriveHolds, OnlyFile, OnDrive, InStep, InCall
    <3> QED BY <2>6, <3>1, <3>2 DEF StorageInv, storageVars
  <2> QED BY <2>1, <2>2, <2>3, <2>4, <2>5, <2>6 DEF StorageNext
<1> QED BY <1>1, <1>2, PTL DEF StorageSpec

\* In each of the four storages a read with no call under way gives the bytes
\* and the mimetype of the write last reported, for every number of callers,
\* of uuids and of files.
THEOREM LastWritesAreRead == StorageSpec => []LastWriteIsRead
<1>1. StorageInv => LastWriteIsRead
  <2> SUFFICES ASSUME StorageInv, NEW u \in FileUuids \ (IF storageBackend \in {"inmem", "s3"} THEN {} ELSE overlapped),
                      ~Busy(u)
               PROVE  Read(u) = <<lastWrite[u], lastWrite[u]>>
    BY DEF LastWriteIsRead
  <2>1. storageBackend \in {"inmem", "flat_file", "s3", "google_drive"}
    BY StorageAssumption DEF StorageInv, StorageTypes
  <2>2. \A c \in StorageCallers : ~InCall(c, u)
    BY DEF Busy, InCall
  <2>3. CASE storageBackend # "google_drive"
    <3>1. bytes[u] = lastWrite[u] /\ types[u] = lastWrite[u]
      BY <2>1, <2>2, <2>3 DEF StorageInv, AtOnceInv, DirectoryInv, InStep
    <3> QED BY <2>3, <3>1 DEF Read
  <2>4. CASE storageBackend = "google_drive"
    <3>1. OnlyFile(u, lastWrite[u])
      BY <2>2, <2>4 DEF StorageInv, DriveInv, DriveHolds, InStep
    <3>2. CASE lastWrite[u] = NoFile
      <4>1. Cardinality(OnDrive(u)) # 1
        BY <3>1, <3>2, FS_EmptySet DEF OnlyFile
      <4> QED BY <2>4, <3>2, <4>1 DEF Read
    <3>3. CASE lastWrite[u] # NoFile
      <4>1. PICK f \in drive : OnDrive(u) = {f} /\ f.file = lastWrite[u]
        BY <3>1, <3>3 DEF OnlyFile
      <4>2. Cardinality(OnDrive(u)) = 1 /\ (CHOOSE g \in OnDrive(u) : TRUE) = f
        BY <4>1, FS_Singleton
      <4> QED BY <2>4, <4>1, <4>2 DEF Read
    <3> QED BY <3>2, <3>3
  <2> QED BY <2>3, <2>4
<1> QED BY <1>1, StorageHolds, PTL
=============================================================================

------------------------- MODULE NodeContentProofs -------------------------
(***************************************************************************)
(* For any number of requests, files and users: while no store fails and   *)
(* the server is not restarted, a record without its bytes is in the hands *)
(* of the request that creates or deletes it.                              *)
(*                                                                         *)
(* FilesHaveContent is inductive once it is known which processes the      *)
(* functions pc, req and local are about, and that the two counters count. *)
(*                                                                         *)
(* For requests that come one at a time (Procs = {p}), whatever fails: no  *)
(* bytes are left without a record, and what is reported as done is done   *)
(* in both stores.  AloneInv says what a request has done at each of its   *)
(* labels, and that a deletion nobody waits for is of a file that is       *)
(* being undone, and of none that was reported (Stores, Underway).         *)
(***************************************************************************)
EXTENDS NodeContent, FiniteSetTheorems, TLAPS

Shape ==
    /\ DOMAIN pc = Procs /\ DOMAIN req = Procs /\ DOMAIN local = Procs
    /\ failures \in Nat /\ crashes \in Nat

\* The request p is between the two stores with the file f.
InHand(p, f) ==
    \/ At(p, "createFile.write") /\ local[p].file = f
    \/ At(p, "deleting") /\ Target(p) = f

Bare == DOMAIN records \ DOMAIN blobs

IInv == Shape /\ FilesHaveContent

\* What an action of p has to show: it touches nobody else's request, and what
\* it leaves bare was bare before and not in p's hands, or is in them now.
LEMMA Carried ==
    ASSUME NEW p \in Procs, FilesHaveContent,
           failures' = failures, crashes' = crashes,
           \A q \in Procs \ {p} :
              pc'[q] = pc[q] /\ req'[q] = req[q] /\ local'[q] = local[q],
           \A f \in Bare' : (f \in Bare /\ ~InHand(p, f)) \/ InHand(p, f)'
    PROVE  FilesHaveContent'
<1> SUFFICES ASSUME failures' = 0, crashes' = 0, NEW f \in Bare'
             PROVE  \E q \in Procs : InHand(q, f)'
    BY DEF FilesHaveContent, InHand, Bare
<1>1. CASE InHand(p, f)'
      BY <1>1
<1>2. CASE f \in Bare /\ ~InHand(p, f)
  <2>1. PICK q \in Procs : InHand(q, f)
        BY <1>2 DEF FilesHaveContent, InHand, Bare
  <2>2. q # p
        BY <2>1, <1>2
  <2>3. InHand(q, f)'
        BY <2>1, <2>2 DEF InHand, At, Target
  <2> QED BY <2>3
<1> QED BY <1>1, <1>2

LEMMA Initially == Init => IInv
BY DEF Init, IInv, Shape, FilesHaveContent

\* Handlers that only read, check or reply move nothing between the stores.
LEMMA CreateStep ==
    ASSUME IInv, NEW p \in Procs, Create(p)
    PROVE  IInv'
<1> USE DEF IInv, Shape
<1>1. CASE Copy(p)
  <2>1. Shape' /\ Bare' = Bare
        BY <1>1 DEF Copy, Read, Holds, Goto, Bare
  <2>2. \A f \in Bare : ~InHand(p, f)
        BY <1>1 DEF Copy, Read, InHand, At
  <2> QED BY <1>1, <2>1, <2>2, Carried DEF Copy, Read, Holds, Goto
<1>2. CASE CopyRead(p)
  <2>1. Shape' /\ Bare' = Bare
        BY <1>2 DEF CopyRead, Holds, Goto, Bare
  <2>2. \A f \in Bare : ~InHand(p, f)
        BY <1>2 DEF CopyRead, InHand, At
  <2> QED BY <1>2, <2>1, <2>2, Carried DEF CopyRead, Holds, Goto
<1>3. CASE CreateCheck(p)
  <2>1. Shape' /\ Bare' = Bare
        BY <1>3 DEF CreateCheck, Goto, Bare, handler
  <2>2. \A f \in Bare : ~InHand(p, f)
        BY <1>3 DEF CreateCheck, InHand, At
  <2> QED BY <1>3, <2>1, <2>2, Carried DEF CreateCheck, Goto, handler
<1>4. CASE CreateAdd(p)
  <2>1. Shape'
        BY <1>4 DEF CreateAdd, Holds, Goto
  <2>2. \A f \in Bare : ~InHand(p, f)
        BY <1>4 DEF CreateAdd, InHand, At
  <2>3. CASE UNCHANGED records
    <3>1. Bare' = Bare
          BY <1>4, <2>3 DEF CreateAdd, Bare
    <3> QED BY <1>4, <2>1, <2>2, <3>1, Carried DEF CreateAdd, Holds, Goto
  <2>4. CASE /\ Goto(p, "createFile.write")
             /\ \E f \in Files \ issued :
                   Holds(p, f, NewRecord(p)) /\ records' = Put(records, f, NewRecord(p))
    <3>1. PICK g \in Files \ issued :
             Holds(p, g, NewRecord(p)) /\ records' = Put(records, g, NewRecord(p))
          BY <2>4
    <3>2. InHand(p, g)'
          BY <2>4, <3>1 DEF InHand, At, Goto, Holds
    <3>3. Bare' \subseteq Bare \cup {g}
          BY <1>4, <3>1 DEF Put, CreateAdd, Bare
    <3> QED BY <1>4, <2>1, <2>2, <3>2, <3>3, Carried DEF CreateAdd, Holds, Goto
  <2> QED BY <1>4, <2>3, <2>4 DEF CreateAdd
<1>5. CASE CreateWrite(p)
  <2>1. Shape'
        BY <1>5 DEF CreateWrite, Goto, handler
  <2>2. Bare' = Bare \ {local[p].file}
        BY <1>5 DEF Put, CreateWrite, handler, Bare
  <2>3. \A f \in Bare' : ~InHand(p, f)
        BY <1>5, <2>2 DEF CreateWrite, InHand, At
  <2> QED BY <1>5, <2>1, <2>2, <2>3, Carried DEF CreateWrite, Goto, handler
<1> QED BY <1>1, <1>2, <1>3, <1>4, <1>5 DEF Create

LEMMA ReplaceStep ==
    ASSUME IInv, NEW p \in Procs, Replace(p)
    PROVE  IInv'
<1> USE DEF IInv, Shape
<1>1. CASE UpdateFile(p) \/ Update(p) \/ Mark(p)
  <2>1. Shape' /\ Bare' = Bare
        BY <1>1 DEF UpdateFile, Update, Mark, Read, Holds, Goto, Bare
  <2>2. \A f \in Bare : ~InHand(p, f)
        BY <1>1 DEF UpdateFile, Update, Mark, Read, InHand, At
  <2> QED BY <1>1, <2>1, <2>2, Carried
          DEF UpdateFile, Update, Mark, Read, Holds, Goto
<1>2. CASE UpdateFileCheck(p)
  <2>1. Shape' /\ Bare' = Bare
        BY <1>2 DEF UpdateFileCheck, Goto, Bare, handler
  <2>2. \A f \in Bare : ~InHand(p, f)
        BY <1>2 DEF UpdateFileCheck, InHand, At
  <2> QED BY <1>2, <2>1, <2>2, Carried DEF UpdateFileCheck, Goto, handler
<1>3. CASE UpdateFileWrite(p)
  <2>1. Shape' /\ Bare' \subseteq Bare
        BY <1>3 DEF Put, UpdateFileWrite, Goto, Bare, handler
  <2>2. \A f \in Bare : ~InHand(p, f)
        BY <1>3 DEF UpdateFileWrite, InHand, At
  <2> QED BY <1>3, <2>1, <2>2, Carried DEF UpdateFileWrite, Goto, handler
<1>4. CASE Updating(p)
  <2>1. Shape' /\ Bare' = Bare
        BY <1>4 DEF Put, Updating, Write, Goto, Bare, handler
  <2>2. \A f \in Bare : ~InHand(p, f)
        BY <1>4 DEF Updating, Write, InHand, At
  <2> QED BY <1>4, <2>1, <2>2, Carried DEF Updating, Write, Goto, handler
<1> QED BY <1>1, <1>2, <1>3, <1>4 DEF Replace

LEMMA LockStep ==
    ASSUME IInv, NEW p \in Procs, LockRequests(p)
    PROVE  IInv'
<1> USE DEF IInv, Shape
<1>1. CASE Lock(p) \/ Unlock(p)
  <2>1. Shape' /\ Bare' = Bare
        BY <1>1 DEF Lock, Unlock, Read, Holds, Goto, Bare
  <2>2. \A f \in Bare : ~InHand(p, f)
        BY <1>1 DEF Lock, Unlock, Read, InHand, At
  <2> QED BY <1>1, <2>1, <2>2, Carried DEF Lock, Unlock, Read, Holds, Goto
<1>2. CASE Locking(p) \/ Unlocking(p)
  <2>1. Shape' /\ Bare' = Bare
        BY <1>2 DEF Put, Locking, Unlocking, Write, Goto, Bare, handler
  <2>2. \A f \in Bare : ~InHand(p, f)
        BY <1>2 DEF Locking, Unlocking, Write, InHand, At
  <2> QED BY <1>2, <2>1, <2>2, Carried DEF Locking, Unlocking, Write, Goto, handler
<1> QED BY <1>1, <1>2 DEF LockRequests

LEMMA EraseStep ==
    ASSUME IInv, NEW p \in Procs, Erase(p)
    PROVE  IInv'
<1> USE DEF IInv, Shape
<1>1. CASE Delete(p)
  <2>1. Shape' /\ Bare' = Bare
        BY <1>1 DEF Delete, Read, Holds, Goto, Bare
  <2>2. \A f \in Bare : ~InHand(p, f)
        BY <1>1 DEF Delete, Read, InHand, At
  <2> QED BY <1>1, <2>1, <2>2, Carried DEF Delete, Read, Holds, Goto
<1>2. CASE DeleteBlob(p)
  <2>1. Shape'
        BY <1>2 DEF DeleteBlob, Goto, handler
  <2>2. \A f \in Bare : ~InHand(p, f)
        BY <1>2 DEF DeleteBlob, InHand, At
  <2>3. CASE UNCHANGED blobs
    <3>1. Bare' = Bare
          BY <1>2, <2>3 DEF DeleteBlob, Bare
    <3> QED BY <1>2, <2>1, <2>2, <3>1, Carried DEF DeleteBlob, Goto, handler
  <2>4. CASE blobs' = Remove(blobs, Target(p)) /\ Goto(p, "deleting")
    <3>1. InHand(p, Target(p))'
          BY <1>2, <2>4 DEF DeleteBlob, InHand, At, Goto, Target, handler
    <3>2. Target(p)' = Target(p)
          BY <1>2 DEF DeleteBlob, Target, handler
    <3>3. Bare' \subseteq Bare \cup {Target(p)}
          BY <1>2, <2>4 DEF Remove, DeleteBlob, Bare
    <3> QED BY <1>2, <2>1, <2>2, <3>1, <3>2, <3>3, Carried
            DEF DeleteBlob, Goto, handler
  <2> QED BY <1>2, <2>3, <2>4 DEF DeleteBlob
<1>3. CASE Deleting(p)
  <2>1. Shape'
        BY <1>3 DEF Deleting, Goto, handler
  <2>2. Bare' = Bare \ {Target(p)}
        BY <1>3 DEF Remove, Deleting, handler, Bare
  <2>3. \A f \in Bare' : ~InHand(p, f)
        BY <1>3, <2>2 DEF Deleting, InHand, At
  <2> QED BY <1>3, <2>1, <2>2, <2>3, Carried DEF Deleting, Goto, handler
<1> QED BY <1>1, <1>2, <1>3 DEF Erase

LEMMA ServerStep ==
    ASSUME IInv, NEW p \in Procs, Issue(p) \/ Reply(p)
    PROVE  IInv'
<1> USE DEF IInv, Shape
<1>1. Shape' /\ Bare' = Bare
      BY DEF Issue, Reply, Goto, Bare
<1>2. \A f \in Bare : ~InHand(p, f)
      BY DEF Issue, Reply, InHand, At
<1> QED BY <1>1, <1>2, Carried DEF Issue, Reply, Goto

\* After a failure or a restart nothing is promised.
LEMMA FaultStep ==
    ASSUME IInv, Crash \/ \E p \in Procs : Fails(p)
    PROVE  IInv'
<1> USE DEF IInv, Shape
<1>1. CASE Crash
      BY <1>1 DEF Crash, FilesHaveContent
<1>2. ASSUME NEW p \in Procs, Fails(p)
      PROVE  IInv'
  <2>1. Shape'
        BY <1>2 DEF Fails, CreateWriteFails, RepositoryFails, StorageFails, Goto
  <2>2. failures' # 0
        BY <1>2 DEF Fails
  <2> QED BY <2>1, <2>2 DEF FilesHaveContent
<1> QED BY <1>1, <1>2

LEMMA UndoStep ==
    ASSUME IInv, NEW f \in undoing, Undo(f)
    PROVE  IInv'
<1> USE DEF IInv, Shape
<1>1. Shape'
      BY DEF Undo
<1>2. CASE failures' # 0
      BY <1>1, <1>2 DEF FilesHaveContent
<1>3. CASE failures' = 0
  <2>1. /\ records' = Remove(records, f)
        /\ UNCHANGED <<blobs, pc, req, local, failures, crashes>>
        BY <1>3 DEF Undo
  <2>2. DOMAIN records' \subseteq DOMAIN records
        BY <2>1 DEF Remove
  <2> QED BY <1>1, <2>1, <2>2 DEF FilesHaveContent, At, Target
<1> QED BY <1>2, <1>3

LEMMA Step == IInv /\ [Next]_vars => IInv'
<1> SUFFICES ASSUME IInv, [Next]_vars
             PROVE  IInv'
    OBVIOUS
<1>1. ASSUME NEW p \in Procs, Create(p) PROVE IInv'
      BY <1>1, CreateStep
<1>2. ASSUME NEW p \in Procs, Replace(p) PROVE IInv'
      BY <1>2, ReplaceStep
<1>3. ASSUME NEW p \in Procs, LockRequests(p) PROVE IInv'
      BY <1>3, LockStep
<1>4. ASSUME NEW p \in Procs, Erase(p) PROVE IInv'
      BY <1>4, EraseStep
<1>5. ASSUME NEW p \in Procs, Issue(p) \/ Reply(p) PROVE IInv'
      BY <1>5, ServerStep
<1>6. CASE Crash \/ \E p \in Procs : Fails(p)
      BY <1>6, FaultStep
<1>7. ASSUME NEW f \in undoing, Undo(f) PROVE IInv'
      BY <1>7, UndoStep
<1>8. CASE UNCHANGED vars
      BY <1>8 DEF vars, IInv, Shape, FilesHaveContent, At, Target
<1> QED BY <1>1, <1>2, <1>3, <1>4, <1>5, <1>6, <1>7, <1>8 DEF Next

----------------------------------------------------------------------------
\* However uploads, copies, replacements, updates, locks and deletions
\* interleave, no record loses its bytes but at the hands of the request that
\* deletes it (the order of the two stores in createFile and in delete).
THEOREM FilesKeepContent == Spec => []FilesHaveContent
<1>1. IInv => FilesHaveContent
      BY DEF IInv
<1> QED BY <1>1, Initially, Step, PTL DEF Spec

----------------------------------------------------------------------------
(* One request at a time, with failures, restarts and the deletions that   *)
(* createFile does not await.                                              *)

\* A record of a file is metadata and a size.
Sized(r) == r = [meta |-> r.meta, size |-> r.size]

\* The request that stands at a label.
Labelled(p) ==
    /\ pc[p] # "idle" => req[p] \in Requests
    /\ pc[p] \in {"copy", "copy.read"} => req[p].op = "copy"
    /\ pc[p] \in {"createFile", "createFile.add", "createFile.write"} => req[p].op \in {"createFile", "copy"}
    /\ pc[p] \in {"updateFile", "updateFile.check", "updateFile.write"} => req[p].op = "updateFile"
    /\ pc[p] \in {"update", "updating"} => req[p].op \in {"updateFile", "update", "mark"}
    /\ pc[p] \in {"mark"} => req[p].op = "mark"
    /\ pc[p] \in {"lock", "locking", "unlock", "unlocking"} => req[p].op \in {"lock", "unlock"}
    /\ pc[p] \in {"delete", "delete.blob", "deleting"} => req[p].op = "delete"

\* What the request has done so far, and what it holds.
Underway(p) ==
    /\ pc[p] \in {"copy.read", "updating", "locking", "unlocking"} => Sized(local[p].rec)
    /\ pc[p] \in {"createFile", "createFile.add"} /\ req[p].op = "copy" => Sized(local[p].rec)
    /\ At(p, "createFile.write") =>
          /\ local[p].file \in DOMAIN records /\ local[p].file \in issued /\ local[p].file \notin undone
          /\ records[local[p].file] = local[p].rec
    /\ pc[p] \in {"updateFile.check", "updateFile.write"} => Target(p) \in DOMAIN records \cup undone
    /\ pc[p] \in {"update", "updating"} /\ req[p].op = "updateFile" =>
          Target(p) \in DOMAIN blobs /\ blobs[Target(p)] = req[p].size
    /\ At(p, "updating") /\ req[p].op = "updateFile" => local[p].rec.size = req[p].size
    /\ At(p, "deleting") => Target(p) \notin DOMAIN blobs
    /\ At(p, "ok") /\ req[p].op \in {"createFile", "copy"} => local[p].file \notin undone

\* Bytes are put after the record and taken before it, so that none is left
\* but of a file that is being undone.
Stores ==
    /\ \A f \in DOMAIN records : Sized(records[f])
    /\ undoing \subseteq undone /\ undone \subseteq issued
    /\ DOMAIN blobs \subseteq DOMAIN records \cup undone

AloneInv == Shape /\ Stores /\ (\A p \in Procs : Labelled(p) /\ Underway(p)) /\ DoneInBothStores

\* The request alone is what there is to show.
LEMMA OneRequest ==
  ASSUME NEW p, Procs = {p}, Shape', Stores', Labelled(p)', Underway(p)',
         At(p, "ok")' => DoneInBothStores'
  PROVE  AloneInv'
BY DEF AloneInv, DoneInBothStores

\* What is stored at the start is stored in both stores.
LEMMA AloneInitially == Init => AloneInv
BY ContentAssumption DEF Init, AloneInv, Shape, Stores, Labelled, Underway, DoneInBothStores, At, Fresh, Sized

\* What an operation that writes the record has done.
LEMMA WriteIs ==
  ASSUME NEW p, Procs = {p}, Shape, NEW at, Write(p, at)
  PROVE  /\ Shape' /\ pc[p] = at /\ UNCHANGED <<blobs, issued, req, local, undoing, undone, failures, crashes>>
         /\ DOMAIN records' = DOMAIN records
         /\ \A f \in DOMAIN records : f # Target(p) => records'[f] = records[f]
         /\ \/ pc'[p] = "error" /\ UNCHANGED records
            \/ pc'[p] = "ok" /\ Target(p) \in DOMAIN records /\ records'[Target(p)] = local[p].rec
BY DEF Shape, Write, Goto, At, Put, handler

\* Other metadata leave a record one.
LEMMA MetaIs ==
  ASSUME NEW rec, NEW meta, Sized(rec)
  PROVE  Sized([rec EXCEPT !.meta = meta]) /\ [rec EXCEPT !.meta = meta].size = rec.size
<1>1. PICK m, n : rec = [meta |-> m, size |-> n]
  BY DEF Sized
<1>2. [rec EXCEPT !.meta = meta] = [meta |-> meta, size |-> n]
  BY <1>1
<1>3. Sized([meta |-> meta, size |-> n])
  BY DEF Sized
<1> QED BY <1>1, <1>2, <1>3

\* A record made anew has the size that was asked for.
LEMMA RebuiltIs ==
  ASSUME NEW p, NEW rec, Sized(rec)
  PROVE  Sized(Rebuilt(p, rec)) /\ (req[p].op = "updateFile" => Rebuilt(p, rec).size = req[p].size)
<1>1. PICK m, n, k : /\ rec = [meta |-> m, size |-> n]
                      /\ k = IF req[p].op = "updateFile" THEN req[p].size ELSE 0
  BY DEF Sized
<1>2. Rebuilt(p, rec) = [meta |-> m, size |-> k]
  BY <1>1 DEF Rebuilt
<1>3. Sized([meta |-> m, size |-> k])
  BY DEF Sized
<1> QED BY <1>1, <1>2, <1>3

\* An upload stores the record of a new file, then its bytes.
LEMMA CreateAlone ==
  ASSUME NEW p, Procs = {p}, AloneInv, Create(p) PROVE AloneInv'
<1> USE DEF AloneInv, Shape, Stores, Labelled, Underway, At, Target
<1>1. p \in Procs
  OBVIOUS
<1>2. CASE Copy(p)
  <2>1. /\ Shape' /\ pc[p] = "copy" /\ UNCHANGED <<records, blobs, issued, req, undoing, undone, failures, crashes>>
        /\ \/ pc'[p] = "error" /\ local' = local
           \/ pc'[p] = "copy.read" /\ local'[p].rec = records[Target(p)] /\ Target(p) \in DOMAIN records
    BY <1>1, <1>2 DEF Copy, Read, Holds, Goto
  <2> QED BY <1>1, <2>1, OneRequest
<1>3. CASE CopyRead(p)
  <2>1. Sized(local[p].rec) => Sized([local[p].rec EXCEPT !.size = blobs[Target(p)]])
    BY DEF Sized
  <2>2. /\ Shape' /\ pc[p] = "copy.read" /\ UNCHANGED <<records, blobs, issued, req, undoing, undone, failures, crashes>>
        /\ \/ pc'[p] = "error" /\ local' = local
           \/ pc'[p] = "createFile" /\ local'[p].rec = [local[p].rec EXCEPT !.size = blobs[Target(p)]]
    BY <1>1, <1>3 DEF CopyRead, Holds, Goto
  <2> QED BY <1>1, <2>1, <2>2, OneRequest
<1>4. CASE CreateCheck(p)
  <2>1. /\ UNCHANGED <<records, blobs, issued, req, local, undoing, undone, failures, crashes>>
        /\ pc' = [pc EXCEPT ![p] = pc'[p]] /\ pc'[p] \in {"createFile.add", "error"} /\ pc[p] = "createFile"
    BY <1>1, <1>4 DEF CreateCheck, Goto, handler
  <2> QED BY <1>1, <2>1, OneRequest
<1>5. CASE CreateAdd(p)
  <2>1. CASE Goto(p, "error") /\ UNCHANGED <<records, issued, local>>
    BY <1>1, <1>5, <2>1, OneRequest DEF CreateAdd, Goto
  <2>2. CASE ~(Goto(p, "error") /\ UNCHANGED <<records, issued, local>>)
    <3>1. PICK f \in Files \ issued :
            /\ issued' = issued \cup {f} /\ records' = Put(records, f, NewRecord(p))
            /\ local' = [local EXCEPT ![p] = [file |-> f, rec |-> NewRecord(p)]]
      BY <1>5, <2>2 DEF CreateAdd, Holds
    <3>2. Sized(NewRecord(p)) /\ req[p].op \in {"createFile", "copy"}
      BY <1>1, <1>5 DEF NewRecord, Fresh, Sized, CreateAdd
    <3>3. pc' = [pc EXCEPT ![p] = "createFile.write"] /\ UNCHANGED <<blobs, req, undoing, undone, failures, crashes>>
      BY <1>5, <2>2 DEF CreateAdd, Goto
    <3>4. PICK new : new = NewRecord(p)
      OBVIOUS
    <3>5. DOMAIN records' = DOMAIN records \cup {f} /\ records'[f] = new
          /\ \A g \in DOMAIN records : g # f => records'[g] = records[g]
      BY <3>1, <3>4 DEF Put
    <3>6. local'[p].file = f /\ local'[p].rec = new /\ DOMAIN local' = Procs /\ pc'[p] = "createFile.write" /\ DOMAIN pc' = Procs
      BY <1>1, <3>1, <3>3, <3>4
    <3>7. Stores'
      BY <1>1, <3>1, <3>2, <3>3, <3>4, <3>5
    <3>8. Shape' /\ Labelled(p)' /\ req'[p].op \in {"createFile", "copy"}
      BY <1>1, <1>5, <3>2, <3>3, <3>6 DEF CreateAdd
    <3>9. Underway(p)'
      BY <1>1, <3>1, <3>3, <3>5, <3>6
    <3> QED BY <1>1, <3>6, <3>7, <3>8, <3>9, OneRequest
  <2> QED BY <2>1, <2>2
<1>6. CASE CreateWrite(p)
  <2>1. /\ pc' = [pc EXCEPT ![p] = "ok"] /\ blobs' = Put(blobs, local[p].file, local[p].rec.size)
        /\ UNCHANGED <<records, issued, req, local, undoing, undone, failures, crashes>>
        /\ pc[p] = "createFile.write" /\ pc'[p] = "ok"
    BY <1>1, <1>6 DEF CreateWrite, Goto, handler
  <2>2. /\ DOMAIN blobs' = DOMAIN blobs \cup {local[p].file}
        /\ blobs'[local[p].file] = records[local[p].file].size
    BY <1>1, <2>1 DEF Put
  <2>3. Stores' /\ Shape' /\ Labelled(p)' /\ Underway(p)'
    BY <1>1, <2>1, <2>2
  <2>4. DoneInBothStores'
    BY <1>1, <2>1, <2>2 DEF DoneInBothStores
  <2> QED BY <2>3, <2>4, OneRequest
<1> QED BY <1>2, <1>3, <1>4, <1>5, <1>6 DEF Create

\* A replacement stores the bytes of a file on record, then the record.
LEMMA ReplaceAlone ==
  ASSUME NEW p, Procs = {p}, AloneInv, Replace(p) PROVE AloneInv'
<1> USE DEF AloneInv, Shape, Stores, Labelled, Underway, At, Target
<1>1. p \in Procs
  OBVIOUS
<1>2. CASE UpdateFile(p)
  <2>1. /\ Shape' /\ pc[p] = "updateFile" /\ UNCHANGED <<records, blobs, issued, req, undoing, undone, failures, crashes>>
        /\ pc'[p] = "error" \/ (pc'[p] = "updateFile.check" /\ Target(p) \in DOMAIN records)
    BY <1>1, <1>2 DEF UpdateFile, Read, Holds, Goto
  <2> QED BY <1>1, <2>1, OneRequest
<1>3. CASE UpdateFileCheck(p)
  <2>1. /\ UNCHANGED <<records, blobs, issued, req, local, undoing, undone, failures, crashes>>
        /\ pc' = [pc EXCEPT ![p] = pc'[p]] /\ pc'[p] \in {"updateFile.write", "error"} /\ pc[p] = "updateFile.check"
    BY <1>1, <1>3 DEF UpdateFileCheck, Goto, handler
  <2> QED BY <1>1, <2>1, OneRequest
<1>4. CASE UpdateFileWrite(p)
  <2>1. /\ pc' = [pc EXCEPT ![p] = "update"] /\ blobs' = Put(blobs, Target(p), req[p].size)
        /\ UNCHANGED <<records, issued, req, local, undoing, undone, failures, crashes>>
        /\ pc[p] = "updateFile.write" /\ pc'[p] = "update"
    BY <1>1, <1>4 DEF UpdateFileWrite, Goto, handler
  <2>2. DOMAIN blobs' = DOMAIN blobs \cup {Target(p)} /\ blobs'[Target(p)] = req[p].size
    BY <1>1, <2>1 DEF Put
  <2> QED BY <1>1, <2>1, <2>2, OneRequest
<1>5. CASE Update(p) \/ Mark(p)
  <2>1. PICK rec : rec = records[Target(p)]
    OBVIOUS
  <2>2. /\ Shape' /\ pc[p] \in {"update", "mark"} /\ UNCHANGED <<records, blobs, issued, req, undoing, undone, failures, crashes>>
        /\ \/ pc'[p] = "error" /\ local' = local
           \/ /\ pc'[p] = "updating" /\ Target(p) \in DOMAIN records
              /\ \/ local'[p].rec = Rebuilt(p, rec)
                 \/ local'[p].rec = [Rebuilt(p, rec) EXCEPT !.meta = Marked(@, req[p].inst, req[p].state)]
    BY <1>1, <1>5, <2>1 DEF Update, Mark, Read, Holds, Goto
  <2>3. CASE pc'[p] = "error"
    BY <1>1, <2>2, <2>3, OneRequest
  <2>4. CASE pc'[p] # "error"
    <3>1. Sized(rec)
      BY <2>1, <2>2, <2>4
    <3>2. Sized(local'[p].rec) /\ (req[p].op = "updateFile" => local'[p].rec.size = req[p].size)
      <4>1. PICK new, meta : new = Rebuilt(p, rec) /\ meta = Marked(new.meta, req[p].inst, req[p].state)
        OBVIOUS
      <4>2. Sized(new) /\ (req[p].op = "updateFile" => new.size = req[p].size)
        BY <3>1, <4>1, RebuiltIs
      <4>3. local'[p].rec = new \/ local'[p].rec = [new EXCEPT !.meta = meta]
        BY <2>2, <2>4, <4>1
      <4>4. Sized([new EXCEPT !.meta = meta]) /\ [new EXCEPT !.meta = meta].size = new.size
        BY <4>2, MetaIs
      <4> QED BY <4>2, <4>3, <4>4
    <3> QED BY <1>1, <2>2, <2>4, <3>2, OneRequest
  <2> QED BY <2>3, <2>4
<1>6. CASE Updating(p)
  <2>1. /\ Shape' /\ pc[p] = "updating" /\ UNCHANGED <<blobs, issued, req, local, undoing, undone, failures, crashes>>
        /\ DOMAIN records' = DOMAIN records
        /\ \A f \in DOMAIN records : f # Target(p) => records'[f] = records[f]
        /\ \/ pc'[p] = "error" /\ UNCHANGED records
           \/ pc'[p] = "ok" /\ Target(p) \in DOMAIN records /\ records'[Target(p)] = local[p].rec
    BY <1>6, WriteIs DEF Updating
  <2>2. Stores' /\ Labelled(p)' /\ Underway(p)'
    BY <1>1, <2>1
  <2>3. At(p, "ok")' => DoneInBothStores'
    BY <1>1, <2>1 DEF DoneInBothStores
  <2> QED BY <2>1, <2>2, <2>3, OneRequest
<1> QED BY <1>2, <1>3, <1>4, <1>5, <1>6 DEF Replace

\* Locks change the metadata alone.
LEMMA LockAlone ==
  ASSUME NEW p, Procs = {p}, AloneInv, LockRequests(p) PROVE AloneInv'
<1> USE DEF AloneInv, Shape, Stores, Labelled, Underway, At, Target
<1>1. p \in Procs
  OBVIOUS
<1>2. CASE Lock(p) \/ Unlock(p)
  <2>1. PICK rec : rec = records[Target(p)]
    OBVIOUS
  <2>2. /\ Shape' /\ pc[p] \in {"lock", "unlock"} /\ UNCHANGED <<records, blobs, issued, req, undoing, undone, failures, crashes>>
        /\ \/ pc'[p] = "error" /\ local' = local
           \/ /\ pc'[p] \in {"locking", "unlocking"} /\ Target(p) \in DOMAIN records
              /\ \/ local'[p].rec = [rec EXCEPT !.meta = Locked(@, req[p].user, req[p].groups)]
                 \/ local'[p].rec = [rec EXCEPT !.meta = Unlocked(@)]
    BY <1>1, <1>2, <2>1 DEF Lock, Unlock, Read, Holds, Goto
  <2>3. CASE pc'[p] = "error"
    BY <1>1, <2>2, <2>3, OneRequest
  <2>4. CASE pc'[p] # "error"
    <3>1. Sized(rec)
      BY <2>1, <2>2, <2>4
    <3>2. PICK meta, other : meta = Locked(rec.meta, req[p].user, req[p].groups) /\ other = Unlocked(rec.meta)
      OBVIOUS
    <3>3. local'[p].rec = [rec EXCEPT !.meta = meta] \/ local'[p].rec = [rec EXCEPT !.meta = other]
      BY <2>2, <2>4, <3>2
    <3>4. Sized([rec EXCEPT !.meta = meta]) /\ Sized([rec EXCEPT !.meta = other])
      BY <3>1, MetaIs
    <3> QED BY <1>1, <2>2, <2>4, <3>3, <3>4, OneRequest
  <2> QED BY <2>3, <2>4
<1>3. CASE Locking(p) \/ Unlocking(p)
  <2>1. /\ Shape' /\ pc[p] \in {"locking", "unlocking"} /\ UNCHANGED <<blobs, issued, req, local, undoing, undone, failures, crashes>>
        /\ DOMAIN records' = DOMAIN records
        /\ \A f \in DOMAIN records : f # Target(p) => records'[f] = records[f]
        /\ \/ pc'[p] = "error" /\ UNCHANGED records
           \/ pc'[p] = "ok" /\ Target(p) \in DOMAIN records /\ records'[Target(p)] = local[p].rec
    BY <1>3, WriteIs DEF Locking, Unlocking
  <2> QED BY <1>1, <2>1, OneRequest DEF DoneInBothStores
<1> QED BY <1>2, <1>3 DEF LockRequests

\* A deletion takes the bytes, then the record.
LEMMA EraseAlone ==
  ASSUME NEW p, Procs = {p}, AloneInv, Erase(p) PROVE AloneInv'
<1> USE DEF AloneInv, Shape, Stores, Labelled, Underway, At, Target
<1>1. p \in Procs
  OBVIOUS
<1>2. CASE Delete(p)
  <2>1. /\ Shape' /\ pc[p] = "delete" /\ UNCHANGED <<records, blobs, issued, req, undoing, undone, failures, crashes>>
        /\ pc'[p] \in {"error", "delete.blob"}
    BY <1>1, <1>2 DEF Delete, Read, Holds, Goto
  <2> QED BY <1>1, <2>1, OneRequest
<1>3. CASE DeleteBlob(p)
  <2>1. /\ Shape' /\ pc[p] = "delete.blob" /\ UNCHANGED <<records, issued, req, local, undoing, undone, failures, crashes>>
        /\ \/ pc'[p] = "error" /\ UNCHANGED blobs
           \/ pc'[p] = "deleting" /\ blobs' = Remove(blobs, Target(p))
    BY <1>1, <1>3 DEF DeleteBlob, Goto, handler
  <2> QED BY <1>1, <2>1, OneRequest DEF Remove
<1>4. CASE Deleting(p)
  <2>1. /\ Shape' /\ pc[p] = "deleting" /\ UNCHANGED <<blobs, issued, req, local, undoing, undone, failures, crashes>>
        /\ records' = Remove(records, Target(p)) /\ pc'[p] \in {"ok", "error"}
    BY <1>1, <1>4 DEF Deleting, Goto, handler
  <2>2. /\ DOMAIN records' = DOMAIN records \ {Target(p)}
        /\ \A f \in DOMAIN records' : records'[f] = records[f]
    BY <2>1 DEF Remove
  <2>3. Stores' /\ Labelled(p)' /\ Underway(p)'
    BY <1>1, <2>1, <2>2
  <2>4. DoneInBothStores'
    BY <1>1, <2>1, <2>2 DEF DoneInBothStores
  <2> QED BY <1>1, <2>1, <2>3, <2>4, OneRequest
<1> QED BY <1>2, <1>3, <1>4 DEF Erase

\* A request begins with nothing done, and ends with nothing to do.
LEMMA ServerAlone ==
  ASSUME NEW p, Procs = {p}, AloneInv, Issue(p) \/ Reply(p) PROVE AloneInv'
<1> USE DEF AloneInv, Shape, Stores, Labelled, Underway, At, Target
<1>1. p \in Procs
  OBVIOUS
<1>2. CASE Issue(p)
  <2>1. PICK r \in Requests : req' = [req EXCEPT ![p] = r] /\ pc' = [pc EXCEPT ![p] = r.op]
    BY <1>2 DEF Issue, Goto
  <2>2. r.op \in {"createFile", "updateFile", "copy", "update", "delete", "unlock", "lock", "mark"}
    BY ContentAssumption DEF Request, UploadRequest, ReplaceRequest, FileRequest, LockRequest, MarkRequest
  <2>3. UNCHANGED <<records, blobs, issued, local, undoing, undone, failures, crashes>> /\ pc[p] = "idle"
    BY <1>2 DEF Issue
  <2>4. pc'[p] = r.op /\ req'[p] = r /\ Shape' /\ Stores'
    BY <1>1, <2>1, <2>3
  <2> QED BY <1>1, <2>2, <2>3, <2>4, OneRequest
<1>3. CASE Reply(p)
  BY <1>1, <1>3, OneRequest DEF Reply, Goto
<1> QED BY <1>2, <1>3

\* After a failed upload its bytes are of a file that is being undone.
LEMMA FaultAlone ==
  ASSUME NEW p, Procs = {p}, AloneInv, Crash \/ Fails(p) PROVE AloneInv'
<1> USE DEF AloneInv, Shape, Stores, Labelled, Underway, At, Target
<1>1. p \in Procs
  OBVIOUS
<1>2. CASE Crash
  BY <1>1, <1>2, OneRequest DEF Crash
<1>3. CASE Fails(p)
  <2>1. /\ pc' = [pc EXCEPT ![p] = "error"] /\ UNCHANGED <<records, issued, req, local, crashes>>
        /\ failures' \in Nat
    BY <1>3 DEF Fails, CreateWriteFails, RepositoryFails, StorageFails, Goto
  <2>2. Shape' /\ pc'[p] = "error" /\ Labelled(p)' /\ Underway(p)'
    BY <1>1, <1>3, <2>1 DEF Fails, CreateWriteFails, RepositoryFails, StorageFails
  <2>3. CASE CreateWriteFails(p)
    <3>1. Stores'
      BY <1>1, <2>1, <2>3 DEF CreateWriteFails, Put
    <3> QED BY <1>1, <2>2, <3>1, OneRequest
  <2>4. CASE RepositoryFails(p)
    BY <1>1, <2>1, <2>2, <2>4, OneRequest DEF RepositoryFails
  <2>5. CASE StorageFails(p)
    <3>1. Stores'
      BY <1>1, <2>1, <2>5 DEF StorageFails, Put, Remove
    <3> QED BY <1>1, <2>2, <3>1, OneRequest
  <2> QED BY <1>3, <2>3, <2>4, <2>5 DEF Fails
<1> QED BY <1>2, <1>3

\* A record that goes later is of a file that is being undone.
LEMMA UndoAlone ==
  ASSUME NEW p, Procs = {p}, AloneInv, NEW f \in undoing, Undo(f) PROVE AloneInv'
<1> USE DEF AloneInv, Shape, Stores, Labelled, Underway, At, Target
<1>1. p \in Procs /\ f \in undone
  OBVIOUS
<1>2. /\ UNCHANGED <<blobs, issued, pc, req, local, undone, crashes>> /\ undoing' = undoing \ {f} /\ failures' \in Nat
      /\ DOMAIN records \ {f} \subseteq DOMAIN records' /\ DOMAIN records' \subseteq DOMAIN records
      /\ \A g \in DOMAIN records' : records'[g] = records[g]
  BY DEF Undo, Remove
<1>3. Shape' /\ Stores' /\ Labelled(p)' /\ Underway(p)'
  BY <1>1, <1>2
<1>4. DoneInBothStores'
  BY <1>1, <1>2, <1>3 DEF DoneInBothStores
<1> QED BY <1>1, <1>3, <1>4, OneRequest

\* Every step, when the requests come one at a time.
LEMMA AloneStep == ASSUME NEW p, Procs = {p}, AloneInv, [Next]_vars PROVE AloneInv'
<1>1. CASE UNCHANGED vars
  BY <1>1 DEF vars, AloneInv, Shape, Stores, Labelled, Underway, DoneInBothStores, At, Target
<1> QED BY <1>1, CreateAlone, ReplaceAlone, LockAlone, EraseAlone, ServerAlone, FaultAlone, UndoAlone DEF Next

\* One request at a time no bytes are left without a record but of a creation
\* that was reported to have failed, whatever fails and whenever the server stops.
THEOREM NoBytesAreLeft == ASSUME NEW p, Procs = {p} PROVE Spec => []BytesBelongToFiles
<1>1. AloneInv => BytesBelongToFiles
  BY DEF AloneInv, Stores, BytesBelongToFiles
<1>2. AloneInv /\ [Next]_vars => AloneInv'
  BY AloneStep
<1> QED BY <1>1, <1>2, AloneInitially, PTL DEF Spec

\* One request at a time what is reported as done is done in both stores,
\* whatever failed or stopped before.
THEOREM WhatIsReportedIsDone == ASSUME NEW p, Procs = {p} PROVE Spec => []DoneInBothStores
<1>1. AloneInv => DoneInBothStores
  BY DEF AloneInv
<1>2. AloneInv /\ [Next]_vars => AloneInv'
  BY AloneStep
<1> QED BY <1>1, <1>2, AloneInitially, PTL DEF Spec

----------------------------------------------------------------------------
(* The limit of storage, one request at a time.                            *)

SizeIn(store, f) == IF f \in DOMAIN store THEN store[f].size ELSE 0

\* Where two stores differ in one file they differ in its bytes.
LEMMA OneFileChanges ==
  ASSUME NEW s, NEW t, NEW f, IsFiniteSet(Bytes(s)), SizeIn(s, f) \in Nat, SizeIn(t, f) \in Nat,
         \A g : g # f => (g \in DOMAIN s <=> g \in DOMAIN t),
         \A g \in DOMAIN s : g # f => t[g].size = s[g].size
  PROVE  /\ IsFiniteSet(Bytes(t)) /\ Cardinality(Bytes(s)) \in Nat /\ Cardinality(Bytes(t)) \in Nat
         /\ Cardinality(Bytes(t)) = Cardinality(Bytes(s)) - SizeIn(s, f) + SizeIn(t, f)
         /\ SizeIn(s, f) <= Cardinality(Bytes(s))
<1> DEFINE Own(n) == {f} \X (1..n)
           Others == Bytes(s) \ Own(SizeIn(s, f))
           m == SizeIn(s, f)
           n == SizeIn(t, f)
<1>1. ASSUME NEW k \in Nat PROVE IsFiniteSet(Own(k)) /\ Cardinality(Own(k)) = k
  <2>1. IsFiniteSet(1..k) /\ Cardinality(1..k) = k
    <3>1. 1 \in Int /\ k \in Int
      OBVIOUS
    <3>2. IsFiniteSet(1..k) /\ Cardinality(1..k) = IF 1 > k THEN 0 ELSE k - 1 + 1
      BY <3>1, FS_Interval
    <3> QED BY <3>2
  <2>2. IsFiniteSet({f}) /\ Cardinality({f}) = 1
    BY FS_Singleton
  <2>3. IsFiniteSet(Own(k)) /\ Cardinality(Own(k)) = 1 * k
    BY <2>1, <2>2, FS_Product
  <2> QED BY <2>3
<1>2. \A x : x \in Bytes(s) <=> \E g \in DOMAIN s : x \in {g} \X (1..s[g].size)
  BY DEF Bytes
<1>3. \A x : x \in Bytes(t) <=> \E g \in DOMAIN t : x \in {g} \X (1..t[g].size)
  BY DEF Bytes
<1>4. Own(m) \subseteq Bytes(s) /\ \A x \in Bytes(s) \ Own(m) : \E g \in DOMAIN s : g # f /\ x \in {g} \X (1..s[g].size)
  BY <1>2 DEF SizeIn
<1>5. Own(n) \subseteq Bytes(t) /\ \A x \in Bytes(t) \ Own(n) : \E g \in DOMAIN t : g # f /\ x \in {g} \X (1..t[g].size)
  BY <1>3 DEF SizeIn
<1>6. \A k : \A g : g # f => ({g} \X (1..s[g].size)) \cap Own(k) = {}
  OBVIOUS
<1>7. Bytes(t) \subseteq Others \cup Own(n)
  <2> SUFFICES ASSUME NEW x \in Bytes(t), x \notin Own(n) PROVE x \in Others
    OBVIOUS
  <2>1. PICK g \in DOMAIN t : g # f /\ x \in {g} \X (1..t[g].size)
    BY <1>5
  <2>2. g \in DOMAIN s /\ x \in {g} \X (1..s[g].size)
    BY <2>1
  <2>3. x \in Bytes(s) /\ x \notin Own(m)
    BY <1>2, <2>1, <2>2
  <2> QED BY <2>3
<1>8. Others \subseteq Bytes(t) /\ Others \cap Own(n) = {}
  <2> SUFFICES ASSUME NEW x \in Others PROVE x \in Bytes(t) /\ x \notin Own(n)
    OBVIOUS
  <2>1. PICK g \in DOMAIN s : g # f /\ x \in {g} \X (1..s[g].size)
    BY <1>4
  <2>2. g \in DOMAIN t /\ x \in {g} \X (1..t[g].size)
    BY <2>1
  <2> QED BY <1>3, <2>1, <2>2
<1>9. Bytes(t) = Others \cup Own(n) /\ Others \cap Own(n) = {}
  BY <1>5, <1>7, <1>8
<1> HIDE DEF Own
<1>10. /\ IsFiniteSet(Others) /\ Cardinality(Others) = Cardinality(Bytes(s)) - m
  <2>1. Bytes(s) \cap Own(m) = Own(m)
    BY <1>4
  <2>2. Cardinality(Own(m)) = m
    BY <1>1
  <2>3. IsFiniteSet(Others) /\ Cardinality(Others) = Cardinality(Bytes(s)) - Cardinality(Bytes(s) \cap Own(m))
    BY FS_Difference
  <2> QED BY <2>1, <2>2, <2>3
<1>11. m <= Cardinality(Bytes(s)) /\ Cardinality(Bytes(s)) \in Nat
  <2>1. Cardinality(Own(m)) = m
    BY <1>1
  <2> QED BY <1>4, <2>1, FS_Subset, FS_CardinalityType
<1>12. IsFiniteSet(Bytes(t)) /\ Cardinality(Bytes(t)) = Cardinality(Others) + n
  <2>1. IsFiniteSet(Own(n)) /\ Cardinality(Own(n)) = n
    BY <1>1
  <2>2. Cardinality({}) = 0
    BY FS_EmptySet
  <2>3. Cardinality(Others) \in Nat
    BY <1>10, FS_CardinalityType
  <2> HIDE DEF Others
  <2>4. IsFiniteSet(Others \cup Own(n))
        /\ Cardinality(Others \cup Own(n)) = Cardinality(Others) + Cardinality(Own(n)) - Cardinality(Others \cap Own(n))
    BY <1>10, <2>1, FS_Union
  <2>5. Cardinality(Others \cap Own(n)) = 0
    BY <1>9, <2>2
  <2>6. n \in Nat
    OBVIOUS
  <2> HIDE DEF n
  <2> QED BY <1>9, <2>1, <2>3, <2>4, <2>5, <2>6
<1>13. Cardinality(Bytes(t)) \in Nat
  BY <1>12, FS_CardinalityType
<1> HIDE DEF Others
<1> QED BY <1>10, <1>11, <1>12, <1>13

Counted ==
    /\ IsFiniteSet(Bytes(records)) /\ Usage < Limit
    /\ \A f \in DOMAIN records : records[f].size \in Nat
    /\ \A f \in DOMAIN blobs : blobs[f] \in Nat

\* What an upload or a replacement was let through with, still fits when it
\* writes: meanwhile only deletions that nobody waits for have come between.
Fitting(p) ==
    /\ pc[p] \in {"copy.read", "updateFile.check", "updating", "locking", "unlocking", "createFile.write"} =>
          local[p].rec.size \in Nat
    /\ pc[p] \in {"createFile", "createFile.add"} /\ req[p].op = "copy" => local[p].rec.size \in Nat
    /\ At(p, "createFile.add") => Usage + NewRecord(p).size < Limit
    /\ pc[p] \in {"updateFile.check", "locking", "unlocking"} /\ Target(p) \in DOMAIN records =>
          local[p].rec.size = records[Target(p)].size
    /\ pc[p] \in {"updateFile.write", "update", "updating"} /\ req[p].op = "updateFile" /\ Target(p) \in DOMAIN records =>
          Usage - records[Target(p)].size + req[p].size < Limit
    /\ At(p, "updating") /\ req[p].op # "updateFile" => local[p].rec.size = 0

LimitInv == AloneInv /\ Counted /\ \A p \in Procs : Fitting(p)

LEMMA RequestSizes ==
  ASSUME NEW r \in Requests, r.op \in {"createFile", "updateFile"}
  PROVE  r.size \in Nat
BY ContentAssumption DEF Request, UploadRequest, ReplaceRequest, FileRequest, LockRequest, MarkRequest

\* The new size of one file counts in place of the old.
LEMMA UsageChanges ==
  ASSUME Counted, NEW f, SizeIn(records', f) \in Nat,
         \A g : g # f => (g \in DOMAIN records <=> g \in DOMAIN records'),
         \A g \in DOMAIN records : g # f => records'[g] = records[g]
  PROVE  /\ IsFiniteSet(Bytes(records')) /\ Usage \in Nat /\ Usage' \in Nat
         /\ Usage' = Usage - SizeIn(records, f) + SizeIn(records', f)
         /\ \A g \in DOMAIN records' : records'[g].size \in Nat
<1>1. SizeIn(records, f) \in Nat
  BY DEF Counted, SizeIn
<1>2. IsFiniteSet(Bytes(records))
  BY DEF Counted
<1>3. \A g \in DOMAIN records : g # f => records'[g].size = records[g].size
  OBVIOUS
<1>4. \A g \in DOMAIN records' : records'[g].size \in Nat
  BY DEF Counted, SizeIn
<1> QED BY <1>1, <1>2, <1>3, <1>4, OneFileChanges DEF Usage

LEMMA UsageIsNumber == ASSUME Counted PROVE Usage \in Nat /\ Limit \in Nat
BY FS_CardinalityType, ContentAssumption DEF Counted, Usage

\* Steps that leave the records alone leave the usage.
LEMMA UsageStays ==
  ASSUME Counted, UNCHANGED records, \A f \in DOMAIN blobs' : blobs'[f] \in Nat
  PROVE  Counted' /\ Usage' = Usage
BY DEF Counted, Usage

LEMMA CreateFits ==
  ASSUME NEW p, Procs = {p}, LimitInv, Create(p)
  PROVE  Counted' /\ Fitting(p)'
<1> USE DEF LimitInv, Fitting, At, Target
<1>0. p \in Procs /\ Shape /\ Labelled(p) /\ DOMAIN pc = Procs /\ DOMAIN local = Procs /\ Usage \in Nat /\ Limit \in Nat
  BY UsageIsNumber DEF AloneInv, Shape
<1>1. CASE Copy(p)
  <2>1. /\ UNCHANGED <<records, blobs, req>> /\ req[p].op = "copy"
        /\ \/ pc'[p] = "error"
           \/ pc'[p] = "copy.read" /\ Target(p) \in DOMAIN records /\ local'[p].rec = records[Target(p)]
    BY <1>0, <1>1 DEF Copy, Read, Holds, Goto, Labelled
  <2>2. Counted' /\ Usage' = Usage
    BY <2>1, UsageStays DEF Counted
  <2> QED BY <1>0, <2>1, <2>2 DEF Counted
<1>2. CASE CopyRead(p)
  <2>1. /\ UNCHANGED <<records, blobs, req>> /\ req[p].op = "copy" /\ pc[p] = "copy.read"
        /\ \/ pc'[p] = "error"
           \/ /\ pc'[p] = "createFile" /\ Target(p) \in DOMAIN blobs
              /\ local'[p].rec = [local[p].rec EXCEPT !.size = blobs[Target(p)]]
    BY <1>0, <1>2 DEF CopyRead, Holds, Goto, Labelled
  <2>2. Counted' /\ Usage' = Usage
    BY <2>1, UsageStays DEF Counted
  <2>3. Sized(local[p].rec)
    BY <1>0, <2>1 DEF AloneInv, Underway
  <2>4. [local[p].rec EXCEPT !.size = blobs[Target(p)]].size = blobs[Target(p)]
    BY <2>3 DEF Sized
  <2> QED BY <1>0, <2>1, <2>2, <2>4 DEF Counted
<1>3. CASE CreateCheck(p)
  <2>1. /\ UNCHANGED <<records, blobs, req, local>> /\ pc[p] = "createFile"
        /\ pc'[p] = IF Usage + NewRecord(p).size < Limit THEN "createFile.add" ELSE "error"
    BY <1>0, <1>3 DEF CreateCheck, Goto, handler, Fits
  <2>2. Counted' /\ Usage' = Usage
    BY <2>1, UsageStays DEF Counted
  <2>3. NewRecord(p)' = NewRecord(p)
    BY <2>1 DEF NewRecord
  <2> QED BY <1>0, <2>1, <2>2, <2>3
<1>4. CASE CreateAdd(p)
  <2>1. CASE Goto(p, "error") /\ UNCHANGED <<records, issued, local>>
    <3>1. UNCHANGED <<records, blobs>> /\ pc'[p] = "error"
      BY <1>0, <1>4, <2>1 DEF CreateAdd, Goto
    <3> QED BY <3>1, UsageStays DEF Counted
  <2>2. CASE ~(Goto(p, "error") /\ UNCHANGED <<records, issued, local>>)
    <3>1. PICK f \in Files \ issued :
            /\ records' = Put(records, f, NewRecord(p))
            /\ local' = [local EXCEPT ![p] = [file |-> f, rec |-> NewRecord(p)]]
      BY <1>4, <2>2 DEF CreateAdd, Holds
    <3>2. pc'[p] = "createFile.write" /\ pc[p] = "createFile.add" /\ UNCHANGED <<blobs, req>>
      BY <1>0, <1>4, <2>2 DEF CreateAdd, Goto
    <3>3. PICK new : new = NewRecord(p)
      OBVIOUS
    <3>4. new.size \in Nat /\ Usage + new.size < Limit
      <4>1. CASE req[p].op = "copy"
        BY <1>0, <3>2, <3>3, <4>1 DEF NewRecord
      <4>2. CASE req[p].op # "copy"
        <5>1. new = [meta |-> FreshNode(req[p].data), size |-> req[p].size]
          BY <3>3, <4>2 DEF NewRecord, Fresh
        <5>2. req[p].size \in Nat
          BY <1>0, <3>2, <4>2, RequestSizes DEF Labelled
        <5>3. new.size = req[p].size
          BY <5>1
        <5> QED BY <1>0, <3>2, <3>3, <5>2, <5>3
      <4> QED BY <4>1, <4>2
    <3>5. /\ DOMAIN records' = DOMAIN records \cup {f} /\ records'[f] = new
          /\ \A g \in DOMAIN records : g # f => records'[g] = records[g]
      BY <3>1, <3>3 DEF Put
    <3>6. SizeIn(records', f) = new.size
      BY <3>5 DEF SizeIn
    <3>7. SizeIn(records, f) \in Nat
      BY DEF SizeIn, Counted
    <3>8. Counted'
      <4>1. /\ IsFiniteSet(Bytes(records')) /\ Usage' = Usage - SizeIn(records, f) + new.size
            /\ \A g \in DOMAIN records' : records'[g].size \in Nat
        BY <3>4, <3>5, <3>6, UsageChanges
      <4>2. Usage' < Limit
        BY <1>0, <3>4, <3>7, <4>1
      <4> QED BY <3>2, <4>1, <4>2 DEF Counted
    <3>9. local'[p].rec = new
      BY <1>0, <3>1, <3>3
    <3> QED BY <3>2, <3>4, <3>8, <3>9
  <2> QED BY <2>1, <2>2
<1>5. CASE CreateWrite(p)
  <2>1. /\ UNCHANGED <<records, req, local>> /\ pc[p] = "createFile.write" /\ pc'[p] = "ok"
        /\ blobs' = Put(blobs, local[p].file, local[p].rec.size)
    BY <1>0, <1>5 DEF CreateWrite, Goto, handler
  <2>2. local[p].rec.size \in Nat
    BY <1>0, <2>1
  <2>3. \A f \in DOMAIN blobs' : blobs'[f] \in Nat
    BY <2>1, <2>2 DEF Put, Counted
  <2> QED BY <2>1, <2>3, UsageStays
<1> QED BY <1>1, <1>2, <1>3, <1>4, <1>5 DEF Create

LEMMA ReplaceFits ==
  ASSUME NEW p, Procs = {p}, LimitInv, Replace(p)
  PROVE  Counted' /\ Fitting(p)'
<1> USE DEF LimitInv, Fitting, At, Target
<1>0. p \in Procs /\ Shape /\ Labelled(p) /\ DOMAIN pc = Procs /\ DOMAIN local = Procs /\ Usage \in Nat /\ Limit \in Nat
  BY UsageIsNumber DEF AloneInv, Shape
<1>1. req[p].op = "updateFile" /\ pc[p] # "idle" => req[p].size \in Nat
  BY <1>0, RequestSizes DEF Labelled
<1>2. \A f \in DOMAIN records : records[f].size \in Nat
  BY DEF Counted
<1>3. CASE UpdateFile(p)
  <2>1. /\ UNCHANGED <<records, blobs, req>>
        /\ \/ pc'[p] = "error"
           \/ pc'[p] = "updateFile.check" /\ Target(p) \in DOMAIN records /\ local'[p].rec = records[Target(p)]
    BY <1>0, <1>3 DEF UpdateFile, Read, Holds, Goto
  <2>2. Counted'
    BY <2>1, UsageStays DEF Counted
  <2> QED BY <1>2, <2>1, <2>2
<1>4. CASE UpdateFileCheck(p)
  <2>1. /\ UNCHANGED <<records, blobs, req, local>> /\ pc[p] = "updateFile.check"
        /\ pc'[p] = IF Projected(p) < Limit THEN "updateFile.write" ELSE "error"
    BY <1>0, <1>4 DEF UpdateFileCheck, Goto, handler, Fits
  <2>2. Counted' /\ Usage' = Usage
    BY <2>1, UsageStays DEF Counted
  <2>3. req[p].op = "updateFile" /\ req[p].size \in Nat /\ local[p].rec.size \in Nat
    BY <1>0, <1>1, <2>1 DEF Labelled
  <2>4. ASSUME Projected(p) < Limit, Target(p) \in DOMAIN records
        PROVE  Usage - records[Target(p)].size + req[p].size < Limit
    BY <1>0, <2>1, <2>3, <2>4 DEF Projected
  <2> QED BY <2>1, <2>2, <2>4
<1>5. CASE UpdateFileWrite(p)
  <2>1. /\ UNCHANGED <<records, req, local>> /\ pc[p] = "updateFile.write" /\ pc'[p] = "update"
        /\ blobs' = Put(blobs, Target(p), req[p].size)
    BY <1>0, <1>5 DEF UpdateFileWrite, Goto, handler
  <2>2. req[p].size \in Nat
    BY <1>0, <1>1, <2>1 DEF Labelled
  <2>3. Counted' /\ Usage' = Usage
    <3>1. \A f \in DOMAIN blobs' : blobs'[f] \in Nat
      BY <2>1, <2>2 DEF Put, Counted
    <3> QED BY <2>1, <3>1, UsageStays
  <2> QED BY <1>0, <2>1, <2>3
<1>6. CASE Update(p) \/ Mark(p)
  <2>1. PICK rec : rec = records[Target(p)]
    OBVIOUS
  <2>2. PICK new, meta : new = Rebuilt(p, rec) /\ meta = Marked(new.meta, req[p].inst, req[p].state)
    OBVIOUS
  <2>3. /\ UNCHANGED <<records, blobs, req>> /\ (pc[p] = "update" \/ (pc[p] = "mark" /\ req[p].op = "mark"))
        /\ \/ pc'[p] = "error"
           \/ /\ pc'[p] = "updating" /\ Target(p) \in DOMAIN records
              /\ local'[p].rec = new \/ local'[p].rec = [new EXCEPT !.meta = meta]
    BY <1>0, <1>6, <2>1, <2>2 DEF Update, Mark, Read, Holds, Goto, Labelled
  <2>4. Counted' /\ Usage' = Usage
    BY <2>3, UsageStays DEF Counted
  <2>5. ASSUME pc'[p] = "updating"
        PROVE  local'[p].rec.size = IF req[p].op = "updateFile" THEN req[p].size ELSE 0
    <3>1. Sized(rec)
      BY <2>1, <2>3, <2>5 DEF AloneInv, Stores
    <3>2. PICK m, n, k : rec = [meta |-> m, size |-> n] /\ k = IF req[p].op = "updateFile" THEN req[p].size ELSE 0
      BY <3>1 DEF Sized
    <3>3. new = [meta |-> m, size |-> k]
      BY <2>2, <3>2 DEF Rebuilt
    <3>4. new.size = k /\ Sized(new)
      BY <3>3 DEF Sized
    <3>5. [new EXCEPT !.meta = meta].size = k
      BY <3>4, MetaIs
    <3> QED BY <2>3, <2>5, <3>2, <3>4, <3>5
  <2> QED BY <1>0, <1>1, <2>3, <2>4, <2>5
<1>7. CASE Updating(p)
  <2>1. /\ pc[p] = "updating" /\ UNCHANGED <<blobs, req, local>> /\ DOMAIN records' = DOMAIN records
        /\ \A f \in DOMAIN records : f # Target(p) => records'[f] = records[f]
        /\ \/ pc'[p] = "error" /\ UNCHANGED records
           \/ pc'[p] = "ok" /\ Target(p) \in DOMAIN records /\ records'[Target(p)] = local[p].rec
    BY <1>0, <1>7, WriteIs DEF Updating
  <2>2. CASE pc'[p] = "error"
    BY <2>1, <2>2, UsageStays DEF Counted
  <2>3. CASE pc'[p] = "ok"
    <3>1. SizeIn(records', Target(p)) = local[p].rec.size /\ local[p].rec.size \in Nat
          /\ SizeIn(records, Target(p)) = records[Target(p)].size /\ records[Target(p)].size \in Nat
      BY <1>0, <1>2, <2>1, <2>3 DEF SizeIn
    <3>2. /\ IsFiniteSet(Bytes(records'))
          /\ Usage' = Usage - records[Target(p)].size + local[p].rec.size
          /\ \A g \in DOMAIN records' : records'[g].size \in Nat
      BY <2>1, <3>1, UsageChanges
    <3>3. Usage' < Limit
      <4>1. CASE req[p].op = "updateFile"
        <5>1. local[p].rec.size = req[p].size
          BY <1>0, <2>1, <4>1 DEF AloneInv, Underway
        <5> QED BY <1>0, <2>1, <2>3, <3>2, <4>1, <5>1
      <4>2. CASE req[p].op # "updateFile"
        <5>1. local[p].rec.size = 0 /\ Usage < Limit
          BY <1>0, <2>1, <4>2 DEF Counted
        <5> QED BY <1>0, <3>1, <3>2, <5>1
      <4> QED BY <4>1, <4>2
    <3>4. Counted'
      BY <2>1, <3>2, <3>3 DEF Counted
    <3> QED BY <2>3, <3>4
  <2> QED BY <2>1, <2>2, <2>3
<1> QED BY <1>3, <1>4, <1>5, <1>6, <1>7 DEF Replace

LEMMA LockFits ==
  ASSUME NEW p, Procs = {p}, LimitInv, LockRequests(p)
  PROVE  Counted' /\ Fitting(p)'
<1> USE DEF LimitInv, Fitting, At, Target
<1>0. p \in Procs /\ Shape /\ DOMAIN pc = Procs /\ DOMAIN local = Procs /\ Usage \in Nat /\ Limit \in Nat
  BY UsageIsNumber DEF AloneInv, Shape
<1>1. \A f \in DOMAIN records : records[f].size \in Nat /\ Sized(records[f])
  BY DEF Counted, AloneInv, Stores
<1>2. CASE Lock(p) \/ Unlock(p)
  <2>1. PICK rec : rec = records[Target(p)]
    OBVIOUS
  <2>2. PICK meta, other : meta = Locked(rec.meta, req[p].user, req[p].groups) /\ other = Unlocked(rec.meta)
    OBVIOUS
  <2>3. /\ UNCHANGED <<records, blobs, req>>
        /\ \/ pc'[p] = "error"
           \/ /\ pc'[p] \in {"locking", "unlocking"} /\ Target(p) \in DOMAIN records
              /\ local'[p].rec = [rec EXCEPT !.meta = meta] \/ local'[p].rec = [rec EXCEPT !.meta = other]
    BY <1>0, <1>2, <2>1, <2>2 DEF Lock, Unlock, Read, Holds, Goto
  <2>4. Counted'
    BY <2>3, UsageStays DEF Counted
  <2>5. pc'[p] \in {"locking", "unlocking"} => local'[p].rec.size = rec.size /\ rec.size \in Nat
    <3>1. \A m : Sized(rec) => [rec EXCEPT !.meta = m].size = rec.size
      BY MetaIs
    <3> QED BY <1>1, <2>1, <2>3, <3>1
  <2> QED BY <2>1, <2>3, <2>4, <2>5
<1>3. CASE Locking(p) \/ Unlocking(p)
  <2>1. /\ pc[p] \in {"locking", "unlocking"} /\ UNCHANGED <<blobs, req, local>> /\ DOMAIN records' = DOMAIN records
        /\ \A f \in DOMAIN records : f # Target(p) => records'[f] = records[f]
        /\ \/ pc'[p] = "error" /\ UNCHANGED records
           \/ pc'[p] = "ok" /\ Target(p) \in DOMAIN records /\ records'[Target(p)] = local[p].rec
    BY <1>0, <1>3, WriteIs DEF Locking, Unlocking
  <2>2. CASE pc'[p] = "error"
    BY <2>1, <2>2, UsageStays DEF Counted
  <2>3. CASE pc'[p] = "ok"
    <3>1. SizeIn(records', Target(p)) = SizeIn(records, Target(p)) /\ SizeIn(records, Target(p)) \in Nat
      BY <1>0, <1>1, <2>1, <2>3 DEF SizeIn
    <3>2. /\ IsFiniteSet(Bytes(records')) /\ Usage' = Usage - SizeIn(records, Target(p)) + SizeIn(records', Target(p))
          /\ \A g \in DOMAIN records' : records'[g].size \in Nat
      BY <2>1, <3>1, UsageChanges
    <3>3. Usage' = Usage
      BY <1>0, <3>1, <3>2
    <3>4. Counted'
      BY <2>1, <3>2, <3>3 DEF Counted
    <3> QED BY <2>3, <3>4
  <2> QED BY <2>1, <2>2, <2>3
<1> QED BY <1>2, <1>3 DEF LockRequests

\* A record that goes takes its size with it.
LEMMA RemovedFits ==
  ASSUME Counted, NEW f, records' = Remove(records, f), blobs' = blobs
  PROVE  Counted' /\ Usage' <= Usage /\ (f \notin DOMAIN records => Usage' = Usage)
         /\ DOMAIN records' \subseteq DOMAIN records /\ \A g \in DOMAIN records' : records'[g] = records[g]
<1>1. /\ DOMAIN records' = DOMAIN records \ {f}
      /\ \A g \in DOMAIN records' : records'[g] = records[g]
  BY DEF Remove
<1>2. SizeIn(records', f) = 0 /\ SizeIn(records, f) \in Nat /\ (f \notin DOMAIN records => SizeIn(records, f) = 0)
  BY <1>1 DEF SizeIn, Counted
<1>3. /\ IsFiniteSet(Bytes(records')) /\ Usage \in Nat /\ Usage' = Usage - SizeIn(records, f) + 0
      /\ \A g \in DOMAIN records' : records'[g].size \in Nat
  BY <1>1, <1>2, UsageChanges
<1>4. Usage < Limit /\ Limit \in Nat
  BY UsageIsNumber DEF Counted
<1>5. Usage' < Limit /\ Usage' <= Usage /\ (f \notin DOMAIN records => Usage' = Usage)
  BY <1>2, <1>3, <1>4
<1> QED BY <1>1, <1>3, <1>5 DEF Counted

LEMMA EraseFits ==
  ASSUME NEW p, Procs = {p}, LimitInv, Erase(p)
  PROVE  Counted' /\ Fitting(p)'
<1> USE DEF LimitInv, Fitting, At, Target
<1>0. p \in Procs /\ DOMAIN pc = Procs /\ DOMAIN local = Procs
  BY DEF AloneInv, Shape
<1>1. CASE Delete(p)
  <2>1. UNCHANGED <<records, blobs, req>> /\ pc'[p] \in {"error", "delete.blob"}
    BY <1>0, <1>1 DEF Delete, Read, Goto
  <2> QED BY <2>1, UsageStays DEF Counted
<1>2. CASE DeleteBlob(p)
  <2>1. UNCHANGED records /\ pc'[p] \in {"error", "deleting"} /\ blobs' \in {blobs, Remove(blobs, Target(p))}
    BY <1>0, <1>2 DEF DeleteBlob, Goto
  <2>2. \A f \in DOMAIN blobs' : blobs'[f] \in Nat
    BY <2>1 DEF Remove, Counted
  <2> QED BY <2>1, <2>2, UsageStays
<1>3. CASE Deleting(p)
  <2>1. records' = Remove(records, Target(p)) /\ blobs' = blobs /\ pc'[p] \in {"ok", "error"}
    BY <1>0, <1>3 DEF Deleting, Goto
  <2> QED BY <2>1, RemovedFits
<1> QED BY <1>1, <1>2, <1>3 DEF Erase

LEMMA ServerFits ==
  ASSUME NEW p, Procs = {p}, LimitInv, Issue(p) \/ Reply(p) \/ Crash \/ Fails(p)
  PROVE  Counted' /\ Fitting(p)'
<1> USE DEF LimitInv, Fitting, At, Target
<1>0. p \in Procs /\ DOMAIN pc = Procs /\ DOMAIN local = Procs /\ DOMAIN req = Procs
  BY DEF AloneInv, Shape
<1>1. CASE Issue(p)
  <2>1. PICK r \in Requests : req' = [req EXCEPT ![p] = r] /\ pc' = [pc EXCEPT ![p] = r.op]
    BY <1>1 DEF Issue, Goto
  <2>2. r.op \in {"createFile", "updateFile", "copy", "update", "delete", "unlock", "lock", "mark"}
    BY ContentAssumption DEF Request, UploadRequest, ReplaceRequest, FileRequest, LockRequest, MarkRequest
  <2>3. UNCHANGED <<records, blobs, local>> /\ pc'[p] = r.op /\ req'[p] = r
    BY <1>0, <1>1, <2>1 DEF Issue
  <2>4. Counted'
    BY <2>3, UsageStays DEF Counted
  <2>5. r.op = "updateFile" => pc'[p] # "update"
    BY <2>3
  <2> QED BY <2>2, <2>3, <2>4, <2>5
<1>2. CASE Reply(p)
  <2>1. UNCHANGED <<records, blobs>> /\ pc'[p] = "idle"
    BY <1>0, <1>2 DEF Reply, Goto
  <2> QED BY <2>1, UsageStays DEF Counted
<1>3. CASE Crash
  <2>1. UNCHANGED <<records, blobs>> /\ pc'[p] = "idle"
    BY <1>0, <1>3 DEF Crash
  <2> QED BY <2>1, UsageStays DEF Counted
<1>4. CASE Fails(p)
  <2>1. UNCHANGED records /\ pc'[p] = "error"
    BY <1>0, <1>4 DEF Fails, CreateWriteFails, RepositoryFails, StorageFails, Goto
  <2>2. \A f \in DOMAIN blobs' : blobs'[f] \in Nat
    <3>1. CASE CreateWriteFails(p)
      <4>1. local[p].rec.size \in Nat /\ blobs' \in {blobs, Put(blobs, local[p].file, local[p].rec.size)}
        BY <1>0, <3>1 DEF CreateWriteFails
      <4> QED BY <4>1 DEF Put, Counted
    <3>2. CASE RepositoryFails(p)
      BY <3>2 DEF RepositoryFails, Counted
    <3>3. CASE StorageFails(p)
      <4>1. pc[p] = "updateFile.write" => req[p].size \in Nat
        BY <1>0, RequestSizes DEF AloneInv, Labelled
      <4>2. \/ blobs' \in {blobs, Remove(blobs, Target(p))}
            \/ pc[p] = "updateFile.write" /\ blobs' = Put(blobs, Target(p), req[p].size)
        BY <3>3 DEF StorageFails
      <4> QED BY <4>1, <4>2 DEF Put, Remove, Counted
    <3> QED BY <1>4, <3>1, <3>2, <3>3 DEF Fails
  <2> QED BY <2>1, <2>2, UsageStays
<1> QED BY <1>1, <1>2, <1>3, <1>4

\* The record that goes later makes room, also for the request that is underway.
LEMMA UndoFits ==
  ASSUME NEW p, Procs = {p}, LimitInv, NEW f \in undoing, Undo(f)
  PROVE  Counted' /\ Fitting(p)'
<1> USE DEF LimitInv, Fitting, At, Target
<1>0. p \in Procs /\ UNCHANGED <<blobs, pc, req, local>> /\ Usage \in Nat /\ Limit \in Nat
  BY UsageIsNumber DEF Undo
<1>1. NewRecord(p)' = NewRecord(p)
  BY <1>0 DEF NewRecord
<1>2. CASE UNCHANGED records
  <2>1. Counted' /\ Usage' = Usage
    BY <1>0, <1>2, UsageStays DEF Counted
  <2> QED BY <1>0, <1>1, <1>2, <2>1
<1>3. CASE records' = Remove(records, f)
  <2>1. /\ Counted' /\ Usage' <= Usage /\ DOMAIN records' \subseteq DOMAIN records
        /\ \A g \in DOMAIN records' : records'[g] = records[g]
    BY <1>0, <1>3, RemovedFits
  <2>2. Usage' \in Nat
    BY <2>1, FS_CardinalityType DEF Counted, Usage
  <2>3. At(p, "createFile.add") => NewRecord(p).size \in Nat
    <3>1. CASE req[p].op = "copy"
      BY <1>0, <3>1 DEF NewRecord
    <3>2. CASE req[p].op # "copy" /\ At(p, "createFile.add")
      <4>1. req[p].size \in Nat
        BY <1>0, <3>2, RequestSizes DEF AloneInv, Labelled
      <4>2. NewRecord(p) = [meta |-> FreshNode(req[p].data), size |-> req[p].size]
        BY <3>2 DEF NewRecord, Fresh
      <4> QED BY <4>1, <4>2
    <3> QED BY <3>1, <3>2
  <2>4. At(p, "createFile.add") => Usage' + NewRecord(p).size < Limit
    BY <1>0, <2>1, <2>2, <2>3
  <2>5. ASSUME pc[p] \in {"updateFile.write", "update", "updating"}, req[p].op = "updateFile", Target(p) \in DOMAIN records'
        PROVE  Usage' - records'[Target(p)].size + req[p].size < Limit
    <3>1. req[p].size \in Nat
      BY <1>0, <2>5, RequestSizes DEF AloneInv, Labelled
    <3>2. records'[Target(p)].size = records[Target(p)].size /\ records[Target(p)].size \in Nat
      BY <2>1, <2>5 DEF Counted
    <3>3. Usage - records[Target(p)].size + req[p].size < Limit
      BY <1>0, <2>1, <2>5
    <3> QED BY <1>0, <2>1, <2>2, <3>1, <3>2, <3>3
  <2> QED BY <1>0, <1>1, <2>1, <2>4, <2>5
<1> QED BY <1>2, <1>3 DEF Undo

LEMMA LimitStep == ASSUME NEW p, Procs = {p}, LimitInv, [Next]_vars PROVE LimitInv'
<1>1. AloneInv'
  BY AloneStep DEF LimitInv
<1>2. CASE UNCHANGED vars
  <2>1. UNCHANGED <<records, blobs, pc, req, local>>
    BY <1>2 DEF vars
  <2>2. Counted' /\ Usage' = Usage
    BY <2>1, UsageStays DEF Counted, LimitInv
  <2>3. NewRecord(p)' = NewRecord(p)
    BY <2>1 DEF NewRecord
  <2>4. Fitting(p)'
    BY <2>1, <2>2, <2>3 DEF LimitInv, Fitting, At, Target
  <2> QED BY <1>1, <2>2, <2>4 DEF LimitInv
<1>3. CASE Next
  <2>1. Counted' /\ Fitting(p)'
    BY <1>3, CreateFits, ReplaceFits, LockFits, EraseFits, ServerFits, UndoFits DEF Next
  <2> QED BY <1>1, <2>1 DEF LimitInv
<1> QED BY <1>2, <1>3

\* One request at a time, the files on record never reach the limit when they
\* were below it at the start: what is added, replaced, copied or given back
\* while a request is underway, and whatever fails or stops.
THEOREM LimitHolds ==
  ASSUME NEW p, Procs = {p}, IsFiniteSet(InitialFiles), Cardinality(InitialFiles \X (1..InitialSize)) < Limit
  PROVE  Spec => []StorageLimitHolds
<1>1. Init => LimitInv
  <2> SUFFICES ASSUME Init PROVE LimitInv
    OBVIOUS
  <2>1. PICK d \in Data : records = [f \in InitialFiles |-> Fresh(d, InitialSize)]
    BY DEF Init
  <2>2. \A f \in DOMAIN records : records[f].size = InitialSize
    BY <2>1 DEF Fresh
  <2>3. Bytes(records) = InitialFiles \X (1..InitialSize)
    <3>1. \A x : x \in Bytes(records) <=> \E f \in InitialFiles : x \in {f} \X (1..InitialSize)
      BY <2>1, <2>2 DEF Bytes
    <3> QED BY <3>1
  <2>4. IsFiniteSet(1..InitialSize)
    BY ContentAssumption, FS_Interval
  <2>5. IsFiniteSet(Bytes(records)) /\ Usage < Limit
    BY <2>3, <2>4, FS_Product DEF Usage
  <2>6. Counted
    BY <2>2, <2>5, ContentAssumption DEF Counted, Init
  <2>7. Fitting(p)
    BY DEF Init, Fitting, At
  <2> QED BY <2>6, <2>7, AloneInitially DEF LimitInv
<1>2. LimitInv /\ [Next]_vars => LimitInv'
  BY LimitStep
<1>3. LimitInv => StorageLimitHolds
  BY DEF LimitInv, Counted, StorageLimitHolds
<1> QED BY <1>1, <1>2, <1>3, PTL DEF Spec
=============================================================================

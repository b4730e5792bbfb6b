---------------------------- MODULE NodeContent ----------------------------
(***************************************************************************)
(* Files in NodeService (src/application/nodes/node_service.ts): the       *)
(* record of a file lives in the node repository, its bytes in the storage *)
(* provider, and no transaction spans the two.                             *)
(*                                                                         *)
(* As in WorkflowInstances a handler loses control at every await: one     *)
(* action is one access to a store and the synchronous code up to the next *)
(* access, and `local` is what a handler holds across them.                *)
(***************************************************************************)
EXTENDS NodeRecords, Naturals, FiniteSets

CONSTANTS
    Procs,         \* requests that may be in flight at one time
    Files,         \* uuids of files
    InitialFiles,  \* those stored at the start, each of InitialSize
    InitialSize,
    NoFile,
    Limit,         \* bytes; the guard refuses a usage that reaches it
    Requests,      \* the requests clients may send
    MaxFailures,   \* bound: store accesses that return an error
    MaxCrashes     \* bound: restarts of the server

VARIABLES
    records,    \* NodeRepository: uuid -> record
    blobs,      \* StorageProvider: uuid -> the length of the bytes stored
    issued,     \* uuids of files created so far
    pc, req,    \* where each request stands, and what it asks
    local,      \* the uuid and the record its handler holds
    undoing,    \* records whose deletion createFile started and did not await
    undone,     \* uuids whose bytes createFile could not store
    failures, crashes

vars == <<records, blobs, issued, pc, req, local, undoing, undone, failures, crashes>>
handler == <<issued, req, local, undoing, undone, failures, crashes>>

----------------------------------------------------------------------------
(* Records and requests                                                    *)

\* FileNode: what every node has, and the size.
FileRecord == [meta : NodeRecord, size : Nat]
Fresh(d, size) == [meta |-> FreshNode(d), size |-> size]

UploadRequest == [op : {"createFile"}, user : Users, data : Data, size : Nat]
ReplaceRequest == [op : {"updateFile"}, user : Users, file : Files, size : Nat]
FileRequest   == [op : {"copy", "update", "delete", "unlock"}, user : Users, file : Files]
LockRequest   == [op : {"lock"}, user : Users, file : Files, groups : SUBSET Groups]
\* The workflow engine's update of the node's mark.
MarkRequest   == [op : {"mark"}, user : {WorkflowUser}, file : Files,
                  inst : InstanceIds \cup {NoInstance}, state : StateNames \cup {NoState}]
Request == UploadRequest \cup ReplaceRequest \cup FileRequest \cup LockRequest
             \cup MarkRequest

ASSUME ContentAssumption ==
    /\ InitialFiles \subseteq Files /\ NoFile \notin Files
    /\ {InitialSize, Limit, MaxFailures, MaxCrashes} \subseteq Nat
    /\ \A r \in Requests : r \in Request

Put(store, k, v) ==
    [x \in DOMAIN store \cup {k} |-> IF x = k THEN v ELSE store[x]]
Remove(store, k) == [x \in DOMAIN store \ {k} |-> store[x]]

NoRequest == [op |-> "none"]
NoLocal   == [file |-> NoFile]

Init ==
    /\ \E d \in Data : records = [f \in InitialFiles |-> Fresh(d, InitialSize)]
    /\ blobs = [f \in InitialFiles |-> InitialSize]
    /\ issued = InitialFiles
    /\ pc = [p \in Procs |-> "idle"]
    /\ req = [p \in Procs |-> NoRequest]
    /\ local = [p \in Procs |-> NoLocal]
    /\ undoing = {} /\ undone = {}
    /\ failures = 0 /\ crashes = 0

----------------------------------------------------------------------------
(* Building blocks                                                         *)

At(p, label)   == pc[p] = label
Goto(p, label) == pc' = [pc EXCEPT ![p] = label]
Target(p)      == req[p].file
Holds(p, f, r) == local' = [local EXCEPT ![p] = [file |-> f, rec |-> r]]

\* aggregateTotalSize: the bytes that the records say there are, not those
\* stored.  A sum of sizes is the number of pairs of a file and one of its bytes.
Bytes(store) == UNION {{f} \X (1 .. store[f].size) : f \in DOMAIN store}
Usage == Cardinality(Bytes(records))

\* TenantLimitsGuard.#ensureStorageWithinLimit
Fits(usage) == usage < Limit

\* An operation reads the record and either refuses or holds `rec` for later.
Read(p, at, allowed, rec, then) ==
    /\ At(p, at)
    /\ \/ /\ Target(p) \in DOMAIN records /\ allowed
          /\ Holds(p, Target(p), rec)
          /\ Goto(p, then)
       \/ /\ ~(Target(p) \in DOMAIN records /\ allowed)
          /\ Goto(p, "error")
          /\ UNCHANGED local
    /\ UNCHANGED <<records, blobs, issued, req, undoing, undone, failures, crashes>>

\* repository.update writes the whole record if there is one.
Write(p, at) ==
    /\ At(p, at)
    /\ \/ /\ Target(p) \in DOMAIN records
          /\ records' = Put(records, Target(p), local[p].rec)
          /\ Goto(p, "ok")
       \/ Target(p) \notin DOMAIN records /\ Goto(p, "error") /\ UNCHANGED records
    /\ UNCHANGED <<blobs, handler>>

----------------------------------------------------------------------------
(* createFile, and copy and duplicate, which end in it                     *)

\* The copy's metadata are its original's: lock and workflow mark included.
Copy(p) ==
    Read(p, "copy", TRUE, records[Target(p)], "copy.read")

CopyRead(p) ==
    /\ At(p, "copy.read")
    /\ \/ /\ Target(p) \in DOMAIN blobs
          /\ Holds(p, NoFile, [local[p].rec EXCEPT !.size = blobs[Target(p)]])
          /\ Goto(p, "createFile")
       \/ Target(p) \notin DOMAIN blobs /\ Goto(p, "error") /\ UNCHANGED local
    /\ UNCHANGED <<records, blobs, issued, req, undoing, undone, failures, crashes>>

NewRecord(p) ==
    IF req[p].op = "copy" THEN local[p].rec ELSE Fresh(req[p].data, req[p].size)

\* The limit is checked against the usage of this moment.
\* Variant: nobody asks the guard.
CreateUnchecked(p) == At(p, "createFile") /\ Goto(p, "createFile.add")
                        /\ UNCHANGED <<records, blobs, handler>>
CreateCheck(p) ==
    /\ At(p, "createFile")
    /\ Goto(p, IF Fits(Usage + NewRecord(p).size) THEN "createFile.add" ELSE "error")
    /\ UNCHANGED <<records, blobs, handler>>

CreateAdd(p) ==
    /\ At(p, "createFile.add")
    /\ \/ /\ MayWrite(req[p].user)
          /\ \E f \in Files \ issued :
                /\ issued' = issued \cup {f}
                /\ Holds(p, f, NewRecord(p))
                /\ records' = Put(records, f, NewRecord(p))
          /\ Goto(p, "createFile.write")
       \/ /\ ~MayWrite(req[p].user) \/ issued = Files   \* bound: uuids left
          /\ Goto(p, "error")
          /\ UNCHANGED <<records, issued, local>>
    /\ UNCHANGED <<blobs, req, undoing, undone, failures, crashes>>

CreateWrite(p) ==
    /\ At(p, "createFile.write")
    /\ blobs' = Put(blobs, local[p].file, local[p].rec.size)
    /\ Goto(p, "ok")
    /\ UNCHANGED <<records, handler>>

\* The bytes cannot be stored, or not all that belongs to them (flat_file
\* writes them before their mimetype).  The record is deleted meanwhile.
\* Variant: the record stays.
CreateWriteForgotten(p) ==
    /\ At(p, "createFile.write")
    /\ blobs' \in {blobs, Put(blobs, local[p].file, local[p].rec.size)}
    /\ Goto(p, "ok")
    /\ UNCHANGED <<records, issued, req, local, undoing, undone>>
CreateWriteFails(p) ==
    /\ At(p, "createFile.write")
    /\ blobs' \in {blobs, Put(blobs, local[p].file, local[p].rec.size)}
    /\ undoing' = undoing \cup {local[p].file}
    /\ undone' = undone \cup {local[p].file}
    /\ Goto(p, "error")
    /\ UNCHANGED <<records, issued, req, local>>

\* The deletion nobody waits for; when it fails nobody knows.
Undo(f) ==
    /\ f \in undoing
    /\ undoing' = undoing \ {f}
    /\ \/ records' = Remove(records, f) /\ UNCHANGED failures
       \/ failures < MaxFailures /\ failures' = failures + 1 /\ UNCHANGED records
    /\ UNCHANGED <<blobs, issued, pc, req, local, undone, crashes>>

Create(p) ==
    \/ Copy(p) \/ CopyRead(p)
    \/ CreateCheck(p) \/ CreateAdd(p) \/ CreateWrite(p)

----------------------------------------------------------------------------
(* updateFile: the bytes are replaced, then `update` makes its checks      *)

UpdateFile(p) ==
    Read(p, "updateFile", TRUE, records[Target(p)], "updateFile.check")

Projected(p) ==
    LET freed == local[p].rec.size
        all   == Usage + req[p].size
    IN  IF all > freed THEN all - freed ELSE 0

UpdateFileCheck(p) ==
    /\ At(p, "updateFile.check")
    /\ Goto(p, IF Fits(Projected(p)) THEN "updateFile.write" ELSE "error")
    /\ UNCHANGED <<records, blobs, handler>>

UpdateFileWrite(p) ==
    /\ At(p, "updateFile.write")
    /\ blobs' = Put(blobs, Target(p), req[p].size)
    /\ Goto(p, "update")
    /\ UNCHANGED <<records, handler>>

\* Of a file-like node update makes a new one, with the size of the request:
\* none, thus 0, unless updateFile sends it.
Rebuilt(p, rec) ==
    [rec EXCEPT !.size = IF req[p].op = "updateFile" THEN req[p].size ELSE 0]

Update(p) ==
    Read(p, "update", MayUpdate(req[p].user, records[Target(p)].meta),
         Rebuilt(p, records[Target(p)]), "updating")

Mark(p) ==
    Read(p, "mark", MayUpdate(req[p].user, records[Target(p)].meta),
         [Rebuilt(p, records[Target(p)]) EXCEPT
             !.meta = Marked(@, req[p].inst, req[p].state)], "updating")

Updating(p) == Write(p, "updating")

Replace(p) ==
    \/ UpdateFile(p) \/ UpdateFileCheck(p) \/ UpdateFileWrite(p)
    \/ Update(p) \/ Mark(p) \/ Updating(p)

----------------------------------------------------------------------------
(* lock and unlock                                                         *)

Lock(p) ==
    LET r == records[Target(p)]
    IN  Read(p, "lock", MayLock(req[p].user, r.meta),
             [r EXCEPT !.meta = Locked(@, req[p].user, req[p].groups)], "locking")
Locking(p) == Write(p, "locking")

Unlock(p) ==
    LET r == records[Target(p)]
    IN  Read(p, "unlock", MayUnlock(req[p].user, r.meta),
             [r EXCEPT !.meta = Unlocked(@)], "unlocking")
Unlocking(p) == Write(p, "unlocking")

LockRequests(p) == Lock(p) \/ Locking(p) \/ Unlock(p) \/ Unlocking(p)

----------------------------------------------------------------------------
(* delete: the bytes first, then the record                                *)

Delete(p) ==
    Read(p, "delete", MayDelete(req[p].user, records[Target(p)].meta),
         records[Target(p)], "delete.blob")

\* Every storage provider refuses to delete what it does not have.
DeleteBlob(p) ==
    /\ At(p, "delete.blob")
    /\ \/ /\ Target(p) \in DOMAIN blobs
          /\ blobs' = Remove(blobs, Target(p))
          /\ Goto(p, "deleting")
       \/ Target(p) \notin DOMAIN blobs /\ Goto(p, "error") /\ UNCHANGED blobs
    /\ UNCHANGED <<records, handler>>

\* Variant: the record is checked after the bytes are gone.
DeletingChecked(p) ==
    /\ At(p, "deleting")
    /\ \/ /\ Target(p) \in DOMAIN records
          /\ MayUpdate(req[p].user, records[Target(p)].meta)
          /\ records' = Remove(records, Target(p)) /\ Goto(p, "ok")
       \/ /\ ~(Target(p) \in DOMAIN records
                 /\ MayUpdate(req[p].user, records[Target(p)].meta))
          /\ Goto(p, "error") /\ UNCHANGED records
    /\ UNCHANGED <<blobs, handler>>
Deleting(p) ==
    /\ At(p, "deleting")
    /\ records' = Remove(records, Target(p))
    /\ Goto(p, IF Target(p) \in DOMAIN records THEN "ok" ELSE "error")
    /\ UNCHANGED <<blobs, handler>>

Erase(p) == Delete(p) \/ DeleteBlob(p) \/ Deleting(p)

----------------------------------------------------------------------------
(* The server                                                              *)

Issue(p) ==
    /\ At(p, "idle")
    /\ \E r \in Requests :
          /\ req' = [req EXCEPT ![p] = r]
          /\ Goto(p, r.op)
    /\ UNCHANGED <<records, blobs, issued, local, undoing, undone, failures, crashes>>

Reply(p) ==
    /\ pc[p] \in {"ok", "error"}
    /\ Goto(p, "idle")
    /\ req' = [req EXCEPT ![p] = NoRequest]
    /\ local' = [local EXCEPT ![p] = NoLocal]
    /\ UNCHANGED <<records, blobs, issued, undoing, undone, failures, crashes>>

\* The repository returns an error and stores nothing.
RepositoryFails(p) ==
    /\ pc[p] \in {"createFile.add", "updating", "locking", "unlocking", "deleting"}
    /\ Goto(p, "error")
    /\ UNCHANGED <<records, blobs, issued, req, local, undoing, undone>>

\* The storage returns an error, with or without having done its work.
\* Variant: delete goes on to the record.
StorageFailsIgnored(p) ==
    /\ At(p, "delete.blob") /\ Target(p) \in DOMAIN blobs
    /\ Goto(p, "deleting")
    /\ UNCHANGED <<records, blobs, issued, req, local, undoing, undone>>
StorageFails(p) ==
    /\ \/ /\ At(p, "updateFile.write")
          /\ blobs' \in {blobs, Put(blobs, Target(p), req[p].size)}
       \/ /\ At(p, "delete.blob") /\ Target(p) \in DOMAIN blobs
          /\ blobs' \in {blobs, Remove(blobs, Target(p))}
    /\ Goto(p, "error")
    /\ UNCHANGED <<records, issued, req, local, undoing, undone>>

Fails(p) ==
    /\ failures < MaxFailures
    /\ failures' = failures + 1
    /\ CreateWriteFails(p) \/ RepositoryFails(p) \/ StorageFails(p)
    /\ UNCHANGED crashes

\* A restart loses the requests in flight and the deletions not awaited.
Crash ==
    /\ crashes < MaxCrashes
    /\ \E p \in Procs : pc[p] # "idle"
    /\ crashes' = crashes + 1
    /\ pc' = [p \in Procs |-> "idle"]
    /\ req' = [p \in Procs |-> NoRequest]
    /\ local' = [p \in Procs |-> NoLocal]
    /\ undoing' = {}
    /\ UNCHANGED <<records, blobs, issued, undone, failures>>

Next ==
    \/ \E p \in Procs :
          \/ Issue(p) \/ Reply(p) \/ Fails(p)
          \/ Create(p) \/ Replace(p) \/ LockRequests(p) \/ Erase(p)
    \/ \E f \in undoing : Undo(f)
    \/ Crash

Spec == Init /\ [][Next]_vars

----------------------------------------------------------------------------
(* Properties                                                              *)

\* A record has its bytes, unless one of its own requests is between the two
\* stores: its creation before the bytes, its deletion after them.  Nothing
\* else, however it is interleaved, takes the bytes from under a record; a
\* failure or a restart may (createFile, updateFile, delete).
FilesHaveContent ==
    failures = 0 /\ crashes = 0 =>
       \A f \in DOMAIN records \ DOMAIN blobs : \E p \in Procs :
          \/ At(p, "createFile.write") /\ local[p].file = f
          \/ At(p, "deleting") /\ Target(p) = f

Quiet == undoing = {} /\ \A p \in Procs : pc[p] = "idle"

\* Between requests that come one at a time, with failures and restarts, no
\* bytes are left without a record, other than those of a file whose creation
\* was reported to have failed (the order of the two stores in createFile and
\* in delete).
BytesBelongToFiles == Quiet => DOMAIN blobs \subseteq DOMAIN records \cup undone

\* One request at a time, whatever fails or is lost between its check and its
\* write, the usage stays below the limit (ensureCanCreateFile and
\* ensureCanUpdateFile, which look at different moments of the stores).
StorageLimitHolds == Usage < Limit

\* One request at a time: what a request reports as done is done in both
\* stores (createFile, updateFile, delete; the replies after a failure).
DoneInBothStores ==
    \A p \in Procs : At(p, "ok") =>
       /\ req[p].op \in {"createFile", "copy"} =>
             LET f == local[p].file
             IN  /\ f \in DOMAIN records /\ f \in DOMAIN blobs
                 /\ blobs[f] = records[f].size
       /\ req[p].op = "updateFile" /\ Target(p) \notin undone =>
             /\ Target(p) \in DOMAIN records /\ Target(p) \in DOMAIN blobs
             /\ blobs[Target(p)] = req[p].size
             /\ records[Target(p)].size = req[p].size
       /\ req[p].op = "delete" =>
             Target(p) \notin DOMAIN records \cup DOMAIN blobs
=============================================================================

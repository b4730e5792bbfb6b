-------------------------- MODULE StorageProviders --------------------------
(***************************************************************************)
(* The storages of file contents (src/adapters, *_storage_provider.ts): in *)
(* memory, in two files of a directory (bytes and mimetype), in S3 and in  *)
(* Google Drive, where a file is found by a search for its uuid.  Callers  *)
(* interleave between the requests a call is made of.                      *)
(***************************************************************************)
EXTENDS Naturals, FiniteSets

CONSTANTS
    FileUuids, FolderUuids,
    FolderOf,        \* uuid of a file or folder -> its folder, or RootPlace
    StorageCallers,
    Files,           \* what is written: bytes that have a type of their own
    StorageBackends,
    RootPlace, NoFile, NoStep,
    MaxDriveFiles, MaxStorageFaults

\* The storages of the code; a uuid is a file's or a folder's; what is
\* written is there.
ASSUME StorageAssumption ==
    /\ StorageBackends \subseteq {"inmem", "flat_file", "s3", "google_drive"}
    /\ FileUuids \cap FolderUuids = {} /\ NoFile \notin Files
    /\ NoStep \notin [step : {"search", "read", "bytes", "type", "create", "place", "update", "trash"},
                      uuid : FileUuids, file : Files \cup {NoFile}, id : Nat]

VARIABLES
    storageBackend,
    bytes, types,    \* uuid -> the bytes and the mimetype it is stored with
    drive,           \* files and folders of the shared drive, trashed ones left out
    driveIds,        \* how many identifiers the drive has given
    steps,           \* caller -> the call it is in
    lastWrite,       \* uuid -> what was last reported as written, or NoFile
    overlapped,      \* uuids with calls that overlapped or failed midway
    storageFaults

storageVars == <<storageBackend, bytes, types, drive, driveIds, steps, lastWrite, overlapped,
                 storageFaults>>
others == <<storageBackend, storageFaults>>

Busy(u) == \E c \in StorageCallers : steps[c] # NoStep /\ steps[c].uuid = u

\* #getDriveMedata: the files that bear the uuid.
OnDrive(u) == {f \in drive : f.uuid = u}
ItsId(u) == (CHOOSE f \in OnDrive(u) : TRUE).id

\* read: the bytes and the type, or NoFile.  Two files of a uuid are none.
Read(u) ==
    IF storageBackend = "google_drive"
    THEN IF Cardinality(OnDrive(u)) = 1
         THEN LET file == (CHOOSE f \in OnDrive(u) : TRUE).file IN <<file, file>>
         ELSE <<NoFile, NoFile>>
    ELSE IF bytes[u] = NoFile THEN <<NoFile, NoFile>> ELSE <<bytes[u], types[u]>>

Goto(c, step, u, file, id) ==
    steps' = [steps EXCEPT ![c] = [step |-> step, uuid |-> u, file |-> file, id |-> id]]
Reply(c, u, file) ==
    /\ steps' = [steps EXCEPT ![c] = NoStep]
    /\ lastWrite' = [lastWrite EXCEPT ![u] = file]
Refuse(c) == steps' = [steps EXCEPT ![c] = NoStep] /\ UNCHANGED lastWrite

\* A call begins; `file` is what it writes, NoFile when it deletes.
FirstStep(file) ==
    CASE storageBackend = "google_drive" -> "search"
      [] storageBackend = "s3" /\ file = NoFile -> "read"
      [] OTHER -> "bytes"
StartCall(c, u, file) ==
    /\ steps[c] = NoStep
    /\ Goto(c, FirstStep(file), u, file, 0)
    /\ overlapped' = IF Busy(u) THEN overlapped \cup {u} ELSE overlapped
    /\ UNCHANGED <<others, bytes, types, drive, driveIds, lastWrite>>

----------------------------------------------------------------------------
(* Memory, a directory, and S3                                             *)

\* S3 deletes what it could read.
ReadFirst(c) ==
    /\ steps[c] # NoStep /\ steps[c].step = "read"
    /\ LET u == steps[c].uuid
       IN  IF Read(u)[1] = NoFile THEN Refuse(c)
           ELSE Goto(c, "bytes", u, NoFile, 0) /\ UNCHANGED lastWrite
    /\ UNCHANGED <<others, bytes, types, drive, driveIds, overlapped>>

\* Variant: a directory that is written without mimetypes.
BytesOnly == FALSE
\* Whether the mimetype is a request of its own.
TwoFiles == storageBackend = "flat_file"
PutBytes(c) ==
    /\ steps[c] # NoStep /\ steps[c].step = "bytes"
    /\ LET u == steps[c].uuid
           file == steps[c].file
       IN  IF file = NoFile /\ bytes[u] = NoFile /\ storageBackend # "s3"
           THEN Refuse(c) /\ UNCHANGED <<bytes, types>>
           ELSE /\ bytes' = [bytes EXCEPT ![u] = file]
                /\ IF TwoFiles
                   THEN Goto(c, "type", u, file, 0) /\ UNCHANGED <<types, lastWrite>>
                   ELSE /\ Reply(c, u, file)
                        /\ types' = IF storageBackend = "flat_file" THEN types
                                    ELSE [types EXCEPT ![u] = file]
    /\ UNCHANGED <<others, drive, driveIds, overlapped>>

PutType(c) ==
    /\ steps[c] # NoStep /\ steps[c].step = "type"
    /\ types' = [types EXCEPT ![steps[c].uuid] = steps[c].file]
    /\ Reply(c, steps[c].uuid, steps[c].file)
    /\ UNCHANGED <<others, bytes, drive, driveIds, overlapped>>

----------------------------------------------------------------------------
(* Google Drive                                                            *)

\* What a search leads to: several files are refused, none is created or
\* cannot be deleted, one is written over or trashed.
AfterSearch(u, file) ==
    CASE Cardinality(OnDrive(u)) > 1 -> "refuse"
      [] OnDrive(u) = {} -> IF file = NoFile THEN "refuse" ELSE "create"
      [] OTHER -> IF file = NoFile THEN "trash" ELSE "update"
Search(c) ==
    /\ steps[c] # NoStep /\ steps[c].step = "search"
    /\ LET u == steps[c].uuid
           next == AfterSearch(u, steps[c].file)
       IN  IF next = "refuse" THEN Refuse(c)
           ELSE /\ Goto(c, next, u, steps[c].file, IF OnDrive(u) = {} THEN 0 ELSE ItsId(u))
                /\ UNCHANGED lastWrite
    /\ UNCHANGED <<others, bytes, types, drive, driveIds, overlapped>>

\* A new file is made in the root of the drive, and moved when it has a folder.
DriveCreate(c) ==
    /\ steps[c] # NoStep /\ steps[c].step = "create" /\ driveIds < MaxDriveFiles
    /\ driveIds' = driveIds + 1
    /\ LET u == steps[c].uuid
       IN  /\ drive' = drive \cup {[id |-> driveIds', uuid |-> u, file |-> steps[c].file, place |-> 0]}
           /\ IF FolderOf[u] = RootPlace THEN Reply(c, u, steps[c].file)
              ELSE Goto(c, "place", u, steps[c].file, driveIds') /\ UNCHANGED lastWrite
    /\ UNCHANGED <<others, bytes, types, overlapped>>

\* #updateParentFolderId: without one folder of its parent's uuid it stays.
DrivePlace(c) ==
    /\ steps[c] # NoStep /\ steps[c].step = "place"
    /\ LET folder == FolderOf[steps[c].uuid]
       IN  drive' = IF Cardinality(OnDrive(folder)) # 1 THEN drive
                    ELSE {IF f.id = steps[c].id THEN [f EXCEPT !.place = ItsId(folder)] ELSE f : f \in drive}
    /\ Reply(c, steps[c].uuid, steps[c].file)
    /\ UNCHANGED <<others, bytes, types, driveIds, overlapped>>

\* files.update of the file that was found: its content, or into the trash.
DriveUpdate(c) ==
    /\ steps[c] # NoStep /\ steps[c].step \in {"update", "trash"}
    /\ LET hit == {f \in drive : f.id = steps[c].id}
       IN  /\ drive' = (drive \ hit) \cup
                (IF steps[c].step = "trash" THEN {} ELSE {[f EXCEPT !.file = steps[c].file] : f \in hit})
           /\ IF hit = {} THEN Refuse(c) ELSE Reply(c, steps[c].uuid, steps[c].file)
    /\ UNCHANGED <<others, bytes, types, driveIds, overlapped>>

\* #handleNodeCreated: the folder of a node, below the folder of its parent;
\* when that is not there, none is made.
MirrorFolder(u) ==
    /\ storageBackend = "google_drive" /\ driveIds < MaxDriveFiles
    /\ OnDrive(u) = {}      \* a node is created once
    /\ FolderOf[u] = RootPlace \/ Cardinality(OnDrive(FolderOf[u])) = 1
    /\ driveIds' = driveIds + 1
    /\ drive' = drive \cup {[id |-> driveIds', uuid |-> u, file |-> NoFile,
          place |-> IF FolderOf[u] = RootPlace THEN 0 ELSE ItsId(FolderOf[u])]}
    /\ UNCHANGED <<others, bytes, types, steps, lastWrite, overlapped>>

\* #handleNodeDeleted
TrashFolder(u) ==
    /\ Cardinality(OnDrive(u)) = 1
    /\ drive' = drive \ OnDrive(u)
    /\ UNCHANGED <<others, bytes, types, driveIds, steps, lastWrite, overlapped>>

----------------------------------------------------------------------------

\* The process stops: whatever was under way stays as it is.
StopStorage ==
    /\ storageFaults < MaxStorageFaults /\ storageFaults' = storageFaults + 1
    /\ overlapped' = overlapped \cup {u \in FileUuids : Busy(u)}
    /\ steps' = [c \in StorageCallers |-> NoStep]
    /\ IF storageBackend = "inmem"
       THEN /\ bytes' = [u \in FileUuids |-> NoFile] /\ types' = bytes' /\ lastWrite' = bytes'
       ELSE UNCHANGED <<bytes, types, lastWrite>>
    /\ UNCHANGED <<storageBackend, drive, driveIds>>

StorageInit(backends) ==
    /\ storageBackend \in backends
    /\ bytes = [u \in FileUuids |-> NoFile] /\ types = bytes /\ lastWrite = bytes
    /\ drive = {} /\ driveIds = 0
    /\ steps = [c \in StorageCallers |-> NoStep]
    /\ overlapped = {} /\ storageFaults = 0

Begin(c) == \E u \in FileUuids, file \in Files \cup {NoFile} : StartCall(c, u, file)

\* write and delete, in each of the four storages.
MemoryCalls    == storageBackend = "inmem" /\ \E c \in StorageCallers : Begin(c) \/ PutBytes(c)
DirectoryCalls == storageBackend = "flat_file" /\ \E c \in StorageCallers :
    Begin(c) \/ PutBytes(c) \/ PutType(c)
S3Calls        == storageBackend = "s3" /\ \E c \in StorageCallers :
    Begin(c) \/ ReadFirst(c) \/ PutBytes(c)
DriveCalls     == storageBackend = "google_drive" /\
    \/ \E c \in StorageCallers :
         Begin(c) \/ Search(c) \/ DriveCreate(c) \/ DrivePlace(c) \/ DriveUpdate(c)
    \/ \E u \in FolderUuids : MirrorFolder(u) \/ TrashFolder(u)

StorageNext == MemoryCalls \/ DirectoryCalls \/ S3Calls \/ DriveCalls \/ StopStorage

StorageSpec == StorageInit(StorageBackends) /\ [][StorageNext]_storageVars

----------------------------------------------------------------------------
(* Properties                                                              *)

\* Once no call on a uuid is under way, read gives the bytes of the write
\* last reported as done, with their own mimetype, and nothing after a
\* deletion: where a call is more than one request, as long as no two of
\* them overlapped on the uuid and none was cut short.
LastWriteIsRead ==
    \A u \in FileUuids \ (IF storageBackend \in {"inmem", "s3"} THEN {} ELSE overlapped) :
      ~Busy(u) => Read(u) = <<lastWrite[u], lastWrite[u]>>

=============================================================================
